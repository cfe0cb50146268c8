----------------------------- MODULE ModelRouter -----------------------------
(***************************************************************************)
(* The latency-aware router of src/app/services/model_router.py: a rolling *)
(* window of the primary's last calls, a circuit breaker that is a key     *)
(* with a time to live, and a half-open probe that is a token with a time  *)
(* to live.  All three live in Redis, which every uvicorn and Celery       *)
(* process shares.  (A process that cannot reach it goes on with a store   *)
(* of its own that works alike: the same module with its callers alone.)   *)
(*                                                                         *)
(* Callers are in processes of their own, so that they interleave between  *)
(* any two round trips to the store.  An action is one round trip.         *)
(***************************************************************************)
EXTENDS Naturals, Sequences, FiniteSets

CONSTANTS
  Callers,      \* agent runs that ask for a route and report how it went
  Window,       \* model_router_window_size
  Threshold,    \* model_router_trip_threshold
  MinSamples,   \* model_router_min_samples
  HardTrip,     \* model_router_hard_failure_trip
  Cooldown      \* model_router_cooldown_seconds, in ticks

\* _validate_router
ASSUME RouterAssumption ==
  /\ {Window, Threshold, MinSamples, HardTrip, Cooldown} \subseteq Nat \ {0}
  /\ Threshold <= Window /\ MinSamples <= Window /\ HardTrip <= Window

VARIABLES
  routing,      \* what the settings of the moment allow
  window,       \* samples of the primary, the newest first: was the call bad?
  breaker,      \* ticks until the breaker key lapses, 0 without one
  probe,        \* ticks until the probe token lapses
  step,         \* the round trip a caller makes next, inside candidates or record_outcome
  outcome,      \* the outcome it is recording, "none" without one
  plan          \* the slots candidates returned to it, in order

storeVars  == <<window, breaker, probe>>
callVars   == <<step, outcome, plan>>
routerVars == <<routing, window, breaker, probe, step, outcome, plan>>

-----------------------------------------------------------------------------
\* "observing": the switch is off.  "alone": no backup is usable.
Routings == {"observing", "alone", "paired"}

Outcomes == {"ok", "slow", "timeout", "hard_failure", "error", "none"}

\* An outcome outside this set counts as good, "error" included.
Bad == {"slow", "timeout", "hard_failure"}

Slots == {"primary", "backup"}

\* The round trips: claim the probe token; push a sample; read the breaker; then drop the
\* breaker and the window, or read the window, or set the breaker.
Steps == {"none", "claim", "push", "read", "close", "clear", "judge", "open"}

BreakerOpen == breaker > 0

\* (mutant of Newest) The end index of LTRIM is taken for a length.
NewestButOne(samples) ==
  SubSeq(samples, 1, IF Len(samples) > Window + 1 THEN Window + 1 ELSE Len(samples))

Newest(samples) == SubSeq(samples, 1, IF Len(samples) > Window THEN Window ELSE Len(samples))

BadCount(samples) == Cardinality({i \in DOMAIN samples : samples[i]})

RouterTypeOK ==
  /\ routing \in Routings
  /\ window \in Seq(BOOLEAN) /\ Len(window) <= Window
  /\ breaker \in 0..Cooldown
  /\ probe \in 0..Cooldown
  /\ step \in [Callers -> Steps]
  /\ outcome \in [Callers -> Outcomes]
  /\ plan \in [Callers -> Seq(Slots)]

RouterInit ==
  /\ routing \in Routings
  /\ window = <<>>
  /\ breaker = 0
  /\ probe = 0
  /\ step = [c \in Callers |-> "none"]
  /\ outcome = [c \in Callers |-> "none"]
  /\ plan = [c \in Callers |-> <<>>]

-----------------------------------------------------------------------------
\* candidates, up to the answer or to the claim of the probe token.  able: the backup
\* has what this agent requires of an endpoint.  Without such a backup an open breaker
\* is removed for everyone; a removal right after the read commutes with whatever
\* another process does between the two.
Select(c, able) ==
  /\ step[c] = "none"
  /\ IF routing = "paired" /\ able
       THEN /\ plan' = [plan EXCEPT ![c] = IF BreakerOpen THEN <<>> ELSE <<"primary", "backup">>]
            /\ step' = [step EXCEPT ![c] = IF BreakerOpen THEN "claim" ELSE "none"]
            /\ UNCHANGED breaker
       ELSE /\ plan' = [plan EXCEPT ![c] = <<"primary">>]
            /\ breaker' = IF routing = "observing" THEN breaker ELSE 0
            /\ UNCHANGED step
  /\ UNCHANGED <<routing, window, probe, outcome>>

\* try_claim_probe: one SET NX EX.  The winner goes to the primary, the others are
\* served by the backup first.
Claim(c) ==
  /\ step[c] = "claim"
  /\ step' = [step EXCEPT ![c] = "none"]
  /\ \/ /\ probe = 0
        /\ probe' = Cooldown
        /\ plan' = [plan EXCEPT ![c] = <<"primary", "backup">>]
     \/ /\ probe > 0
        /\ plan' = [plan EXCEPT ![c] = <<"backup", "primary">>]
        /\ UNCHANGED probe
  /\ UNCHANGED <<routing, window, breaker, outcome>>

\* record_outcome is called: what it is about to record.  The backup has a window for
\* display only, and no breaker.
Report(c, slot, how) ==
  IF slot = "primary"
    THEN /\ step' = [step EXCEPT ![c] = "push"]
         /\ outcome' = [outcome EXCEPT ![c] = how]
    ELSE UNCHANGED <<step, outcome>>

\* The next round trip of record_outcome, or its end.
Proceed(c, next) ==
  /\ step' = [step EXCEPT ![c] = next]
  /\ outcome' = [outcome EXCEPT ![c] = IF next = "none" THEN "none" ELSE @]

\* The sample, trimmed to the window; then the settings decide whether the breaker is
\* looked at.
Push(c) ==
  /\ step[c] = "push"
  /\ window' = Newest(<<outcome[c] \in Bad>> \o window)
  /\ Proceed(c, IF routing = "paired" THEN "read" ELSE "none")
  /\ UNCHANGED <<routing, breaker, probe, plan>>

\* (mutant of AfterRead) Whatever comes back while the breaker is open prolongs it.
AfterReadProlonging(c) ==
  IF BreakerOpen THEN "open" ELSE IF outcome[c] \in Bad THEN "judge" ELSE "none"

\* was_open: a good outcome closes an open breaker, a bad one prolongs it, and a bad one
\* of a closed breaker has the window judged.
AfterRead(c) ==
  IF outcome[c] \in Bad THEN IF BreakerOpen THEN "open" ELSE "judge"
                        ELSE IF BreakerOpen THEN "close" ELSE "none"

Read(c) ==
  /\ step[c] = "read"
  /\ Proceed(c, AfterRead(c))
  /\ UNCHANGED <<routing, window, breaker, probe, plan>>

Close(c) ==
  /\ step[c] = "close"
  /\ breaker' = 0
  /\ Proceed(c, "clear")
  /\ UNCHANGED <<routing, window, probe, plan>>

Clear(c) ==
  /\ step[c] = "clear"
  /\ window' = <<>>
  /\ Proceed(c, "none")
  /\ UNCHANGED <<routing, breaker, probe, plan>>

Trips(c) ==
  \/ outcome[c] = "hard_failure" /\ BadCount(window) >= HardTrip
  \/ Len(window) >= MinSamples /\ BadCount(window) >= Threshold

Judge(c) ==
  /\ step[c] = "judge"
  /\ Proceed(c, IF Trips(c) THEN "open" ELSE "none")
  /\ UNCHANGED <<routing, window, breaker, probe, plan>>

Open(c) ==
  /\ step[c] = "open"
  /\ breaker' = Cooldown
  /\ Proceed(c, "none")
  /\ UNCHANGED <<routing, window, probe, plan>>

-----------------------------------------------------------------------------
\* Time passes: the keys lapse by themselves.
Tick ==
  /\ breaker + probe > 0
  /\ breaker' = IF breaker > 0 THEN breaker - 1 ELSE 0
  /\ probe' = IF probe > 0 THEN probe - 1 ELSE 0
  /\ UNCHANGED <<routing, window, step, outcome, plan>>

\* model_router_sample_ttl_seconds without a new sample.
SamplesLapse ==
  /\ window # <<>>
  /\ window' = <<>>
  /\ UNCHANGED <<routing, breaker, probe, step, outcome, plan>>

\* An administrator saves the settings.
Configure ==
  /\ \E r \in Routings \ {routing} : routing' = r
  /\ UNCHANGED <<window, breaker, probe, step, outcome, plan>>

RoundTrip(c) == Claim(c) \/ Push(c) \/ Read(c) \/ Close(c) \/ Clear(c) \/ Judge(c) \/ Open(c)

World == Tick \/ SamplesLapse \/ Configure

=============================================================================
