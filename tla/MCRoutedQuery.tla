---------------------------- MODULE MCRoutedQuery ----------------------------
\* RoutedQuery with the part of a call that only the call itself sees (text held back,
\* attempts given up, teardowns, another key) explored while the other callers are idle,
\* and with such steps not kept waiting for others.
EXTENDS RoutedQuery

\* To the router "slow" is another "timeout" and "error" another "ok".
Plain(c) ==
  /\ ~held'[c] /\ ~rekeyed'[c] /\ outcome'[c] \notin {"slow", "error"}
  /\ detached'[c] = {} /\ overdue'[c] = {} /\ cause'[c] = "none"
  /\ (call'[c] = "idle" => alive'[c] = {})
  /\ (call[c] = "switching" => call'[c] # "draining")

Busy(c) == call'[c] # "idle"

OneIntricate ==
  {c \in Callers : ~Plain(c) /\ {d \in Callers \ {c} : Busy(d)} # {}} = {}

\* The end of a teardown, and its limit, happen while the call waits for them: the state a
\* call finds in its last finally is the same whenever they happened.
EndsWhenAwaited ==
  {c \in Callers : \/ ~(detached[c] \subseteq detached'[c]) /\ call[c] # "draining"
                   \/ ~(overdue'[c] \subseteq overdue[c]) /\ call[c] \notin {"closing", "draining"}} = {}

\* Steps no other caller and no store sees.
Private(c) ==
  /\ step[c] = "none"
  /\ \/ call[c] \in {"routing", "switching", "streaming", "closing", "draining"}
     \/ call[c] = "idle" /\ alive[c] # {}

Moves(c) == call'[c] # call[c] \/ alive'[c] # alive[c] \/ overdue'[c] # overdue[c]

Prompt ==
  LET waiting == {c \in Callers : Private(c)}
  IN  waiting = {} \/ {c \in waiting : Moves(c)} # {}

\* The router's switch is turned on, not off.
SwitchedOn == routing' = "observing" => routing = "observing"

MCSpec ==
  Init /\ [][Next /\ OneIntricate /\ EndsWhenAwaited /\ Prompt /\ SwitchedOn]_vars /\ Fairness

=============================================================================
