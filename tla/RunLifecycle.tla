----------------------------- MODULE RunLifecycle -----------------------------
(***************************************************************************)
(* What the chat back end promises of a run, whoever drives it: it begins   *)
(* once, ends once with one outcome, and an accepted cancel decides that    *)
(* outcome.  Runs are lost only all together, with the process.             *)
(***************************************************************************)
CONSTANTS Runs

VARIABLES
  st,      \* "idle", "running", an outcome, or "lost"
  asked    \* the runs whose owner was told that they are being cancelled

vars == <<st, asked>>

Ends == {"succeeded", "failed", "cancelled"}

Init == st = [r \in Runs |-> "idle"] /\ asked = {}

Begin(r) ==
  /\ st[r] = "idle"
  /\ st' = [st EXCEPT ![r] = "running"]
  /\ UNCHANGED asked

Ask(r) ==
  /\ st[r] = "running"
  /\ asked' = asked \cup {r}
  /\ UNCHANGED st

End(r) ==
  /\ st[r] = "running"
  /\ \E end \in Ends : /\ r \in asked => end = "cancelled"
                       /\ st' = [st EXCEPT ![r] = end]
  /\ UNCHANGED asked

LoseAll ==
  /\ st' = [r \in Runs |-> IF st[r] = "running" THEN "lost" ELSE st[r]]
  /\ UNCHANGED asked

Next == LoseAll \/ \E r \in Runs : Begin(r) \/ Ask(r) \/ End(r)

Spec == Init /\ [][Next]_vars

FairSpec == Spec /\ \A r \in Runs : WF_vars(End(r))
=============================================================================
