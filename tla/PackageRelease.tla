--------------------------- MODULE PackageRelease ---------------------------
(***************************************************************************)
(* A packaging turn and the repository it publishes into                   *)
(* (PackageSearchChatService._build_and_publish_package): the package is   *)
(* built from the confirmed plan and then published, once, by a thread of  *)
(* its own.  A turn lives in the process that serves the repository and    *)
(* dies with it.                                                           *)
(***************************************************************************)
EXTENDS PackagePlan, PackageRepository

releaseVars == <<planVars, repoVars>>

TypeOK == PlanTypeOK /\ RepoTypeOK

Init == PlanInit /\ RepoInit

\* What was built is published.
PublishBuilt(b) ==
  /\ step = "built"
  /\ \A o \in Builds : stage[o] = "idle"
  /\ Claim(b)
  /\ UNCHANGED planVars

\* The process dies, and with it a turn whose package is not being published yet.
ProcessDies ==
  /\ Crash
  /\ step' = IF \E b \in Builds : stage[b] # "idle" THEN step ELSE "failed"
  /\ UNCHANGED <<kit, draft, answer, plan, artifact>>

Next ==
  \/ PlanNext /\ UNCHANGED repoVars
  \/ RepoSteps /\ UNCHANGED planVars
  \/ \E b \in Builds : PublishBuilt(b)
  \/ ProcessDies

Spec == Init /\ [][Next]_releaseVars /\ RepoFairness
=============================================================================
