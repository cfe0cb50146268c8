----------------------------- MODULE PackageJobs -----------------------------
(***************************************************************************)
(* The package search service's jobs that build and publish a package      *)
(* (src/app/services/package_search_chat_service.py), driving the jobs of  *)
(* WorkspaceJobs: the uploads are classified into a plan, a card asks the  *)
(* user to confirm it (a second one if that changes the plan), the plan is *)
(* signed, built and published, and a cancel may come at any time.         *)
(*                                                                         *)
(* A plan stands for a project, its packaging rules and the mapping of the *)
(* uploads to its components.                                              *)
(***************************************************************************)
EXTENDS WorkspaceJobs

CONSTANTS
  Plans,        \* the plans a classification may come to
  NoPlan        \* no plan yet

ASSUME PlanAssumption == NoPlan \notin Plans

VARIABLES
  stage,        \* how far the packaging of a job has come
  round,        \* how many cards it has shown
  draft,        \* the plan of the classification, the one on the card
  card,         \* the card's future in AgentJob.mandatory_broker
  answer,       \* what the user answered
  agreed,       \* the plan the user last confirmed on a card
  promised,     \* cancel() told the user that nothing will be published
  published     \* the plan of the package in the repository

packVars == <<stage, round, draft, card, answer, agreed, promised, published>>
vars == <<turn, svc, sess, watch, unsent, table, job, tail, cancel, result, pointer,
          shadow, row, dbLost, stage, round, draft, card, answer, agreed, promised,
          published>>

\* "asking": a card is shown.  "checking": the rules of the project that was
\* answered are loaded.  "signing" to "publishing": the awaits up to the end.
Stages == {"none", "asking", "checking", "signing", "building", "publishing"}

\* The card is confirmed as it is, with another project, or by its cancel option.
Answers == {"accept", "other", "cancel"}

PackTypeOK ==
  /\ stage \in [Turns -> Stages] /\ round \in [Turns -> 0..2]
  /\ draft \in [Turns -> Plans \cup {NoPlan}]
  /\ card \in [Turns -> {"none", "open", "answered", "closed"}]
  /\ answer \in [Turns -> Answers \cup {"none"}]
  /\ agreed \in [Turns -> Plans \cup {NoPlan}]
  /\ promised \in [Turns -> BOOLEAN]
  /\ published \in [Turns -> Plans \cup {NoPlan}]

TypeOK == WorkTypeOK /\ PackTypeOK

Init ==
  /\ WorkInit
  /\ stage = [t \in Turns |-> "none"] /\ round = [t \in Turns |-> 0]
  /\ draft = [t \in Turns |-> NoPlan]
  /\ card = [t \in Turns |-> "none"]
  /\ answer = [t \in Turns |-> "none"]
  /\ agreed = [t \in Turns |-> NoPlan]
  /\ promised = [t \in Turns |-> FALSE]
  /\ published = [t \in Turns |-> NoPlan]

-----------------------------------------------------------------------------
Packing(t, at) == job[t] = "running" /\ Packages(t) /\ stage[t] = at

\* What _prepare_and_confirm_packaging keeps in its locals is gone with it.
DropLocals(t) ==
  /\ round' = [round EXCEPT ![t] = 0]
  /\ answer' = [answer EXCEPT ![t] = "none"]

\* The job ends on an exception: MandatoryClarificationError counts as cancelled
\* when it says so or the job is, anything else as failed.
Abort(t, r, hit) ==
  /\ Ends(t, r, hit)
  /\ stage' = [stage EXCEPT ![t] = "none"]
  /\ card' = [card EXCEPT ![t] = "none"]
  /\ draft' = [draft EXCEPT ![t] = NoPlan]
  /\ agreed' = [agreed EXCEPT ![t] = NoPlan]
  /\ DropLocals(t)
  /\ UNCHANGED <<promised, published>>

\* (mutant of CancelSeen) Looks at the card's broker only.
CancelSeenOnCard(t) == card[t] = "closed"

\* job.cancel_requested, asked before a card, after the plan and after the build.
CancelSeen(t) == cancel[t]

\* _request_packaging_confirmation: refuses a cancelled job, else shows the card.
Ask(t, p) ==
  \/ CancelSeen(t) /\ Abort(t, "cancelled", {})
  \/ /\ ~CancelSeen(t)
     /\ stage' = [stage EXCEPT ![t] = "asking"]
     /\ round' = [round EXCEPT ![t] = @ + 1]
     /\ draft' = [draft EXCEPT ![t] = p]
     /\ card' = [card EXCEPT ![t] = "open"]
     /\ Append({t}, "open")
     /\ UNCHANGED <<turn, svc, sess, watch, table, job, cancel, result, runVars, answer,
                    agreed, promised, published>>

\* The skills are laid out and the uploads classified, in threads.
Classify(t) ==
  /\ Packing(t, "none")
  /\ \E p \in Plans : Ask(t, p)

\* The user answers the card.
Answer(t) ==
  /\ card[t] = "open"
  /\ card' = [card EXCEPT ![t] = "answered"]
  /\ \E a \in Answers :
       /\ answer' = [answer EXCEPT ![t] = a]
       /\ agreed' = [agreed EXCEPT ![t] = IF a = "accept" THEN draft[t] ELSE NoPlan]
  /\ UNCHANGED <<workVars, stage, round, draft, promised, published>>

\* The card's timer: the job the session has now is cancelled, this one ends.
CardTimesOut(t) ==
  /\ Packing(t, "asking") /\ card[t] = "open"
  /\ Abort(t, "cancelled", Signalled(svc[t], sess[t]))

\* (mutant of Resume) Another project leads to another card, however often.
ResumeAgain(t) ==
  /\ Packing(t, "asking")
  /\ \/ card[t] = "closed" /\ Abort(t, "cancelled", {})
     \/ card[t] = "answered" /\ answer[t] = "cancel" /\ Abort(t, "cancelled", {})
     \/ /\ card[t] = "answered" /\ answer[t] # "cancel"
        /\ stage' = [stage EXCEPT ![t] = "checking"]
        /\ card' = [card EXCEPT ![t] = "none"]
        /\ Append({t}, "open")
        /\ UNCHANGED <<turn, svc, sess, watch, table, job, cancel, result, runVars, round,
                       draft, answer, agreed, promised, published>>

\* The waiter wakes up: closed by a cancel, or answered.  Another project on the
\* second card is an error, the first one leads to the rules of that project.
Resume(t) ==
  /\ Packing(t, "asking")
  /\ \/ card[t] = "closed" /\ Abort(t, "cancelled", {})
     \/ card[t] = "answered" /\ answer[t] = "cancel" /\ Abort(t, "cancelled", {})
     \/ card[t] = "answered" /\ answer[t] = "other" /\ round[t] = 2 /\ Abort(t, "failed", {})
     \/ /\ card[t] = "answered" /\ answer[t] # "cancel"
        /\ answer[t] = "other" => round[t] = 1
        /\ stage' = [stage EXCEPT ![t] = IF round[t] = 1 THEN "checking" ELSE "signing"]
        /\ card' = [card EXCEPT ![t] = "none"]
        /\ Append({t}, "open")
        /\ UNCHANGED <<turn, svc, sess, watch, table, job, cancel, result, runVars, round,
                       draft, answer, agreed, promised, published>>

ToSigning(t) ==
  /\ stage' = [stage EXCEPT ![t] = "signing"]
  /\ UNCHANGED <<workVars, round, draft, card, answer, agreed, promised, published>>

\* (mutant of Recheck) Rules that changed since the card are taken over silently.
RecheckSilently(t) ==
  /\ Packing(t, "checking")
  /\ \E p \in Plans :
       /\ stage' = [stage EXCEPT ![t] = "signing"]
       /\ draft' = [draft EXCEPT ![t] = p]
       /\ UNCHANGED <<workVars, round, card, answer, agreed, promised, published>>

\* The rules in force for the answered project: if they give the plan on the card
\* it stands, else the uploads are classified again and a second card is shown.
Recheck(t) ==
  /\ Packing(t, "checking")
  /\ \E p \in Plans :
       \/ p = draft[t] /\ answer[t] = "accept" /\ ToSigning(t)
       \/ p # draft[t] /\ Ask(t, p)

\* confirm_plan in a thread, then signed, verified and written; then the cancel
\* is looked at.
Sign(t) ==
  /\ Packing(t, "signing")
  /\ \/ CancelSeen(t) /\ Abort(t, "cancelled", {})
     \/ /\ ~CancelSeen(t)
        /\ stage' = [stage EXCEPT ![t] = "building"]
        /\ DropLocals(t)
        /\ UNCHANGED <<workVars, draft, card, agreed, promised, published>>

\* The builder's thread returns, and the cancel is looked at for the last time.
Build(t) ==
  /\ Packing(t, "building")
  /\ \/ CancelSeen(t) /\ Abort(t, "cancelled", {})
     \/ /\ ~CancelSeen(t)
        /\ stage' = [stage EXCEPT ![t] = "publishing"]
        /\ UNCHANGED <<workVars, round, draft, card, answer, agreed, promised, published>>

\* publish_built_package returns; the answer names the package.
Publish(t) ==
  /\ Packing(t, "publishing")
  /\ published' = [published EXCEPT ![t] = draft[t]]
  /\ draft' = [draft EXCEPT ![t] = NoPlan]
  /\ stage' = [stage EXCEPT ![t] = "none"]
  /\ job' = [job EXCEPT ![t] = "persisting"]
  /\ result' = [result EXCEPT ![t] = "succeeded"]
  /\ Append({t}, "open")
  /\ UNCHANGED <<turn, svc, sess, watch, table, cancel, runVars, round, card, answer, agreed,
                 promised>>

\* Bad uploads or catalog, a plan past its time limit, a build or a disk error.
PackFails(t) ==
  /\ \E at \in Stages \ {"asking"} : Packing(t, at)
  /\ Abort(t, "failed", {})

\* cancel(session_id) also closes the card of the job, which denies it unless it
\* was answered, and then says that nothing will be built or published.
PackCancel(v, s) ==
  /\ Cancel(v, s)
  /\ card' = [j \in Turns |->
                IF j \in Signalled(v, s) /\ card[j] = "open" THEN "closed" ELSE card[j]]
  /\ promised' = [j \in Turns |->
                promised[j] \/ (j \in Signalled(v, s) /\ stage[j] = "asking")]
  /\ UNCHANGED <<stage, round, draft, answer, agreed, published>>

-----------------------------------------------------------------------------
\* Threads return, and a card is answered, cancelled or times out.
Pack(t) ==
  \/ Classify(t)
  \/ CardTimesOut(t)
  \/ Resume(t)
  \/ Recheck(t)
  \/ Sign(t)
  \/ Build(t)
  \/ Publish(t)

Next ==
  \/ \E t \in Turns : (Serve(t) \/ Work(t) \/ Chance(t)) /\ UNCHANGED packVars
  \/ \E t \in Turns : Pack(t) \/ Answer(t) \/ PackFails(t)
  \/ \E v \in Services, s \in Sessions : PackCancel(v, s)

Fairness ==
  \A t \in Turns :
    /\ WF_vars(Serve(t) /\ UNCHANGED packVars)
    /\ WF_vars((Work(t) /\ UNCHANGED packVars) \/ Pack(t))

Spec == Init /\ [][Next]_vars

FairSpec == Spec /\ Fairness

-----------------------------------------------------------------------------
(* Properties.                                                              *)

\* What is published is the very plan the user last confirmed on a card, and no
\* plan reaches the builder that was changed after the card: rules that differ
\* once the project is known lead to a second card.
PublishedAsConfirmed ==
  \A t \in Turns :
    /\ stage[t] \in {"signing", "building", "publishing"} => draft[t] = agreed[t]
    /\ published[t] # NoPlan => published[t] = agreed[t]

\* Once cancel has told the user that nothing will be built or published, nothing
\* is, even if the card was answered just before and the job went on from it.
NoPackageAfterPromise ==
  \A t \in Turns : promised[t] => published[t] = NoPlan

=============================================================================
