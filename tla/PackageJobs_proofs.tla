-------------------------- MODULE PackageJobs_proofs --------------------------
(***************************************************************************)
(* Proofs about WorkspaceJobs and PackageJobs for every set of turns,       *)
(* services, sessions and plans.                                            *)
(***************************************************************************)
EXTENDS PackageJobs, TLAPS

-----------------------------------------------------------------------------
(* The inductive invariant.                                                 *)

\* A turn's job begins with the turn's Install, and its task with the turn's Launch.
TurnInv ==
  \A t \in Turns :
    /\ turn[t] \in {"unused", "begun", "preparing", "refused"} => job[t] = "none" /\ shadow[t] = "none"
    /\ turn[t] = "registering" => job[t] = "waiting"
    /\ turn[t] \in {"watching", "ended"} => watch[t] \in Turns
    /\ turn[t] = "ended" => ~unsent[t] /\ Done(watch[t])

\* A job that is done has its last event, and one that is over has its row settled.
EndInv ==
  \A t \in Turns :
    /\ Done(t) => tail[t] = "final"
    /\ job[t] = "over" => row[t] \in {"none", result[t]} \/ t \in dbLost
    /\ job[t] \in {"persisting", "closing", "over"} => result[t] \in Results

\* Packaging goes on in a running job only, and the plan on an accepted card is the one
\* that was agreed upon.
PlanInv ==
  \A t \in Turns :
    /\ stage[t] # "none" => job[t] = "running" /\ Packages(t)
    /\ stage[t] \in {"none", "building", "publishing"} => round[t] = 0
    /\ stage[t] = "checking" => round[t] = 1
    /\ card[t] # "none" => stage[t] = "asking"
    /\ card[t] = "answered" => answer[t] \in Answers
    /\ (card[t] = "answered" \/ stage[t] = "checking") /\ answer[t] = "accept" => draft[t] = agreed[t]
    /\ published[t] # NoPlan => job[t] \in {"persisting", "closing", "over"}

\* A promise is a cancel that came while a card was shown.
PromiseInv ==
  \A t \in Turns : promised[t] => cancel[t] /\ stage[t] # "publishing"

WorkInv == TurnInv /\ EndInv /\ ShadowsExclusive

PackInv == PlanInv /\ PromiseInv /\ PublishedAsConfirmed /\ NoPackageAfterPromise

IInv == TypeOK /\ WorkInv /\ PackInv

-----------------------------------------------------------------------------
(* The jobs.                                                                *)

\* Packaging is where it was, for jobs that do not stop running.
LEMMA PackInvStays ==
  ASSUME PackInv, UNCHANGED packVars, svc' = svc,
         \A t \in Turns : job[t] = "running" /\ stage[t] # "none" => job'[t] = "running",
         \A t \in Turns : job[t] \in {"persisting", "closing", "over"}
                            => job'[t] \in {"persisting", "closing", "over"},
         \A t \in Turns : cancel[t] => cancel'[t]
  PROVE  PackInv'
  BY DEF PackInv, PlanInv, PromiseInv, PublishedAsConfirmed, NoPackageAfterPromise, packVars, Packages

LEMMA PackTypesStay == ASSUME TypeOK, UNCHANGED packVars PROVE PackTypeOK'
  BY DEF TypeOK, PackTypeOK, packVars

\* A step of a stream request.
LEMMA ServeKeeps ==
  ASSUME IInv, NEW t \in Turns, Serve(t), UNCHANGED packVars PROVE IInv'
<1> USE DEF IInv, TypeOK, WorkTypeOK, TurnPhases, JobPhases
<1> USE JobAssumption
<1>1. ASSUME UNCHANGED <<job, cancel, svc>> PROVE PackInv'
  BY <1>1, PackInvStays
<1>2. PackTypeOK'
  BY PackTypesStay
<1>3. ASSUME turn[t] = "begun", Current(t) # NoJob, Subscribe(t, Current(t)),
             UNCHANGED <<svc, sess, jobVars, runVars>>
      PROVE  IInv'
  <2>1. Current(t) \in Turns
    BY <1>3 DEF Current
  <2>2. WorkTypeOK'
    BY <1>3, <2>1 DEF Subscribe, jobVars, runVars
  <2>3. WorkInv'
    BY <1>3, <2>1 DEF WorkInv, TurnInv, EndInv, ShadowsExclusive, Done, Subscribe, jobVars, runVars
  <2> QED
    BY <1>1, <1>2, <1>3, <2>2, <2>3 DEF jobVars
<1>4. CASE Attach(t) \/ Replay(t)
  BY <1>3, <1>4 DEF Attach, Replay
<1>5. CASE Prepare(t)
  BY <1>1, <1>2, <1>5 DEF Prepare, WorkInv, TurnInv, EndInv, ShadowsExclusive, Done, jobVars, runVars
<1>6. CASE Install(t)
  <2>1. WorkTypeOK'
    <3>1. table' \in [Services -> [Sessions -> Turns \cup {NoJob}]]
      BY <1>6 DEF Install, Enter
    <3>2. pointer' \in [Sessions -> Turns \cup {NoJob}] /\ shadow' \in [Turns -> {"none", "refused", "running", "terminal"}]
      <4>1. Shadow(t)
        BY <1>6 DEF Install, Enter
      <4>2. CASE pointer[sess[t]] = NoJob
        <5>1. pointer' = [pointer EXCEPT ![sess[t]] = t] /\ shadow' = [shadow EXCEPT ![t] = "running"]
          BY <4>1, <4>2 DEF Shadow
        <5>2. pointer' \in [Sessions -> Turns \cup {NoJob}]
          BY <5>1
        <5> QED
          BY <5>1, <5>2
      <4>3. CASE pointer[sess[t]] # NoJob
        BY <4>1, <4>3 DEF Shadow
      <4> QED
        BY <4>2, <4>3
    <3> QED
      BY <1>6, <3>1, <3>2 DEF Install, Enter
  <2>2. TurnInv' /\ EndInv'
    BY <1>6 DEF WorkInv, TurnInv, EndInv, Done, Install, Enter, Shadow
  <2>3. ShadowsExclusive'
    <3>1. /\ job' = [job EXCEPT ![t] = "waiting"] /\ sess' = sess /\ shadow[t] = "none"
      BY <1>6 DEF Install, Enter, WorkInv, TurnInv
    <3>2. CASE pointer[sess[t]] = NoJob
      <4>1. /\ pointer' = [pointer EXCEPT ![sess[t]] = t] /\ shadow' = [shadow EXCEPT ![t] = "running"]
        BY <1>6, <3>2 DEF Install, Enter, Shadow
      <4>2. \A u \in Turns \ {t} : shadow[u] = "running" => pointer[sess[u]] = u /\ sess[u] # sess[t]
        BY <3>2 DEF WorkInv, ShadowsExclusive
      <4> QED
        BY <3>1, <4>1, <4>2 DEF WorkInv, ShadowsExclusive, Done
    <3>3. CASE pointer[sess[t]] # NoJob
      <4>1. shadow' = [shadow EXCEPT ![t] = "refused"] /\ pointer' = pointer
        BY <1>6, <3>3 DEF Install, Enter, Shadow
      <4> QED
        BY <3>1, <4>1 DEF WorkInv, ShadowsExclusive, Done
    <3> QED
      BY <3>2, <3>3
  <2>4. job[t] = "none" /\ cancel' = cancel /\ svc' = svc /\ \A u \in Turns \ {t} : job'[u] = job[u]
    BY <1>6 DEF WorkInv, TurnInv, Install, Enter
  <2>5. PackInv'
    BY <2>4, PackInvStays
  <2> QED
    BY <1>2, <2>1, <2>2, <2>3, <2>5 DEF WorkInv
<1>7. CASE Launch(t)
  <2>1. job[t] = "waiting" /\ job' = [job EXCEPT ![t] = "running"]
    BY <1>7 DEF WorkInv, TurnInv, Launch
  <2>2. WorkTypeOK'
    BY <1>7, <2>1 DEF Launch, Subscribe
  <2>3. WorkInv'
    BY <1>7, <2>1 DEF WorkInv, TurnInv, EndInv, ShadowsExclusive, Done, Launch, Subscribe
  <2>4. PackInv'
    BY <1>7, <2>1, PackInvStays DEF Launch
  <2> QED
    BY <1>2, <2>2, <2>3, <2>4
<1>8. CASE Send(t)
  BY <1>1, <1>2, <1>8 DEF Send, WorkInv, TurnInv, EndInv, ShadowsExclusive, Done, jobVars, runVars
<1>9. CASE Leave(t)
  BY <1>1, <1>2, <1>9 DEF Leave, WorkInv, TurnInv, EndInv, ShadowsExclusive, Done, jobVars, runVars
<1> QED
  BY <1>4, <1>5, <1>6, <1>7, <1>8, <1>9 DEF Serve

\* Events are appended to jobs that are not done: nobody who has ended misses one.
LEMMA AppendKeeps ==
  ASSUME TypeOK, TurnInv, NEW js \in SUBSET Turns, \A j \in js : ~Done(j), Append(js, "open"),
         UNCHANGED <<turn, watch>>
  PROVE  /\ tail' \in [Turns -> {"none", "open", "final"}] /\ unsent' \in [Turns -> BOOLEAN]
         /\ \A t \in Turns : Done(t) => tail'[t] = tail[t]
         /\ \A t \in Turns : turn[t] = "ended" => ~unsent'[t]
<1> USE DEF TypeOK, WorkTypeOK
<1>1. tail' \in [Turns -> {"none", "open", "final"}]
  BY DEF Append
<1>2. unsent' \in [Turns -> BOOLEAN]
  BY DEF Append
<1>3. \A t \in Turns : Done(t) => tail'[t] = tail[t]
  BY DEF Append
<1>4. \A t \in Turns : turn[t] = "ended" => ~unsent'[t]
  BY DEF Append, TurnInv
<1> QED
  BY <1>1, <1>2, <1>3, <1>4

\* A running job appends an event and goes on, or goes over to the saving of its answer.
LEMMA RunningKeeps ==
  ASSUME IInv, NEW t \in Turns, job[t] = "running", NEW next \in {"running", "persisting"},
         job' = [job EXCEPT ![t] = next],
         \/ result' = result /\ next = "running"
         \/ \E r \in Results : result' = [result EXCEPT ![t] = r],
         Append({t}, "open") \/ UNCHANGED <<tail, unsent>>,
         UNCHANGED <<turn, svc, sess, watch, table, cancel, runVars>>
  PROVE  WorkTypeOK' /\ WorkInv'
<1> USE DEF IInv, TypeOK, WorkTypeOK, WorkInv, Done, runVars
<1>1. /\ tail' \in [Turns -> {"none", "open", "final"}] /\ unsent' \in [Turns -> BOOLEAN]
      /\ \A u \in Turns : Done(u) => tail'[u] = tail[u]
      /\ \A u \in Turns : turn[u] = "ended" => ~unsent'[u]
  <2>1. CASE Append({t}, "open")
    <3>1. \A j \in {t} : ~Done(j)
      OBVIOUS
    <3> HIDE DEF IInv, TypeOK, WorkTypeOK, WorkInv, Done
    <3> QED
      BY <2>1, <3>1, AppendKeeps DEF IInv, WorkInv
  <2>2. CASE UNCHANGED <<tail, unsent>>
    BY <2>2 DEF TurnInv
  <2> QED
    BY <2>1, <2>2
<1>2. job' \in [Turns -> JobPhases] /\ result' \in [Turns -> Results \cup {"none"}]
  BY DEF JobPhases
<1>3. WorkTypeOK'
  BY <1>1, <1>2
<1>4. TurnInv'
  BY <1>1 DEF TurnInv
<1>5. EndInv' /\ ShadowsExclusive'
  BY <1>1 DEF EndInv, ShadowsExclusive
<1> QED
  BY <1>3, <1>4, <1>5

\* A job ends, maybe cancelling others on the way.
LEMMA EndsKeeps ==
  ASSUME IInv, NEW t \in Turns, job[t] \in {"running", "persisting"}, NEW r \in Results,
         NEW hit \in SUBSET Turns, \A j \in hit : ~Done(j), Ends(t, r, hit)
  PROVE  /\ WorkTypeOK' /\ WorkInv'
         /\ job' = [job EXCEPT ![t] = "closing"] /\ \A u \in Turns : cancel[u] => cancel'[u]
<1> USE DEF IInv, TypeOK, WorkTypeOK, WorkInv
<1>1. /\ job' = [job EXCEPT ![t] = "closing"] /\ result' = [result EXCEPT ![t] = r]
      /\ UNCHANGED <<turn, svc, sess, watch, table, row, dbLost>>
      /\ \A u \in Turns : cancel[u] => cancel'[u]
  BY DEF Ends, Signal
<1>2. /\ tail' \in [Turns -> {"none", "open", "final"}] /\ unsent' \in [Turns -> BOOLEAN]
      /\ cancel' \in [Turns -> BOOLEAN]
  <2>1. tail' \in [Turns -> {"none", "open", "final"}]
    BY DEF Ends
  <2>2. unsent' \in [Turns -> BOOLEAN]
    BY DEF Ends
  <2>3. cancel' \in [Turns -> BOOLEAN]
    BY DEF Ends, Signal
  <2> QED
    BY <2>1, <2>2, <2>3
<1>3. /\ \A u \in Turns : Done(u) => tail'[u] = tail[u]
      /\ tail'[t] = "final"
      /\ \A u \in Turns : turn[u] = "ended" => ~unsent'[u]
  <2>1. ~Done(t)
    BY DEF Done
  <2>2. \A u \in Turns : Done(u) => tail'[u] = tail[u]
    BY <2>1 DEF Ends
  <2>3. \A u \in Turns : turn[u] = "ended" => ~unsent'[u]
    BY <2>1 DEF Ends, TurnInv
  <2> QED
    BY <2>2, <2>3 DEF Ends
<1>4. /\ shadow' \in [Turns -> {"none", "refused", "running", "terminal"}]
      /\ pointer' \in [Sessions -> Turns \cup {NoJob}]
      /\ \A u \in Turns : shadow'[u] = (IF u = t /\ shadow[t] = "running" THEN "terminal" ELSE shadow[u])
      /\ \A s \in Sessions : pointer'[s] = (IF pointer[s] = t THEN NoJob ELSE pointer[s])
  BY DEF Ends, ReleaseShadow
<1>5. WorkTypeOK'
  BY <1>1, <1>2, <1>4 DEF JobPhases
<1>6. TurnInv'
  BY <1>1, <1>3, <1>4 DEF TurnInv, Done
<1>7. EndInv'
  BY <1>1, <1>3 DEF EndInv, Done
<1>8. ShadowsExclusive'
  BY <1>1, <1>4, JobAssumption DEF ShadowsExclusive, Done
<1> QED
  BY <1>1, <1>5, <1>6, <1>7, <1>8

\* A step of a job that does no packaging, and what may also happen.
LEMMA WorkKeeps ==
  ASSUME IInv, NEW t \in Turns, Work(t) \/ Chance(t), UNCHANGED packVars PROVE IInv'
<1>1. PackTypeOK'
  BY PackTypesStay DEF IInv
<1>2. /\ job \in [Turns -> JobPhases] /\ result[t] \in Results \cup {"none"}
      /\ PackInv /\ (stage[t] # "none" => job[t] = "running" /\ Packages(t))
      /\ (job[t] = "persisting" => result[t] \in Results)
  BY DEF IInv, TypeOK, WorkTypeOK, WorkInv, EndInv, PackInv, PlanInv
<1>3. ASSUME NEW r \in Results, Ends(t, r, {}), job[t] = "persisting" \/ (job[t] = "running" /\ ~Packages(t))
      PROVE  IInv'
  <2>1. /\ WorkTypeOK' /\ WorkInv' /\ job' = [job EXCEPT ![t] = "closing"]
        /\ \A u \in Turns : cancel[u] => cancel'[u]
    BY <1>3, EndsKeeps
  <2>2. PackInv'
    BY <1>2, <1>3, <2>1, PackInvStays DEF Ends
  <2> QED
    BY <1>1, <2>1, <2>2 DEF IInv, TypeOK
<1>4. CASE AgentReturns(t)
  <2>1. /\ job[t] = "running" /\ job' = [job EXCEPT ![t] = "persisting"] /\ ~Packages(t)
        /\ \E r \in Results : result' = [result EXCEPT ![t] = r]
        /\ UNCHANGED <<turn, svc, sess, watch, unsent, table, tail, cancel, runVars>>
    BY <1>4 DEF AgentReturns, turnVars
  <2>2. WorkTypeOK' /\ WorkInv'
    BY <2>1, RunningKeeps
  <2>3. PackInv'
    BY <1>2, <2>1, PackInvStays
  <2> QED
    BY <1>1, <2>2, <2>3 DEF IInv, TypeOK
<1>5. CASE Persisted(t)
  BY <1>2, <1>3, <1>5 DEF Persisted
<1>6. CASE AgentFails(t)
  BY <1>3, <1>6 DEF AgentFails, Results
<1>7. CASE Emit(t)
  <2>1. /\ job[t] = "running" /\ job' = [job EXCEPT ![t] = "running"] /\ result' = result /\ job' = job
        /\ Append({t}, "open") /\ UNCHANGED <<turn, svc, sess, watch, table, cancel, runVars>>
    BY <1>2, <1>7 DEF Emit
  <2>2. WorkTypeOK' /\ WorkInv'
    BY <2>1, RunningKeeps
  <2>3. PackInv'
    BY <1>2, <2>1, PackInvStays
  <2> QED
    BY <1>1, <2>2, <2>3 DEF IInv, TypeOK
<1>8. CASE CloseRow(t)
  <2> USE DEF IInv, TypeOK, WorkTypeOK
  <2>1. WorkTypeOK'
    BY <1>8 DEF CloseRow, turnVars, JobPhases
  <2>2. TurnInv' /\ ShadowsExclusive'
    BY <1>8 DEF CloseRow, turnVars, WorkInv, TurnInv, ShadowsExclusive, Done
  <2>3. EndInv'
    BY <1>8 DEF CloseRow, turnVars, WorkInv, EndInv, Done
  <2>4. PackInv'
    BY <1>2, <1>8, PackInvStays DEF CloseRow, turnVars
  <2> QED
    BY <1>1, <2>1, <2>2, <2>3, <2>4 DEF WorkInv
<1>9. ASSUME UNCHANGED <<svc, sess, job, cancel, result, tail, pointer, shadow, dbLost>>,
             WorkTypeOK', TurnInv',
             \A u \in Turns : row'[u] = row[u] \/ job[u] = "waiting"
      PROVE  IInv'
  <2>1. WorkInv'
    BY <1>9 DEF IInv, WorkInv, EndInv, ShadowsExclusive, Done
  <2>2. PackInv'
    BY <1>2, <1>9, PackInvStays
  <2> QED
    BY <1>1, <1>9, <2>1, <2>2 DEF IInv, TypeOK
<1>10. CASE Begin(t)
  <2> USE DEF IInv, TypeOK, WorkTypeOK
  <2>1. table' \in [Services -> [Sessions -> Turns \cup {NoJob}]]
    BY <1>10 DEF Begin
  <2>2. WorkTypeOK'
    BY <1>10, <2>1 DEF Begin, runVars, TurnPhases
  <2>3. TurnInv'
    BY <1>10 DEF Begin, runVars, WorkInv, TurnInv, Done
  <2> QED
    BY <1>9, <1>10, <2>2, <2>3 DEF Begin, runVars
<1>11. CASE Refuse(t) \/ PrepareFails(t)
  <2> USE DEF IInv, TypeOK, WorkTypeOK
  <2>1. WorkTypeOK'
    BY <1>11 DEF Refuse, PrepareFails, jobVars, runVars, TurnPhases
  <2>2. TurnInv'
    BY <1>11 DEF Refuse, PrepareFails, jobVars, runVars, WorkInv, TurnInv, Done
  <2> QED
    BY <1>9, <1>11, <2>1, <2>2 DEF Refuse, PrepareFails, jobVars, runVars
<1>12. CASE Disconnect(t)
  <2> USE DEF IInv, TypeOK, WorkTypeOK
  <2>1. WorkTypeOK'
    BY <1>12 DEF Disconnect, jobVars, TurnPhases
  <2>2. TurnInv'
    BY <1>12 DEF Disconnect, jobVars, WorkInv, TurnInv, Done
  <2>3. \A u \in Turns : row'[u] = row[u] \/ job[u] = "waiting"
    BY <1>12 DEF Disconnect, WorkInv, TurnInv
  <2> QED
    BY <1>9, <1>12, <2>1, <2>2, <2>3 DEF Disconnect, jobVars
<1> QED
  BY <1>4, <1>5, <1>6, <1>7, <1>8, <1>10, <1>11, <1>12 DEF Work, Chance

-----------------------------------------------------------------------------
(* The packaging.                                                           *)

\* A packaging job that ends forgets its card and its plan.
LEMMA AbortKeeps ==
  ASSUME IInv, NEW t \in Turns, job[t] = "running", NEW r \in Results,
         NEW hit \in SUBSET Turns, \A j \in hit : ~Done(j), Abort(t, r, hit)
  PROVE  IInv'
<1>1. /\ WorkTypeOK' /\ WorkInv' /\ job' = [job EXCEPT ![t] = "closing"] /\ svc' = svc
      /\ \A u \in Turns : cancel[u] => cancel'[u]
  BY EndsKeeps DEF Abort, Ends
<1> USE DEF IInv, TypeOK, WorkTypeOK, PackTypeOK
<1>2. PackTypeOK'
  BY DEF Abort, DropLocals, Stages
<1>3. PlanInv'
  BY <1>1 DEF PackInv, PlanInv, Abort, DropLocals, Packages
<1>4. PromiseInv' /\ NoPackageAfterPromise'
  BY <1>1 DEF PackInv, PromiseInv, NoPackageAfterPromise, Abort
<1>5. PublishedAsConfirmed'
  <2>1. published[t] = NoPlan
    BY DEF PackInv, PlanInv
  <2> QED
    BY <2>1 DEF PackInv, PublishedAsConfirmed, Abort
<1> QED
  BY <1>1, <1>2, <1>3, <1>4, <1>5 DEF PackInv

\* A packaging job that goes on with an event or without one.
LEMMA GoesOn ==
  ASSUME IInv, NEW t \in Turns, job[t] = "running",
         \/ Append({t}, "open") /\ UNCHANGED <<turn, svc, sess, watch, table, job, cancel, result, runVars>>
         \/ UNCHANGED workVars
  PROVE  WorkTypeOK' /\ WorkInv' /\ UNCHANGED <<job, svc, cancel>>
<1>1. /\ UNCHANGED <<turn, svc, sess, watch, table, job, cancel, result, runVars>>
      /\ Append({t}, "open") \/ UNCHANGED <<tail, unsent>>
  BY DEF workVars, runVars
<1>2. job' = [job EXCEPT ![t] = "running"] /\ result' = result
  BY <1>1 DEF IInv, TypeOK, WorkTypeOK
<1> QED
  BY <1>1, <1>2, RunningKeeps

\* A card is shown.
LEMMA AskKeeps ==
  ASSUME IInv, NEW t \in Turns, Packing(t, "none") \/ Packing(t, "checking"), NEW p \in Plans, Ask(t, p)
  PROVE  IInv'
<1>1. /\ job[t] = "running" /\ Packages(t) /\ published[t] = NoPlan /\ stage[t] \in {"none", "checking"}
      /\ round[t] \in 0..1
  BY DEF Packing, IInv, PackInv, PlanInv
<1>2. CASE Abort(t, "cancelled", {})
  BY <1>1, <1>2, AbortKeeps DEF Results
<1>3. CASE ~Abort(t, "cancelled", {})
  <2>1. WorkTypeOK' /\ WorkInv' /\ UNCHANGED <<job, svc, cancel>>
    BY <1>1, <1>3, GoesOn DEF Ask
  <2> USE DEF IInv, TypeOK, PackTypeOK
  <2>2. PackTypeOK'
    BY <1>1, <1>3 DEF Ask, Stages
  <2>3. PlanInv'
    BY <1>1, <1>3, <2>1 DEF Ask, PackInv, PlanInv, Packages
  <2>4. PromiseInv' /\ NoPackageAfterPromise' /\ PublishedAsConfirmed'
    BY <1>1, <1>3, <2>1 DEF Ask, PackInv, PromiseInv, NoPackageAfterPromise, PublishedAsConfirmed
  <2> QED
    BY <2>1, <2>2, <2>3, <2>4 DEF PackInv
<1> QED
  BY <1>2, <1>3

LEMMA AnswerKeeps == ASSUME IInv, NEW t \in Turns, Answer(t) PROVE IInv'
<1>1. stage[t] = "asking" /\ job[t] = "running" /\ published[t] = NoPlan /\ UNCHANGED workVars
  BY DEF Answer, IInv, PackInv, PlanInv
<1>2. WorkTypeOK' /\ WorkInv' /\ UNCHANGED <<job, svc, cancel>>
  BY <1>1, GoesOn
<1> USE DEF IInv, TypeOK, PackTypeOK
<1>3. PackTypeOK'
  BY DEF Answer
<1>4. PlanInv'
  BY <1>1, <1>2 DEF Answer, PackInv, PlanInv, Packages
<1>5. PromiseInv' /\ NoPackageAfterPromise' /\ PublishedAsConfirmed'
  BY <1>1, <1>2 DEF Answer, PackInv, PromiseInv, NoPackageAfterPromise, PublishedAsConfirmed
<1> QED
  BY <1>2, <1>3, <1>4, <1>5 DEF PackInv

LEMMA ResumeKeeps == ASSUME IInv, NEW t \in Turns, Resume(t) PROVE IInv'
<1>1. job[t] = "running" /\ Packages(t) /\ published[t] = NoPlan /\ stage[t] = "asking"
  BY DEF Resume, Packing, IInv, PackInv, PlanInv
<1>2. CASE \E r \in {"cancelled", "failed"} : Abort(t, r, {})
  BY <1>1, <1>2, AbortKeeps DEF Results
<1>3. CASE /\ card[t] = "answered" /\ answer[t] # "cancel"
           /\ answer[t] = "other" => round[t] = 1
           /\ stage' = [stage EXCEPT ![t] = IF round[t] = 1 THEN "checking" ELSE "signing"]
           /\ card' = [card EXCEPT ![t] = "none"]
           /\ Append({t}, "open")
           /\ UNCHANGED <<turn, svc, sess, watch, table, job, cancel, result, runVars, round,
                          draft, answer, agreed, promised, published>>
  <2>1. WorkTypeOK' /\ WorkInv' /\ UNCHANGED <<job, svc, cancel>>
    BY <1>1, <1>3, GoesOn
  <2> USE DEF IInv, TypeOK, PackTypeOK
  <2>2. PackTypeOK'
    BY <1>3 DEF Stages
  <2>3. PlanInv'
    BY <1>1, <1>3, <2>1 DEF PackInv, PlanInv, Packages
  <2>4. PublishedAsConfirmed'
    <3>1. round[t] # 1 => answer[t] = "accept"
      BY <1>3 DEF PackInv, PlanInv, Answers
    <3> QED
      BY <1>1, <1>3, <3>1 DEF PackInv, PlanInv, PublishedAsConfirmed
  <2>5. PromiseInv' /\ NoPackageAfterPromise'
    BY <1>1, <1>3, <2>1 DEF PackInv, PromiseInv, NoPackageAfterPromise
  <2> QED
    BY <2>1, <2>2, <2>3, <2>4, <2>5 DEF PackInv
<1> QED
  BY <1>2, <1>3 DEF Resume

\* To the signing, with the plan that was agreed upon.
LEMMA RecheckKeeps == ASSUME IInv, NEW t \in Turns, Recheck(t) PROVE IInv'
<1>1. Packing(t, "checking") /\ job[t] = "running" /\ Packages(t) /\ published[t] = NoPlan
  BY DEF Recheck, Packing, IInv, PackInv, PlanInv
<1>2. ASSUME NEW p \in Plans, Ask(t, p) PROVE IInv'
  BY <1>1, <1>2, AskKeeps
<1>3. CASE answer[t] = "accept" /\ ToSigning(t)
  <2>1. WorkTypeOK' /\ WorkInv' /\ UNCHANGED <<job, svc, cancel>>
    BY <1>1, <1>3, GoesOn DEF ToSigning
  <2> USE DEF IInv, TypeOK, PackTypeOK, ToSigning, Packing
  <2>2. PackTypeOK'
    BY <1>3 DEF Stages
  <2>3. PlanInv'
    BY <1>1, <1>3, <2>1 DEF PackInv, PlanInv, Packages
  <2>4. PublishedAsConfirmed'
    BY <1>1, <1>3 DEF PackInv, PlanInv, PublishedAsConfirmed
  <2>5. PromiseInv' /\ NoPackageAfterPromise'
    BY <1>1, <1>3, <2>1 DEF PackInv, PromiseInv, NoPackageAfterPromise
  <2> QED
    BY <2>1, <2>2, <2>3, <2>4, <2>5 DEF PackInv
<1> QED
  BY <1>2, <1>3 DEF Recheck

\* A job goes past its last look at the cancel only if there was none.
LEMMA SignOrBuildKeeps == ASSUME IInv, NEW t \in Turns, Sign(t) \/ Build(t) PROVE IInv'
<1>1. /\ job[t] = "running" /\ Packages(t) /\ published[t] = NoPlan /\ stage[t] \in {"signing", "building"}
  BY DEF Sign, Build, Packing, IInv, PackInv, PlanInv
<1>2. CASE Abort(t, "cancelled", {})
  BY <1>1, <1>2, AbortKeeps DEF Results
<1>3. CASE ~Abort(t, "cancelled", {})
  <2>1. /\ ~cancel[t] /\ UNCHANGED <<workVars, draft, card, agreed, promised, published>>
        /\ \/ stage[t] = "signing" /\ stage' = [stage EXCEPT ![t] = "building"] /\ DropLocals(t)
           \/ stage[t] = "building" /\ stage' = [stage EXCEPT ![t] = "publishing"] /\ UNCHANGED <<round, answer>>
    BY <1>3 DEF Sign, Build, CancelSeen, Packing
  <2>2. WorkTypeOK' /\ WorkInv' /\ UNCHANGED <<job, svc, cancel>>
    BY <1>1, <2>1, GoesOn
  <2> USE DEF IInv, TypeOK, PackTypeOK, DropLocals
  <2>3. PackTypeOK'
    BY <2>1 DEF Stages
  <2>4. PlanInv'
    BY <1>1, <2>1, <2>2 DEF PackInv, PlanInv, Packages
  <2>5. PublishedAsConfirmed'
    BY <1>1, <2>1 DEF PackInv, PublishedAsConfirmed
  <2>6. PromiseInv' /\ NoPackageAfterPromise'
    BY <1>1, <2>1, <2>2 DEF PackInv, PromiseInv, NoPackageAfterPromise
  <2> QED
    BY <2>2, <2>3, <2>4, <2>5, <2>6 DEF PackInv
<1> QED
  BY <1>2, <1>3

LEMMA PublishKeeps == ASSUME IInv, NEW t \in Turns, Publish(t) PROVE IInv'
<1>1. /\ job[t] = "running" /\ stage[t] = "publishing" /\ ~promised[t] /\ card[t] = "none"
      /\ draft[t] = agreed[t] /\ round[t] = 0
  BY DEF Publish, Packing, IInv, TypeOK, PackTypeOK, PackInv, PlanInv, PromiseInv, PublishedAsConfirmed
<1>2. WorkTypeOK' /\ WorkInv' /\ job' = [job EXCEPT ![t] = "persisting"]
  BY <1>1, RunningKeeps DEF Publish, Results
<1> USE DEF IInv, TypeOK, PackTypeOK, Publish
<1>3. PackTypeOK'
  BY DEF Stages
<1>4. PlanInv'
  <2>1. /\ job'[t] = "persisting" /\ stage'[t] = "none" /\ card'[t] = "none" /\ round'[t] = 0
    BY <1>1, <1>2 DEF WorkTypeOK
  <2>2. \A u \in Turns \ {t} :
          /\ stage'[u] = stage[u] /\ round'[u] = round[u] /\ card'[u] = card[u] /\ answer'[u] = answer[u]
          /\ draft'[u] = draft[u] /\ agreed'[u] = agreed[u] /\ published'[u] = published[u] /\ job'[u] = job[u]
          /\ Packages(u)' = Packages(u)
    BY <1>2 DEF Packages, WorkTypeOK
  <2> HIDE DEF IInv, TypeOK, PackTypeOK, Publish
  <2> QED
    BY <2>1, <2>2 DEF IInv, PackInv, PlanInv
<1>5. PublishedAsConfirmed'
  BY <1>1 DEF PackInv, PublishedAsConfirmed
<1>6. PromiseInv' /\ NoPackageAfterPromise'
  BY <1>1 DEF PackInv, PromiseInv, NoPackageAfterPromise
<1> QED
  BY <1>2, <1>3, <1>4, <1>5, <1>6 DEF PackInv

\* A cancel makes promises about jobs that show a card.
LEMMA PackCancelKeeps ==
  ASSUME IInv, NEW v \in Services, NEW s \in Sessions, PackCancel(v, s) PROVE IInv'
<1> DEFINE js == Signalled(v, s)
<1>1. /\ js \in SUBSET Turns /\ \A j \in js : ~Done(j)
      /\ Signal(js) /\ Append(js, "open")
      /\ UNCHANGED <<turn, svc, sess, watch, table, job, result, runVars>>
  BY DEF PackCancel, Cancel, Signalled
<1>2. /\ card' = [j \in Turns |-> IF j \in js /\ card[j] = "open" THEN "closed" ELSE card[j]]
      /\ promised' = [j \in Turns |-> promised[j] \/ (j \in js /\ stage[j] = "asking")]
      /\ UNCHANGED <<stage, round, draft, answer, agreed, published>>
  BY DEF PackCancel
<1> HIDE DEF js
<1>3. /\ tail' \in [Turns -> {"none", "open", "final"}] /\ unsent' \in [Turns -> BOOLEAN]
      /\ \A t \in Turns : Done(t) => tail'[t] = tail[t]
      /\ \A t \in Turns : turn[t] = "ended" => ~unsent'[t]
  BY <1>1, AppendKeeps DEF IInv, WorkInv
<1>4. /\ cancel' \in [Turns -> BOOLEAN]
      /\ \A t \in Turns : (cancel[t] \/ t \in js) => cancel'[t]
  BY <1>1 DEF Signal, IInv, TypeOK, WorkTypeOK
<1> USE DEF IInv, TypeOK, WorkTypeOK, PackTypeOK, runVars
<1>5. WorkTypeOK'
  BY <1>1, <1>3, <1>4
<1>6. WorkInv'
  BY <1>1, <1>3 DEF WorkInv, TurnInv, EndInv, ShadowsExclusive, Done
<1>7. promised' \in [Turns -> BOOLEAN]
  BY <1>2
<1>8. PackTypeOK'
  BY <1>2, <1>7
<1>9. PlanInv'
  BY <1>1, <1>2 DEF PackInv, PlanInv, Packages
<1>10. PromiseInv' /\ NoPackageAfterPromise' /\ PublishedAsConfirmed'
  BY <1>2, <1>4 DEF PackInv, PlanInv, PromiseInv, NoPackageAfterPromise, PublishedAsConfirmed
<1> QED
  BY <1>5, <1>6, <1>8, <1>9, <1>10 DEF PackInv

-----------------------------------------------------------------------------
(* The theorems.                                                            *)

LEMMA InitIInv == Init => IInv
<1> SUFFICES ASSUME Init PROVE IInv
  OBVIOUS
<1> USE DEF Init, WorkInit
<1>1. WorkTypeOK
  BY DEF WorkTypeOK, TurnPhases, JobPhases
<1>2. PackTypeOK
  BY DEF PackTypeOK, Stages
<1>3. WorkInv
  BY JobAssumption DEF WorkInv, TurnInv, EndInv, ShadowsExclusive, Done
<1>4. PackInv
  BY DEF PackInv, PlanInv, PromiseInv, PublishedAsConfirmed, NoPackageAfterPromise
<1> QED
  BY <1>1, <1>2, <1>3, <1>4 DEF IInv, TypeOK

LEMMA NextIInv == ASSUME IInv, [Next]_vars PROVE IInv'
<1>1. ASSUME NEW t \in Turns, Serve(t) \/ Work(t) \/ Chance(t), UNCHANGED packVars PROVE IInv'
  BY <1>1, ServeKeeps, WorkKeeps
<1>2. ASSUME NEW t \in Turns, Pack(t) PROVE IInv'
  <2>1. CASE Classify(t)
    BY <2>1, AskKeeps DEF Classify
  <2>2. CASE CardTimesOut(t)
    <3>1. Signalled(svc[t], sess[t]) \in SUBSET Turns /\ \A j \in Signalled(svc[t], sess[t]) : ~Done(j)
      BY DEF Signalled
    <3> QED
      BY <2>2, <3>1, AbortKeeps DEF CardTimesOut, Packing, Results
  <2>3. CASE Resume(t)
    BY <2>3, ResumeKeeps
  <2>4. CASE Recheck(t)
    BY <2>4, RecheckKeeps
  <2>5. CASE Sign(t) \/ Build(t)
    BY <2>5, SignOrBuildKeeps
  <2>6. CASE Publish(t)
    BY <2>6, PublishKeeps
  <2> QED
    BY <1>2, <2>1, <2>2, <2>3, <2>4, <2>5, <2>6 DEF Pack
<1>3. ASSUME NEW t \in Turns, Answer(t) PROVE IInv'
  BY <1>3, AnswerKeeps
<1>4. ASSUME NEW t \in Turns, PackFails(t) PROVE IInv'
  BY <1>4, AbortKeeps DEF PackFails, Packing, Results
<1>5. ASSUME NEW v \in Services, NEW s \in Sessions, PackCancel(v, s) PROVE IInv'
  BY <1>5, PackCancelKeeps
<1>6. CASE UNCHANGED vars
  BY <1>6 DEF vars, IInv, TypeOK, WorkTypeOK, PackTypeOK, WorkInv, TurnInv, EndInv, ShadowsExclusive, Done,
     PackInv, PlanInv, PromiseInv, PublishedAsConfirmed, NoPackageAfterPromise, Packages
<1> QED
  BY <1>1, <1>2, <1>3, <1>4, <1>5, <1>6 DEF Next

THEOREM Invariance == Spec => []IInv
<1>1. Init => IInv
  BY InitIInv
<1>2. IInv /\ [Next]_vars => IInv'
  BY NextIInv
<1> QED
  BY <1>1, <1>2, PTL DEF Spec

\* Every variable of the jobs and of their packaging stays in its range.
THEOREM TypeCorrect == Spec => []TypeOK
<1>1. IInv => TypeOK
  BY DEF IInv
<1> QED
  BY <1>1, Invariance, PTL

\* Whoever is sent home was sent the job's last event, and none comes after it, however
\* many requests watch a job and whenever it is cancelled (_subscribe, cancel).
THEOREM LastEventSent == Spec => []WatchersSeeTheEnd
<1>1. IInv => WatchersSeeTheEnd
  BY DEF IInv, WorkInv, TurnInv, EndInv, WatchersSeeTheEnd
<1> QED
  BY <1>1, Invariance, PTL

\* A job that is over left neither a running shadow nor, unless that write failed, a row
\* without its outcome (_finalize_chat_run).
THEOREM MirrorsFollow == Spec => []MirrorsSettle
<1>1. IInv => MirrorsSettle
  BY DEF IInv, WorkInv, EndInv, ShadowsExclusive, Done, MirrorsSettle
<1> QED
  BY <1>1, Invariance, PTL

\* Whatever jobs replace each other in the tables, a session's running shadow is the one
\* its pointer names (register_external_job, mark_external_terminal).
THEOREM OneShadow == Spec => []ShadowsExclusive
<1>1. IInv => ShadowsExclusive
  BY DEF IInv, WorkInv
<1> QED
  BY <1>1, Invariance, PTL

\* The plan that is built and published is the one the user confirmed last.
THEOREM PublishesWhatWasAgreed == Spec => []PublishedAsConfirmed
<1>1. IInv => PublishedAsConfirmed
  BY DEF IInv, PackInv
<1> QED
  BY <1>1, Invariance, PTL

\* Nothing is published against the word of a cancel, whatever was answered just before.
THEOREM PromiseIsKept == Spec => []NoPackageAfterPromise
<1>1. IInv => NoPackageAfterPromise
  BY DEF IInv, PackInv
<1> QED
  BY <1>1, Invariance, PTL

-----------------------------------------------------------------------------
(* Jobs without a task.                                                     *)

\* A job without a task, and what it holds of the registry.
Stranded(t) == job[t] = "waiting" /\ turn[t] = "disconnected"
StaysStranded(t) ==
  Stranded(t) =>
    /\ Stranded(t)'
    /\ shadow[t] = "running" => pointer'[sess'[t]] = t /\ shadow'[t] = "running"

\* The end of a job takes nothing from another one.
LEMMA EndsStrandsNone ==
  ASSUME IInv, OnlyADisconnectStrands, NEW u \in Turns, NEW r, NEW hit,
         job[u] \in {"running", "persisting"}, Ends(u, r, hit)
  PROVE  OnlyADisconnectStrands' /\ \A t \in Turns : StaysStranded(t)
<1>1. /\ job' = [job EXCEPT ![u] = "closing"] /\ turn' = turn /\ sess' = sess
      /\ shadow' = [shadow EXCEPT ![u] = IF shadow[u] = "running" THEN "terminal" ELSE shadow[u]]
      /\ pointer' = [s \in Sessions |-> IF pointer[s] = u THEN NoJob ELSE pointer[s]]
  BY DEF Ends, ReleaseShadow
<1>2. /\ job \in [Turns -> JobPhases] /\ sess \in [Turns -> Sessions]
      /\ shadow \in [Turns -> {"none", "refused", "running", "terminal"}]
  BY DEF IInv, TypeOK, WorkTypeOK
<1>3. OnlyADisconnectStrands'
  BY <1>1, <1>2 DEF OnlyADisconnectStrands
<1>4. ASSUME NEW t \in Turns PROVE StaysStranded(t)
  <2>1. shadow[t] = "running" => pointer[sess[t]] = t
    BY DEF IInv, WorkInv, ShadowsExclusive
  <2> QED
    BY <1>1, <1>2, <2>1 DEF StaysStranded, Stranded
<1> QED
  BY <1>3, <1>4

\* Neither does a step that moves only a job whose task exists.
LEMMA OthersStrandNone ==
  ASSUME IInv, OnlyADisconnectStrands, UNCHANGED <<turn, sess, shadow, pointer>>,
         \/ job' = job
         \/ \E u \in Turns, p \in {"persisting", "over"} :
              job[u] # "waiting" /\ job' = [job EXCEPT ![u] = p]
  PROVE  OnlyADisconnectStrands' /\ \A t \in Turns : StaysStranded(t)
<1>1. job \in [Turns -> JobPhases]
  BY DEF IInv, TypeOK, WorkTypeOK
<1>2. \A t \in Turns : shadow[t] = "running" => pointer[sess[t]] = t
  BY DEF IInv, WorkInv, ShadowsExclusive
<1> QED
  BY <1>1, <1>2 DEF OnlyADisconnectStrands, StaysStranded, Stranded

\* A request strands its own job only, and no longer than it is there.
LEMMA ServeStrandsNone ==
  ASSUME IInv, OnlyADisconnectStrands, NEW u \in Turns, Serve(u) \/ Chance(u)
  PROVE  OnlyADisconnectStrands' /\ \A t \in Turns : StaysStranded(t)
<1> DEFINE Goal == OnlyADisconnectStrands' /\ \A t \in Turns : StaysStranded(t)
<1>1. /\ turn \in [Turns -> TurnPhases] /\ job \in [Turns -> JobPhases]
      /\ pointer \in [Sessions -> Turns \cup {NoJob}] /\ sess \in [Turns -> Sessions]
      /\ shadow \in [Turns -> {"none", "refused", "running", "terminal"}]
  BY DEF IInv, TypeOK, WorkTypeOK
<1>2. \A t \in Turns : /\ shadow[t] = "running" => pointer[sess[t]] = t
                       /\ turn[t] \in {"unused", "begun", "preparing"} => job[t] = "none"
  BY DEF IInv, WorkInv, ShadowsExclusive, TurnInv
<1>3. ASSUME UNCHANGED <<sess, job, shadow, pointer>>,
             \E p \in TurnPhases \ {"registering"} : turn' = [turn EXCEPT ![u] = p],
             turn[u] \in {"unused", "begun", "preparing", "watching"}
      PROVE  Goal
  BY <1>1, <1>2, <1>3 DEF OnlyADisconnectStrands, StaysStranded, Stranded
<1>4. CASE Begin(u)
  BY <1>3, <1>4 DEF Begin, runVars, TurnPhases
<1>5. CASE Attach(u) \/ Replay(u)
  BY <1>3, <1>5 DEF Attach, Replay, Subscribe, jobVars, runVars, TurnPhases
<1>6. CASE Refuse(u) \/ Prepare(u) \/ PrepareFails(u)
  BY <1>3, <1>6 DEF Refuse, Prepare, PrepareFails, jobVars, runVars, TurnPhases
<1>7. CASE Send(u)
  BY <1>7, OthersStrandNone DEF Send, jobVars, runVars
<1>8. CASE Leave(u)
  BY <1>3, <1>8 DEF Leave, jobVars, runVars, TurnPhases
<1>9. CASE Install(u)
  <2>1. /\ turn[u] = "preparing" /\ turn' = [turn EXCEPT ![u] = "registering"]
        /\ job' = [job EXCEPT ![u] = "waiting"] /\ sess' = sess
        /\ \/ /\ pointer[sess[u]] = NoJob
              /\ pointer' = [pointer EXCEPT ![sess[u]] = u]
              /\ shadow' = [shadow EXCEPT ![u] = "running"]
           \/ pointer' = pointer /\ shadow' = [shadow EXCEPT ![u] = "refused"]
    BY <1>9 DEF Install, Enter, Shadow
  <2>2. OnlyADisconnectStrands'
    BY <1>1, <2>1 DEF OnlyADisconnectStrands
  <2>3. \A t \in Turns : StaysStranded(t)
    BY <1>1, <1>2, <2>1, JobAssumption DEF StaysStranded, Stranded
  <2> QED
    BY <2>2, <2>3
<1>10. CASE Launch(u)
  <2>1. /\ turn[u] = "registering" /\ turn' = [turn EXCEPT ![u] = "watching"] /\ sess' = sess
        /\ job' = [job EXCEPT ![u] = IF job[u] = "waiting" THEN "running" ELSE job[u]]
        /\ pointer' = pointer /\ shadow' = shadow
    BY <1>10 DEF Launch, Subscribe
  <2> QED
    BY <1>1, <1>2, <2>1 DEF OnlyADisconnectStrands, StaysStranded, Stranded
<1>11. CASE Disconnect(u)
  <2>1. turn' = [turn EXCEPT ![u] = "disconnected"] /\ UNCHANGED <<sess, job, shadow, pointer>>
    BY <1>11 DEF Disconnect, jobVars
  <2> QED
    BY <1>1, <1>2, <2>1 DEF OnlyADisconnectStrands, StaysStranded, Stranded
<1>12. CASE Emit(u)
  BY <1>12, OthersStrandNone DEF Emit, runVars
<1>13. CASE AgentFails(u)
  BY <1>13, EndsStrandsNone DEF AgentFails
<1> QED
  BY <1>4, <1>5, <1>6, <1>7, <1>8, <1>9, <1>10, <1>11, <1>12, <1>13 DEF Serve, Chance

LEMMA StepStrandsNone ==
  ASSUME IInv, OnlyADisconnectStrands, [Next]_vars
  PROVE  OnlyADisconnectStrands' /\ \A t \in Turns : StaysStranded(t)
<1> DEFINE Goal == OnlyADisconnectStrands' /\ \A t \in Turns : StaysStranded(t)
<1>1. ASSUME UNCHANGED workVars PROVE Goal
  BY <1>1, OthersStrandNone DEF workVars
<1>2. ASSUME NEW u \in Turns, Work(u) PROVE Goal
  <2>1. CASE AgentReturns(u)
    BY <2>1, OthersStrandNone DEF AgentReturns, turnVars, runVars
  <2>2. CASE Persisted(u)
    BY <2>2, EndsStrandsNone DEF Persisted
  <2>3. CASE CloseRow(u)
    BY <2>3, OthersStrandNone DEF CloseRow, turnVars
  <2> QED
    BY <1>2, <2>1, <2>2, <2>3 DEF Work
<1>3. ASSUME NEW u \in Turns, NEW r, NEW hit, job[u] = "running", Abort(u, r, hit) PROVE Goal
  BY <1>3, EndsStrandsNone DEF Abort
<1>4. ASSUME UNCHANGED <<turn, sess, job, runVars>> PROVE Goal
  BY <1>4, OthersStrandNone DEF runVars
<1>5. ASSUME NEW u \in Turns, NEW p, job[u] = "running", Ask(u, p) PROVE Goal
  BY <1>3, <1>4, <1>5 DEF Ask
<1>6. ASSUME NEW u \in Turns, Pack(u) PROVE Goal
  <2>1. CASE Classify(u)
    BY <1>5, <2>1 DEF Classify, Packing
  <2>2. CASE CardTimesOut(u)
    BY <1>3, <2>2 DEF CardTimesOut, Packing
  <2>3. CASE Resume(u)
    BY <1>3, <1>4, <2>3 DEF Resume, Packing
  <2>4. CASE Recheck(u)
    BY <1>1, <1>5, <2>4 DEF Recheck, ToSigning, Packing
  <2>5. CASE Sign(u) \/ Build(u)
    BY <1>1, <1>3, <2>5 DEF Sign, Build, Packing
  <2>6. CASE Publish(u)
    BY <2>6, OthersStrandNone DEF Publish, Packing, runVars
  <2> QED
    BY <1>6, <2>1, <2>2, <2>3, <2>4, <2>5, <2>6 DEF Pack
<1>7. ASSUME NEW u \in Turns, Answer(u) PROVE Goal
  BY <1>1, <1>7 DEF Answer
<1>8. ASSUME NEW u \in Turns, PackFails(u) PROVE Goal
  BY <1>3, <1>8 DEF PackFails, Packing
<1>9. ASSUME NEW v \in Services, NEW s \in Sessions, PackCancel(v, s) PROVE Goal
  BY <1>4, <1>9 DEF PackCancel, Cancel
<1>10. CASE UNCHANGED vars
  BY <1>1, <1>10 DEF vars, workVars
<1> QED
  BY <1>2, <1>6, <1>7, <1>8, <1>9, <1>10, ServeStrandsNone DEF Next

\* A job is left without a task by a client that goes away while its row is inserted, and by
\* nothing else (start of a job in the chat services' stream()).
THEOREM StrandedByItsClient == Spec => []OnlyADisconnectStrands
<1>1. Init => OnlyADisconnectStrands
  BY DEF Init, WorkInit, OnlyADisconnectStrands
<1> QED
  BY <1>1, StepStrandsNone, Invariance, PTL DEF Spec

\* Nothing ends such a job, nor frees the session that its shadow holds in the registry.
THEOREM StrandedStays == Spec => StrandedForGood
<1>1. ASSUME IInv, OnlyADisconnectStrands, [Next]_vars
      PROVE  [\A t \in Turns : job[t] = "waiting" /\ turn[t] = "disconnected" =>
                /\ job'[t] = "waiting" /\ turn'[t] = "disconnected"
                /\ shadow[t] = "running" => pointer'[sess'[t]] = t /\ shadow'[t] = "running"]_workVars
  BY <1>1, StepStrandsNone DEF StaysStranded, Stranded
<1> QED
  BY <1>1, Invariance, StrandedByItsClient, PTL DEF Spec, StrandedForGood

=============================================================================
