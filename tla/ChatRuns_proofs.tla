--------------------------- MODULE ChatRuns_proofs ---------------------------
(***************************************************************************)
(* Proofs about ChatRuns for every set of runs and keys.                    *)
(***************************************************************************)
EXTENDS ChatRuns, TLAPS

-----------------------------------------------------------------------------
(* The inductive invariant, a part per piece of state that must agree.      *)

\* Where a run's driver is fixes what its status may be.
PhaseInv ==
  \A r \in Runs :
    /\ phase[r] \in {"unused", "starting", "unlisted"} => status[r] = "none" /\ ~cancelEvent[r]
    /\ phase[r] \in {"streaming", "unwinding", "external", "returned"} <=> status[r] = "running"
    /\ phase[r] \in {"persisting", "writing", "finished"} => status[r] \in Terminal
    /\ phase[r] # "unused" => key[r] \in Keys
    /\ phase[r] = "starting" => key[r] \notin AnonKeys
    /\ phase[r] \in {"starting", "streaming", "unwinding", "persisting", "writing"}
         => kind[r] \in TaskKinds
    /\ phase[r] \in {"external", "returned", "unlisted"} => kind[r] = "external"
    /\ phase[r] = "unused" => kind[r] = "none"

\* A cancel reaches the loop before the run can settle in any other way.
CancelInv ==
  /\ CancelWins
  /\ \A r \in Runs : phase[r] = "unwinding" => cancelEvent[r]

\* What is registered, and what may be evicted from there.
JobInv ==
  /\ \A r \in Runs : status[r] = "running" => r \in jobs
  /\ \A r \in jobs : phase[r] \notin {"unused", "starting", "unlisted", "lost"}
  /\ \A r \in expired : r \in jobs /\ status[r] \in Terminal

PointerInv ==
  \A k \in Keys : active[k] # NoRun =>
    active[k] \in jobs /\ key[active[k]] = k /\ phase[active[k]] \notin {"finished", "lost"}

BrokerInv ==
  \A r \in brokers :
    /\ kind[r] # "general"
    /\ kind[r] = "device" => status[r] = "running"
    /\ r \in jobs \/ Unlisted(r)

\* An open transaction holds a row nobody else has written, and a final row has
\* no writer left.
RowInv ==
  \A r \in Runs :
    /\ r \in tx => row[r] = "none" /\ phase[r] \notin {"unused", "starting", "lost"}
    /\ phase[r] \in {"unused", "starting"} => row[r] = "none"
    /\ phase[r] = "writing" <=> write[r] # "none"
    /\ write[r] = "update" => row[r] # "none"
    /\ row[r] \in Terminal => phase[r] = "finished"

IInv ==
  /\ TypeOK /\ PhaseInv /\ CancelInv /\ JobInv /\ PointerInv
  /\ BrokerInv /\ RowInv /\ AnonymousExclusive
-----------------------------------------------------------------------------
\* A step of the specification is one of these.
LEMMA NextCases ==
  ASSUME [Next]_vars
  PROVE  \/ \E r \in Runs, k \in Keys, ak \in TaskKinds : StartDirect(r, k, ak)
         \/ \E r \in Runs, k \in Keys, ak \in TaskKinds : StartCheck(r, k, ak)
         \/ \E r \in Runs, k \in Keys : RegisterExternal(r, k)
         \/ \E r \in Runs, k \in Keys : RegisterRefused(r, k)
         \/ \E k \in Keys : StartRejected(k)
         \/ \E r \in Runs : StartRegister(r)
         \/ \E r \in Runs : RequestCommit(r)
         \/ \E r \in Runs : RegisterBroker(r)
         \/ \E r \in Runs : UnregisterBroker(r)
         \/ \E r \in Runs : AgentReturns(r)
         \/ \E r \in Runs : StreamEnds(r)
         \/ \E r \in Runs : CancelDelivered(r)
         \/ \E r \in Runs : StreamUnwound(r)
         \/ \E r \in Runs : PersistRead(r)
         \/ \E r \in Runs : PersistWrite(r)
         \/ \E r \in Runs : PersistFails(r)
         \/ \E r \in Runs : MarkExternalTerminal(r)
         \/ \E r \in Runs : Cancel(r)
         \/ \E r \in Runs : RetentionPasses(r)
         \/ Crash
         \/ Restart
         \/ UNCHANGED vars
  BY DEF Next, Request, Progress

\* The invariant is kept by every step: one case per action.
LEMMA InductiveStep == ASSUME IInv, [Next]_vars PROVE IInv'
<1> USE RunAssumption, KeyAssumption, KindAssumption, CrashAssumption
<1> USE DEF IInv, TypeOK, Phases, Terminal, Outcomes, PhaseInv, CancelInv, CancelWins,
            JobInv, PointerInv, BrokerInv, Unlisted, RowInv, AnonymousExclusive
<1>1. ASSUME NEW r \in Runs, NEW k \in Keys, NEW ak \in TaskKinds, StartDirect(r, k, ak) PROVE IInv'
  BY <1>1 DEF StartDirect, HasConflict, ActiveRun, Register, Evict, KeptJobs, KeptActive, dbVars, serverVars
<1>2. ASSUME NEW r \in Runs, NEW k \in Keys, NEW ak \in TaskKinds, StartCheck(r, k, ak) PROVE IInv'
  BY <1>2 DEF StartCheck, Evict, KeptJobs, KeptActive, dbVars, serverVars
<1>3. ASSUME NEW r \in Runs, NEW k \in Keys, RegisterExternal(r, k) PROVE IInv'
  BY <1>3 DEF RegisterExternal, HasConflict, ActiveRun, Register, Evict, KeptJobs, KeptActive, dbVars, serverVars
<1>4. ASSUME NEW k \in Keys, StartRejected(k) PROVE IInv'
  BY <1>4 DEF StartRejected, Evict, KeptJobs, KeptActive, runVars, dbVars, serverVars
<1>5. ASSUME NEW r \in Runs, StartRegister(r) PROVE IInv'
  BY <1>5 DEF StartRegister, Register, serverVars
<1>6. ASSUME NEW r \in Runs, RequestCommit(r) PROVE IInv'
  BY <1>6 DEF RequestCommit, runVars, registryVars, serverVars
<1>7. ASSUME NEW r \in Runs, RegisterBroker(r) PROVE IInv'
  BY <1>7 DEF RegisterBroker, runVars, dbVars, serverVars
<1>8. ASSUME NEW r \in Runs, StreamEnds(r) PROVE IInv'
  BY <1>8 DEF StreamEnds, Settle, dbVars, serverVars
<1>9. ASSUME NEW r \in Runs, CancelDelivered(r) PROVE IInv'
  BY <1>9 DEF CancelDelivered, registryVars, dbVars, serverVars
<1>10. ASSUME NEW r \in Runs, StreamUnwound(r) PROVE IInv'
  BY <1>10 DEF StreamUnwound, Settle, dbVars, serverVars
<1>11. ASSUME NEW r \in Runs, PersistRead(r) PROVE IInv'
  BY <1>11 DEF PersistRead, registryVars, serverVars
<1>12. ASSUME NEW r \in Runs, PersistWrite(r) PROVE IInv'
  BY <1>12 DEF PersistWrite, Finish, ClearPointer, serverVars
<1>13. ASSUME NEW r \in Runs, PersistFails(r) PROVE IInv'
  BY <1>13 DEF PersistFails, Finish, ClearPointer, serverVars
<1>14. ASSUME NEW r \in Runs, MarkExternalTerminal(r) PROVE IInv'
  BY <1>14 DEF MarkExternalTerminal, ClearPointer, dbVars, serverVars
<1>15. ASSUME NEW r \in Runs, Cancel(r) PROVE IInv'
  BY <1>15 DEF Cancel, registryVars, dbVars, serverVars
<1>16. ASSUME NEW r \in Runs, RetentionPasses(r) PROVE IInv'
  BY <1>16 DEF RetentionPasses, runVars, dbVars, serverVars
<1>17. ASSUME Crash PROVE IInv'
  BY <1>17 DEF Crash
<1>18. ASSUME Restart PROVE IInv'
  BY <1>18 DEF Restart, LeaveSession, runVars, registryVars
<1>19. ASSUME UNCHANGED vars PROVE IInv'
  BY <1>19 DEF vars
<1>20. ASSUME NEW r \in Runs, NEW k \in Keys, RegisterRefused(r, k) PROVE IInv'
  BY <1>20 DEF RegisterRefused, Evict, KeptJobs, KeptActive, dbVars, serverVars
<1>21. ASSUME NEW r \in Runs, UnregisterBroker(r) PROVE IInv'
  BY <1>21 DEF UnregisterBroker, runVars, dbVars, serverVars
<1>22. ASSUME NEW r \in Runs, AgentReturns(r) PROVE IInv'
  BY <1>22 DEF AgentReturns, dbVars, serverVars
<1>. QED
  BY <1>1, <1>2, <1>3, <1>4, <1>5, <1>6, <1>7, <1>8, <1>9, <1>10, <1>11, <1>12, <1>13,
     <1>14, <1>15, <1>16, <1>17, <1>18, <1>19, <1>20, <1>21, <1>22, NextCases

LEMMA InductiveInit == Init => IInv
  BY RunAssumption, KeyAssumption, KindAssumption, CrashAssumption
     DEF Init, IInv, TypeOK, Phases, Terminal, PhaseInv, CancelInv, CancelWins, JobInv,
         PointerInv, BrokerInv, RowInv, AnonymousExclusive

\* Every reachable state of the run registry satisfies the inductive invariant.
THEOREM Inductive == Spec => []IInv
  BY InductiveInit, InductiveStep, PTL DEF Spec

-----------------------------------------------------------------------------
(* What the inductive invariant gives.                                      *)

\* The registry, the jobs and the table keep their types.
THEOREM TypeCorrect == Spec => []TypeOK
<1>1. IInv => TypeOK
  BY DEF IInv
<1>. QED
  BY <1>1, Inductive, PTL

\* A device or general run whose cancel was accepted ends cancelled.
THEOREM CancelIsHonoured == Spec => []CancelWins
<1>1. IInv => CancelWins
  BY DEF IInv, CancelInv
<1>. QED
  BY <1>1, Inductive, PTL

\* An anonymous session routes to its only running run.
THEOREM AnonymousRunsExclude == Spec => []AnonymousExclusive
<1>1. IInv => AnonymousExclusive
  BY DEF IInv
<1>. QED
  BY <1>1, Inductive, PTL

\* Pointers name registered, unfinished runs of their own key; running runs are
\* registered; the broker table holds running device runs, registered runs of other
\* services, and runs of other services that the registry refused.
THEOREM RegistryIsSound == Spec => []RegistrySound
<1>1. IInv => RegistrySound
  BY DEF IInv, JobInv, PointerInv, BrokerInv, RegistrySound
<1>. QED
  BY <1>1, Inductive, PTL

\* No step of any request, task or restart changes a final row: once it is final
\* its driver has finished, and no open transaction can still hold it.
THEOREM FinalRowsStay == Spec => RowNeverReopens
<1>1. ASSUME IInv, [Next]_vars
      PROVE  [\A r \in Runs : row[r] \in Terminal => row'[r] = row[r]]_row
  <2> SUFFICES ASSUME NEW q \in Runs, row[q] \in Terminal
               PROVE  row'[q] = row[q] \/ row' = row
    OBVIOUS
  <2>1. phase[q] = "finished" /\ q \notin tx
    BY <1>1 DEF IInv, RowInv, Terminal
  <2>2. row \in [Runs -> {"none", "running"} \cup Terminal]
    BY <1>1 DEF IInv, TypeOK
  <2>3. ASSUME NEW r \in Runs, RequestCommit(r) PROVE row'[q] = row[q]
    BY <2>1, <2>2, <2>3 DEF RequestCommit
  <2>4. ASSUME NEW r \in Runs, PersistWrite(r) PROVE row'[q] = row[q]
    BY <2>1, <2>2, <2>4 DEF PersistWrite
  <2>5. ASSUME NEW r \in Runs, PersistFails(r) PROVE row' = row
    BY <2>5 DEF PersistFails
  <2>6. CASE Restart
    BY <2>6 DEF Restart, LeaveSession
  <2>7. CASE Crash
    BY <2>7 DEF Crash
  <2>8. CASE UNCHANGED vars
    BY <2>8 DEF vars
  <2>9. ASSUME NEW r \in Runs, NEW k \in Keys, NEW ak \in TaskKinds,
               StartDirect(r, k, ak) \/ StartCheck(r, k, ak) \/ RegisterExternal(r, k)
                 \/ StartRejected(k)
        PROVE  row' = row
    BY <2>9 DEF StartDirect, StartCheck, RegisterExternal, StartRejected, dbVars
  <2>10. ASSUME NEW r \in Runs,
                StartRegister(r) \/ RegisterBroker(r) \/ StreamEnds(r) \/ CancelDelivered(r)
                  \/ StreamUnwound(r) \/ PersistRead(r) \/ MarkExternalTerminal(r)
                  \/ Cancel(r) \/ RetentionPasses(r) \/ UnregisterBroker(r) \/ AgentReturns(r)
         PROVE  row' = row
    BY <2>10 DEF StartRegister, RegisterBroker, StreamEnds, CancelDelivered, StreamUnwound,
                 Settle, PersistRead, MarkExternalTerminal, Cancel, RetentionPasses,
                 UnregisterBroker, AgentReturns, dbVars
  <2>11. ASSUME NEW k \in Keys, StartRejected(k) PROVE row' = row
    BY <2>11 DEF StartRejected, dbVars
  <2>12. ASSUME NEW r \in Runs, NEW k \in Keys, RegisterExternal(r, k) \/ RegisterRefused(r, k)
         PROVE  row' = row
    BY <2>12 DEF RegisterExternal, RegisterRefused, dbVars
  <2>. QED
    BY <1>1, <2>3, <2>4, <2>5, <2>6, <2>7, <2>8, <2>9, <2>10, <2>11, <2>12, NextCases
<1>. QED
  BY <1>1, Inductive, PTL DEF Spec, RowNeverReopens

-----------------------------------------------------------------------------
(* The registry implements RunLifecycle (its safety part; liveness is       *)
(* checked by TLC).                                                         *)

LEMMA LifecycleInit == Init => Lifecycle!Init
  BY KindAssumption DEF Init, Lifecycle!Init

\* A step that touches neither status, kind nor a cancel event is invisible.
LEMMA LifecycleStutter ==
  ASSUME UNCHANGED <<kind, status, cancelEvent>> PROVE UNCHANGED Lifecycle!vars
  BY DEF Lifecycle!vars

\* Registration begins a run; a run not yet registered has no cancel event.
LEMMA LifecycleBegin ==
  ASSUME TypeOK, PhaseInv, NEW r \in Runs, phase[r] \in {"unused", "starting"},
         status' = [status EXCEPT ![r] = "running"], UNCHANGED cancelEvent,
         kind' = kind \/ \E ak \in TaskKinds \cup {"external"} : kind' = [kind EXCEPT ![r] = ak]
  PROVE  Lifecycle!Begin(r)
<1>1. status[r] = "none" /\ ~cancelEvent[r]
  BY DEF PhaseInv
<1>2. {q \in Runs : kind'[q] \in TaskKinds /\ cancelEvent[q]}
                  = {q \in Runs : kind[q] \in TaskKinds /\ cancelEvent[q]}
  BY <1>1 DEF TypeOK
<1>3. [q \in Runs |-> IF status'[q] = "none" THEN "idle" ELSE status'[q]]
        = [[q \in Runs |-> IF status[q] = "none" THEN "idle" ELSE status[q]]
             EXCEPT ![r] = "running"]
  BY DEF TypeOK
<1>. QED
  BY <1>1, <1>2, <1>3 DEF Lifecycle!Begin, TypeOK

\* Settling ends a running run; a cancelled one can only end as cancelled.
LEMMA LifecycleEnd ==
  ASSUME TypeOK, NEW r \in Runs, status[r] = "running", NEW end \in Outcomes \cup {"cancelled"},
         status' = [status EXCEPT ![r] = end], UNCHANGED <<kind, cancelEvent>>,
         kind[r] \in TaskKinds /\ cancelEvent[r] => end = "cancelled"
  PROVE  Lifecycle!End(r)
<1>1. [q \in Runs |-> IF status'[q] = "none" THEN "idle" ELSE status'[q]]
        = [[q \in Runs |-> IF status[q] = "none" THEN "idle" ELSE status[q]]
             EXCEPT ![r] = end]
  BY DEF TypeOK, Outcomes
<1>. QED
  BY <1>1 DEF Lifecycle!End, Lifecycle!Ends, TypeOK, Outcomes

\* An accepted cancel is recorded for a running run the service drives itself.
LEMMA LifecycleAsk ==
  ASSUME IInv, NEW r \in Runs, Cancel(r)
  PROVE  Lifecycle!Ask(r) \/ UNCHANGED Lifecycle!vars
<1>1. status[r] = "running"
  BY DEF IInv, JobInv, PhaseInv, TypeOK, Cancel, Phases, Terminal
<1>2. UNCHANGED <<kind, status>> /\ cancelEvent' = [cancelEvent EXCEPT ![r] = TRUE]
  BY DEF Cancel
<1>3. CASE kind[r] \in TaskKinds
  <2>1. {q \in Runs : kind'[q] \in TaskKinds /\ cancelEvent'[q]}
          = {q \in Runs : kind[q] \in TaskKinds /\ cancelEvent[q]} \cup {r}
    BY <1>2, <1>3 DEF IInv, TypeOK
  <2>. QED
    BY <1>1, <1>2, <2>1 DEF Lifecycle!Ask
<1>4. CASE kind[r] \notin TaskKinds
  <2>1. {q \in Runs : kind'[q] \in TaskKinds /\ cancelEvent'[q]}
          = {q \in Runs : kind[q] \in TaskKinds /\ cancelEvent[q]}
    BY <1>2, <1>4 DEF IInv, TypeOK
  <2>. QED
    BY <1>2, <2>1 DEF Lifecycle!vars
<1>. QED
  BY <1>3, <1>4

\* A crash loses every running run at once.
LEMMA LifecycleLose == ASSUME TypeOK, Crash PROVE Lifecycle!LoseAll
<1>1. [q \in Runs |-> IF status'[q] = "none" THEN "idle" ELSE status'[q]]
        = [q \in Runs |->
             IF [p \in Runs |-> IF status[p] = "none" THEN "idle" ELSE status[p]][q] = "running"
             THEN "lost"
             ELSE [p \in Runs |-> IF status[p] = "none" THEN "idle" ELSE status[p]][q]]
  BY DEF TypeOK, Crash
<1>. QED
  BY <1>1 DEF Lifecycle!LoseAll, Crash

LEMMA LifecycleStep == ASSUME IInv, [Next]_vars PROVE [Lifecycle!Next]_(Lifecycle!vars)
<1> USE DEF IInv
<1>1. ASSUME NEW r \in Runs, NEW k \in Keys, NEW ak \in TaskKinds, StartDirect(r, k, ak)
      PROVE  Lifecycle!Begin(r)
  BY <1>1, LifecycleBegin DEF StartDirect, Register
<1>2. ASSUME NEW r \in Runs, StartRegister(r) PROVE Lifecycle!Begin(r)
  BY <1>2, LifecycleBegin DEF StartRegister, Register
<1>3. ASSUME NEW r \in Runs, NEW k \in Keys, RegisterExternal(r, k) PROVE Lifecycle!Begin(r)
  BY <1>3, LifecycleBegin DEF RegisterExternal, Register
<1>4. ASSUME NEW r \in Runs, StreamEnds(r) PROVE Lifecycle!End(r)
  BY <1>4, LifecycleEnd DEF StreamEnds, Settle, PhaseInv
<1>5. ASSUME NEW r \in Runs, StreamUnwound(r) PROVE Lifecycle!End(r)
  BY <1>5, LifecycleEnd DEF StreamUnwound, Settle, PhaseInv
<1>6. ASSUME NEW r \in Runs, MarkExternalTerminal(r) PROVE Lifecycle!End(r)
  BY <1>6, LifecycleEnd, KindAssumption DEF MarkExternalTerminal, PhaseInv
<1>7. ASSUME NEW r \in Runs, Cancel(r) PROVE Lifecycle!Ask(r) \/ UNCHANGED Lifecycle!vars
  BY <1>7, LifecycleAsk
<1>8. ASSUME Crash PROVE Lifecycle!LoseAll
  BY <1>8, LifecycleLose
\* Choosing the kind of a run that nobody can have cancelled yet.
<1>9. ASSUME NEW r \in Runs, NEW k \in Keys, NEW ak \in TaskKinds, StartCheck(r, k, ak)
      PROVE  UNCHANGED Lifecycle!vars
  <2>1. {q \in Runs : kind'[q] \in TaskKinds /\ cancelEvent'[q]}
          = {q \in Runs : kind[q] \in TaskKinds /\ cancelEvent[q]}
    BY <1>9 DEF StartCheck, PhaseInv, TypeOK
  <2>. QED
    BY <1>9, <2>1 DEF StartCheck, Lifecycle!vars
<1>10. ASSUME NEW k \in Keys, StartRejected(k) PROVE UNCHANGED <<kind, status, cancelEvent>>
  BY <1>10 DEF StartRejected, runVars
<1>11. ASSUME NEW r \in Runs,
              RequestCommit(r) \/ RegisterBroker(r) \/ CancelDelivered(r) \/ PersistRead(r)
                \/ PersistWrite(r) \/ PersistFails(r) \/ RetentionPasses(r)
                \/ UnregisterBroker(r) \/ AgentReturns(r)
       PROVE  UNCHANGED <<kind, status, cancelEvent>>
  BY <1>11 DEF RequestCommit, RegisterBroker, CancelDelivered, PersistRead, PersistWrite,
               PersistFails, Finish, RetentionPasses, UnregisterBroker, AgentReturns, runVars
<1>12. ASSUME Restart \/ UNCHANGED vars PROVE UNCHANGED <<kind, status, cancelEvent>>
  BY <1>12 DEF Restart, runVars, vars
\* A refused run is never one the service drives itself.
<1>13. ASSUME NEW r \in Runs, NEW k \in Keys, RegisterRefused(r, k)
       PROVE  UNCHANGED Lifecycle!vars
  <2>1. {q \in Runs : kind'[q] \in TaskKinds /\ cancelEvent'[q]}
          = {q \in Runs : kind[q] \in TaskKinds /\ cancelEvent[q]}
    BY <1>13 DEF RegisterRefused, PhaseInv, TypeOK
  <2>. QED
    BY <1>13, <2>1 DEF RegisterRefused, Lifecycle!vars
<1>. QED
  BY <1>1, <1>2, <1>3, <1>4, <1>5, <1>6, <1>7, <1>8, <1>9, <1>10, <1>11, <1>12, <1>13,
     NextCases, LifecycleStutter DEF Lifecycle!Next

\* The run registry implements the life of a run that RunLifecycle promises.
THEOREM ImplementsLifecycle == Spec => Lifecycle!Spec
  BY LifecycleInit, LifecycleStep, Inductive, PTL DEF Spec, Lifecycle!Spec

-----------------------------------------------------------------------------
(* What two active runs of one session take.                                *)

\* A running run is the one its session routes to.
SoleInv == \A r \in Runs : status[r] = "running" => active[key[r]] = r

\* Only a registration without a look at the registry can pass over a running run.
LEMMA SoleStep == ASSUME IInv, SoleInv, StartsAlone, [Next]_vars PROVE SoleInv'
<1> USE RunAssumption, KeyAssumption
<1> USE DEF TypeOK, PhaseInv, JobInv, PointerInv, Terminal, SoleInv
<1>0. TypeOK /\ PhaseInv /\ JobInv /\ PointerInv
  BY DEF IInv
<1>1. ASSUME NEW r \in Runs, NEW k \in Keys, NEW ak \in TaskKinds, StartDirect(r, k, ak) PROVE SoleInv'
  BY <1>0, <1>1 DEF StartDirect, HasConflict, ActiveRun, Register, KeptJobs, KeptActive
<1>2. ASSUME NEW r \in Runs, NEW k \in Keys, NEW ak \in TaskKinds, StartCheck(r, k, ak) PROVE SoleInv'
  BY <1>0, <1>2 DEF StartCheck, KeptActive
<1>3. ASSUME NEW r \in Runs, NEW k \in Keys, RegisterExternal(r, k) PROVE SoleInv'
  BY <1>0, <1>3 DEF RegisterExternal, HasConflict, ActiveRun, Register, KeptJobs, KeptActive
<1>4. ASSUME NEW k \in Keys, StartRejected(k) PROVE SoleInv'
  BY <1>0, <1>4 DEF StartRejected, KeptActive, runVars
<1>5. ASSUME NEW r \in Runs, StartRegister(r) PROVE SoleInv'
  BY <1>0, <1>5 DEF StartRegister, Register, StartsAlone
<1>6. ASSUME NEW r \in Runs, StreamEnds(r) \/ StreamUnwound(r) PROVE SoleInv'
  BY <1>0, <1>6 DEF StreamEnds, StreamUnwound, Settle, Outcomes
<1>7. ASSUME NEW r \in Runs, PersistWrite(r) \/ PersistFails(r) PROVE SoleInv'
  BY <1>0, <1>7 DEF PersistWrite, PersistFails, Finish, ClearPointer
<1>8. ASSUME NEW r \in Runs, MarkExternalTerminal(r) PROVE SoleInv'
  BY <1>0, <1>8 DEF MarkExternalTerminal, ClearPointer, Outcomes
<1>9. ASSUME Crash PROVE SoleInv'
  BY <1>0, <1>9 DEF Crash
<1>10. ASSUME UNCHANGED <<key, status, active>> PROVE SoleInv'
  BY <1>10
<1>11. ASSUME NEW r \in Runs,
              \/ RequestCommit(r) \/ RegisterBroker(r) \/ CancelDelivered(r) \/ PersistRead(r)
              \/ Cancel(r) \/ RetentionPasses(r) \/ UnregisterBroker(r) \/ AgentReturns(r)
       PROVE  UNCHANGED <<key, status, active>>
  BY <1>11 DEF RequestCommit, RegisterBroker, CancelDelivered, PersistRead, Cancel,
               RetentionPasses, UnregisterBroker, AgentReturns, runVars, registryVars
<1>12. ASSUME Restart \/ UNCHANGED vars PROVE UNCHANGED <<key, status, active>>
  BY <1>12 DEF Restart, runVars, registryVars, vars
<1>13. ASSUME NEW r \in Runs, NEW k \in Keys, RegisterRefused(r, k) PROVE SoleInv'
  BY <1>0, <1>13 DEF RegisterRefused, KeptActive
<1>. QED
  BY <1>1, <1>2, <1>3, <1>4, <1>5, <1>6, <1>7, <1>8, <1>9, <1>10, <1>11, <1>12, <1>13, NextCases

\* A session gets a second active run only where one of its runs is running while another
\* request is between its conflict check and its registration (start_device_run,
\* start_general_run): no eviction, late cleanup, retry or external end makes one.
THEOREM OverlapIsTheOnlyWay == Spec /\ []StartsAlone => []OneActiveRun
<1>1. Init => SoleInv
  BY DEF Init, SoleInv
<1>2. SoleInv => OneActiveRun
  BY DEF SoleInv, OneActiveRun
<1>. QED
  BY <1>1, <1>2, Inductive, SoleStep, PTL DEF Spec

-----------------------------------------------------------------------------
(* What becomes of interrupted runs.                                        *)

\* Every step leaves a lost run lost and its row alone.
LEMMA LostStaysLost ==
  ASSUME IInv, [Next]_vars, NEW q \in Runs, phase[q] = "lost"
  PROVE  phase'[q] = "lost" /\ row'[q] = row[q]
<1>1. /\ phase \in [Runs -> Phases] /\ row \in [Runs -> {"none", "running"} \cup Terminal]
      /\ q \notin tx
  BY DEF IInv, TypeOK, RowInv
<1>2. ASSUME NEW r \in Runs, phase[r] # "lost", NEW p, phase' = [phase EXCEPT ![r] = p],
             row' = row \/ \E x : row' = [row EXCEPT ![r] = x]
      PROVE  phase'[q] = "lost" /\ row'[q] = row[q]
  BY <1>1, <1>2
<1>3. ASSUME NEW r \in Runs, NEW k \in Keys, NEW ak \in TaskKinds,
             StartDirect(r, k, ak) \/ StartCheck(r, k, ak)
      PROVE  phase'[q] = "lost" /\ row'[q] = row[q]
  BY <1>2, <1>3 DEF StartDirect, StartCheck, dbVars
<1>4. ASSUME NEW r \in Runs,
             \/ StartRegister(r) \/ CancelDelivered(r) \/ StreamEnds(r) \/ StreamUnwound(r)
             \/ PersistRead(r) \/ MarkExternalTerminal(r) \/ AgentReturns(r)
      PROVE  phase'[q] = "lost" /\ row'[q] = row[q]
  <2>1. CASE StartRegister(r) \/ CancelDelivered(r)
    BY <1>2, <2>1 DEF StartRegister, CancelDelivered, dbVars
  <2>2. ASSUME NEW st, phase[r] # "lost", Settle(r, st) PROVE phase'[q] = "lost" /\ row'[q] = row[q]
    BY <1>2, <2>2 DEF Settle, dbVars
  <2>3. CASE StreamEnds(r) \/ StreamUnwound(r)
    BY <2>2, <2>3 DEF StreamEnds, StreamUnwound
  <2>4. CASE PersistRead(r) \/ MarkExternalTerminal(r) \/ AgentReturns(r)
    BY <1>2, <2>4 DEF PersistRead, MarkExternalTerminal, AgentReturns, dbVars
  <2> QED
    BY <1>4, <2>1, <2>3, <2>4
<1>5. ASSUME NEW r \in Runs, PersistWrite(r) \/ PersistFails(r)
      PROVE  phase'[q] = "lost" /\ row'[q] = row[q]
  <2>1. /\ phase[r] # "lost" /\ phase' = [phase EXCEPT ![r] = "finished"]
        /\ row' = row \/ row' = [row EXCEPT ![r] = status[r]]
    BY <1>5 DEF PersistWrite, PersistFails, Finish
  <2> QED
    BY <1>2, <2>1
<1>6. ASSUME NEW r \in Runs, RequestCommit(r) PROVE phase'[q] = "lost" /\ row'[q] = row[q]
  BY <1>1, <1>6 DEF RequestCommit, runVars
<1>7. ASSUME NEW r \in Runs,
             RegisterBroker(r) \/ UnregisterBroker(r) \/ Cancel(r) \/ RetentionPasses(r)
      PROVE  phase'[q] = "lost" /\ row'[q] = row[q]
  BY <1>7 DEF RegisterBroker, UnregisterBroker, Cancel, RetentionPasses, runVars, dbVars
<1>8. ASSUME NEW k \in Keys, StartRejected(k) PROVE phase'[q] = "lost" /\ row'[q] = row[q]
  BY <1>8 DEF StartRejected, runVars, dbVars
<1>9. ASSUME NEW r \in Runs, NEW k \in Keys, RegisterExternal(r, k) \/ RegisterRefused(r, k)
      PROVE  phase'[q] = "lost" /\ row'[q] = row[q]
  BY <1>2, <1>9 DEF RegisterExternal, RegisterRefused, dbVars
<1>10. CASE Crash
  BY <1>10 DEF Crash
<1>11. CASE Restart \/ UNCHANGED vars
  BY <1>11 DEF Restart, LeaveSession, runVars, vars
<1>. QED
  BY <1>3, <1>4, <1>5, <1>6, <1>7, <1>8, <1>9, <1>10, <1>11, NextCases

\* However often the service starts again, the row of an interrupted run that said running
\* goes on saying it (the start-up UPDATE of main.py).
THEOREM InterruptedRowsAreLeft == Spec => InterruptedRowsStay
<1>1. ASSUME IInv, [Next]_vars
      PROVE  [\A r \in Runs : phase[r] = "lost" /\ row[r] = "running" =>
                phase'[r] = "lost" /\ row'[r] = "running"]_vars
  <2>1. ASSUME NEW q \in Runs, phase[q] = "lost", row[q] = "running"
        PROVE  phase'[q] = "lost" /\ row'[q] = "running"
    BY <1>1, <2>1, LostStaysLost
  <2> QED
    BY <2>1
<1>. QED
  BY <1>1, Inductive, PTL DEF Spec, InterruptedRowsStay

=============================================================================
