-------------------------- MODULE HitlBroker_proofs --------------------------
(***************************************************************************)
(* Proofs about HitlBroker for every set of requests, questions and tabs.   *)
(***************************************************************************)
EXTENDS HitlBroker, TLAPS

-----------------------------------------------------------------------------
(* The inductive invariant.                                                 *)

\* A tab that has taken the entry of a request, or has been told yes.
Claims(r, t) == call[t] = r \/ told[r][t] = "accepted"

\* An entry can be taken once: while it is in the table nobody has it.
ClaimInv ==
  \A r \in Requests :
    /\ \A t1, t2 \in Tabs : Claims(r, t1) /\ Claims(r, t2) => t1 = t2
    /\ r \in pending \/ wait[r] = "idle" => \A t \in Tabs : ~Claims(r, t)
    /\ \A t \in Tabs : call[t] = r => told[r][t] = "none"

\* A decision travels from the tab that was told yes to the future and the waiter.
DecisionInv ==
  \A r \in Requests, t \in Tabs :
    /\ t \in handed[r] \/ future[r] = t \/ outcome[r] = t => told[r][t] = "accepted"
    /\ t \in handed[r] => wait[r] # "idle"

\* What the waiter's progress says of its future and of the table.
WaiterInv ==
  \A r \in Requests :
    /\ wait[r] = "idle" => future[r] = "none" /\ card[r] = "none"
    /\ wait[r] \in {"waiting", "expired", "givingUp"} => future[r] # "none"
    /\ wait[r] = "givingUp" => future[r] = "cancelled"
    /\ r \in pending => wait[r] \in {"waiting", "expired", "givingUp"}
    /\ r \in pending /\ wait[r] # "givingUp" => future[r] = "pending"

\* In one loop nothing is under way between a call and the future, and a future
\* with a decision keeps it until its waiter has taken it over.
LocalInv ==
  ~remote =>
    /\ (\A r \in Requests : handed[r] = {}) /\ \A t \in Tabs : call[t] = NoRequest
    /\ \A r \in Requests, t \in Tabs :
         told[r][t] = "accepted" =>
           future[r] = t /\ (wait[r] = "done" => outcome[r] = t)

IInv ==
  /\ TypeOK /\ ClaimInv /\ DecisionInv /\ WaiterInv /\ LocalInv
  /\ AnswerableWhileWaiting /\ NoOrphanCard

-----------------------------------------------------------------------------
\* A step of the specification is one of these.
LEMMA NextCases ==
  ASSUME [Next]_vars
  PROVE  \/ \E r \in Requests : Open(r) \/ OpenRefused(r)
         \/ \E r \in Requests : Wake(r)
         \/ \E r \in Requests : TimerFires(r) \/ GiveUp(r)
         \/ \E r \in Requests : TimedOut(r)
         \/ \E r \in Requests : CancelWaiter(r)
         \/ \E r \in Requests : CloseOne(r)
         \/ \E r \in Requests, t \in Tabs : Apply(r, t)
         \/ \E r \in Requests, t \in Tabs : ResolveMiss(r, t) \/ ResolveLocal(r, t)
         \/ \E r \in Requests, t \in Tabs : ResolvePop(r, t)
         \/ \E r \in Requests, t \in Tabs : HandOver(r, t)
         \/ RunEnds \/ Close
         \/ UNCHANGED vars
  BY DEF Next, WaiterLoop

\* The invariant is kept by every step: one case per action or pair of actions.
LEMMA InductiveStep == ASSUME IInv, [Next]_vars PROVE IInv'
<1> USE QuestionAssumption, NoRequestAssumption, TabAssumption
<1> USE DEF IInv, TypeOK, Verdicts, Claims, ClaimInv, DecisionInv, WaiterInv, LocalInv,
            AnswerableWhileWaiting, NoOrphanCard, FutureDone
<1>1. ASSUME NEW r \in Requests, Open(r) PROVE IInv'
  BY <1>1 DEF Open, clientVars
<1>2. ASSUME NEW r \in Requests, OpenRefused(r) PROVE IInv'
  BY <1>2 DEF OpenRefused, brokerVars, clientVars
<1>3. ASSUME NEW r \in Requests, Wake(r) PROVE IInv'
  BY <1>3 DEF Wake, Resume, brokerVars, clientVars
<1>4. ASSUME NEW r \in Requests, TimerFires(r) PROVE IInv'
  BY <1>4 DEF TimerFires, brokerVars, clientVars
<1>5. ASSUME NEW r \in Requests, GiveUp(r) PROVE IInv'
  BY <1>5 DEF GiveUp, brokerVars, clientVars
<1>6. ASSUME NEW r \in Requests, TimedOut(r) PROVE IInv'
  <2>1. TypeOK'
    BY <1>6 DEF TimedOut, Resume, clientVars
  <2>2. ClaimInv'
    BY <1>6 DEF TimedOut, Resume, clientVars
  <2>3. DecisionInv'
    BY <1>6 DEF TimedOut, Resume, clientVars
  <2>4. WaiterInv'
    BY <1>6 DEF TimedOut, Resume, clientVars
  <2>5. LocalInv'
    BY <1>6 DEF TimedOut, Resume, clientVars
  <2>6. AnswerableWhileWaiting'
    BY <1>6 DEF TimedOut, Resume, clientVars
  <2>7. NoOrphanCard'
    BY <1>6 DEF TimedOut, Resume, clientVars
  <2>. QED
    BY <2>1, <2>2, <2>3, <2>4, <2>5, <2>6, <2>7
<1>7. ASSUME NEW r \in Requests, CancelWaiter(r) PROVE IInv'
  BY <1>7 DEF CancelWaiter, clientVars
<1>8. ASSUME NEW r \in Requests, CloseOne(r) PROVE IInv'
  <2>1. TypeOK'
    <3>1. future' \in [Requests -> {"none", "pending", "cancelled"} \cup Verdicts]
      <4>1. CASE future' = future
        BY <4>1
      <4>2. CASE future' = [future EXCEPT ![r] = "deny"]
        BY <4>2
      <4>. QED
        BY <1>8, <4>1, <4>2 DEF CloseOne, SetResult
    <3>. QED
      BY <1>8, <3>1 DEF CloseOne, waiterVars, clientVars
  <2>2. ClaimInv'
    BY <1>8 DEF CloseOne, SetResult, waiterVars, clientVars
  <2>3. DecisionInv'
    BY <1>8 DEF CloseOne, SetResult, waiterVars, clientVars
  <2>4. WaiterInv'
    BY <1>8 DEF CloseOne, SetResult, waiterVars, clientVars
  <2>5. LocalInv'
    BY <1>8 DEF CloseOne, SetResult, waiterVars, clientVars
  <2>6. AnswerableWhileWaiting'
    BY <1>8 DEF CloseOne, SetResult, waiterVars, clientVars
  <2>7. NoOrphanCard'
    BY <1>8 DEF CloseOne, SetResult, waiterVars, clientVars
  <2>. QED
    BY <2>1, <2>2, <2>3, <2>4, <2>5, <2>6, <2>7
<1>9. ASSUME NEW r \in Requests, NEW t \in Tabs, Apply(r, t) PROVE IInv'
  BY <1>9 DEF Apply, SetResult, waiterVars, brokerVars
<1>10. ASSUME NEW r \in Requests, NEW t \in Tabs, ResolveMiss(r, t) PROVE IInv'
  BY <1>10 DEF ResolveMiss, MayCall, Tell, waiterVars, brokerVars
<1>11. ASSUME NEW r \in Requests, NEW t \in Tabs, ResolveLocal(r, t) PROVE IInv'
  <2>1. TypeOK'
    BY <1>11 DEF ResolveLocal, MayCall, SetResult, Tell, waiterVars
  <2>2. ClaimInv'
    BY <1>11 DEF ResolveLocal, MayCall, SetResult, Tell, waiterVars
  <2>3. DecisionInv'
    BY <1>11 DEF ResolveLocal, MayCall, SetResult, Tell, waiterVars
  <2>4. WaiterInv'
    BY <1>11 DEF ResolveLocal, MayCall, SetResult, Tell, waiterVars
  <2>5. LocalInv'
    BY <1>11 DEF ResolveLocal, MayCall, SetResult, Tell, waiterVars
  <2>6. AnswerableWhileWaiting'
    BY <1>11 DEF ResolveLocal, MayCall, SetResult, Tell, waiterVars
  <2>7. NoOrphanCard'
    BY <1>11 DEF ResolveLocal, MayCall, SetResult, Tell, waiterVars
  <2>. QED
    BY <2>1, <2>2, <2>3, <2>4, <2>5, <2>6, <2>7
<1>12. ASSUME NEW r \in Requests, NEW t \in Tabs, ResolvePop(r, t) PROVE IInv'
  BY <1>12 DEF ResolvePop, MayCall, waiterVars
<1>13. ASSUME NEW r \in Requests, NEW t \in Tabs, HandOver(r, t) PROVE IInv'
  <2>1. TypeOK'
    BY <1>13 DEF HandOver, Tell, waiterVars, brokerVars
  <2>2. ClaimInv'
    BY <1>13 DEF HandOver, Tell, waiterVars, brokerVars
  <2>3. DecisionInv'
    BY <1>13 DEF HandOver, Tell, waiterVars, brokerVars
  <2>4. WaiterInv'
    BY <1>13 DEF HandOver, Tell, waiterVars, brokerVars
  <2>5. LocalInv'
    BY <1>13 DEF HandOver, Tell, waiterVars, brokerVars
  <2>6. AnswerableWhileWaiting'
    BY <1>13 DEF HandOver, Tell, waiterVars, brokerVars
  <2>7. NoOrphanCard'
    BY <1>13 DEF HandOver, Tell, waiterVars, brokerVars
  <2>. QED
    BY <2>1, <2>2, <2>3, <2>4, <2>5, <2>6, <2>7
<1>14. ASSUME RunEnds PROVE IInv'
  BY <1>14 DEF RunEnds, waiterVars, brokerVars, clientVars
<1>15. ASSUME Close PROVE IInv'
  BY <1>15 DEF Close, waiterVars, clientVars
<1>16. ASSUME UNCHANGED vars PROVE IInv'
  BY <1>16 DEF vars
<1>. QED
  BY <1>1, <1>2, <1>3, <1>4, <1>5, <1>6, <1>7, <1>8, <1>9, <1>10, <1>11, <1>12, <1>13, <1>14,
     <1>15, <1>16, NextCases

\* A broker begins with nothing opened and nothing answered.
LEMMA InductiveInit == Init => IInv
<1> SUFFICES ASSUME Init PROVE IInv
  OBVIOUS
<1> USE QuestionAssumption, NoRequestAssumption, TabAssumption DEF Init
<1>1. TypeOK
  BY DEF TypeOK, Verdicts
<1>2. ClaimInv /\ DecisionInv
  BY DEF ClaimInv, Claims, DecisionInv
<1>3. WaiterInv /\ LocalInv
  BY DEF WaiterInv, LocalInv
<1>4. AnswerableWhileWaiting /\ NoOrphanCard
  BY DEF AnswerableWhileWaiting, NoOrphanCard
<1>. QED
  BY <1>1, <1>2, <1>3, <1>4 DEF IInv

\* Every reachable state of a broker satisfies the inductive invariant.
THEOREM Inductive == Spec => []IInv
  BY InductiveInit, InductiveStep, PTL DEF Spec

-----------------------------------------------------------------------------
(* What the inductive invariant gives.                                      *)

\* Broker, futures, waiters and calls keep their types.
THEOREM TypeCorrect == Spec => []TypeOK
<1>1. IInv => TypeOK
  BY DEF IInv
<1>. QED
  BY <1>1, Inductive, PTL

\* Of the tabs that answer a card one at most is told yes, and the agent never goes
\* on with an answer whose sender was told otherwise.
THEOREM AnswersAreExclusive == Spec => []OneAcceptedAnswer
<1>1. IInv => OneAcceptedAnswer
  BY DEF IInv, ClaimInv, Claims, DecisionInv, OneAcceptedAnswer
<1>. QED
  BY <1>1, Inductive, PTL

\* In a device run an accepted answer is the one the agent goes on with.
THEOREM AcceptedAnswersAreUsed == Spec => []AcceptedIsUsed
<1>1. IInv => AcceptedIsUsed
  BY DEF IInv, LocalInv, AcceptedIsUsed
<1>. QED
  BY <1>1, Inductive, PTL

\* A card whose waiter has no verdict yet can be answered, or an answer is on its way.
LEMMA WaitersAreAnswerable == Spec => []AnswerableWhileWaiting
<1>1. IInv => AnswerableWhileWaiting
  BY DEF IInv
<1>. QED
  BY <1>1, Inductive, PTL

\* In a live run a card disappears when its agent goes on.
LEMMA CardsHaveWaiters == Spec => []NoOrphanCard
<1>1. IInv => NoOrphanCard
  BY DEF IInv
<1>. QED
  BY <1>1, Inductive, PTL

\* Who waits can be answered, and who has gone on has no card.
THEOREM CardsAndWaitersMatch == Spec => []CardsMatchWaiters
<1>1. AnswerableWhileWaiting /\ NoOrphanCard => CardsMatchWaiters
  BY DEF CardsMatchWaiters
<1>. QED
  BY <1>1, WaitersAreAnswerable, CardsHaveWaiters, PTL

-----------------------------------------------------------------------------
(* The broker implements Decision.                                          *)

\* A waiter that has gone on has a verdict and nobody else has; its future takes no
\* further answer, and where it has none no tab has got hold of the request.
VerdictInv ==
  \A r \in Requests :
    /\ wait[r] # "idle" => card[r] # "none"
    /\ wait[r] # "done" => outcome[r] = "none"
    /\ wait[r] = "done" => future[r] # "pending"
    /\ wait[r] = "done" /\ future[r] = "none" => \A t \in Tabs : ~Claims(r, t)

LEMMA VerdictStays == ASSUME IInv, VerdictInv, [Next]_vars PROVE VerdictInv'
<1> USE NoRequestAssumption, TabAssumption
<1> USE DEF IInv, TypeOK, Verdicts, Claims, VerdictInv, WaiterInv, ClaimInv, FutureDone
<1>1. ASSUME NEW r \in Requests, Open(r) PROVE VerdictInv'
  BY <1>1 DEF Open, clientVars
<1>2. ASSUME NEW r \in Requests, OpenRefused(r) PROVE VerdictInv'
  BY <1>2 DEF OpenRefused, brokerVars, clientVars
<1>3. ASSUME NEW r \in Requests, Wake(r) PROVE VerdictInv'
  BY <1>3 DEF Wake, Resume, brokerVars, clientVars
<1>4. ASSUME NEW r \in Requests, TimerFires(r) \/ GiveUp(r) PROVE VerdictInv'
  BY <1>4 DEF TimerFires, GiveUp, brokerVars, clientVars
<1>5. ASSUME NEW r \in Requests, TimedOut(r) PROVE VerdictInv'
  BY <1>5 DEF TimedOut, Resume, clientVars
<1>6. ASSUME NEW r \in Requests, CancelWaiter(r) PROVE VerdictInv'
  BY <1>6 DEF CancelWaiter, clientVars
<1>7. ASSUME NEW r \in Requests, CloseOne(r) PROVE VerdictInv'
  BY <1>7 DEF CloseOne, SetResult, waiterVars, clientVars
<1>8. ASSUME NEW r \in Requests, NEW t \in Tabs, Apply(r, t) PROVE VerdictInv'
  BY <1>8 DEF Apply, SetResult, waiterVars, DecisionInv
<1>9. ASSUME NEW r \in Requests, NEW t \in Tabs, ResolveMiss(r, t) PROVE VerdictInv'
  BY <1>9 DEF ResolveMiss, MayCall, Tell, waiterVars
<1>10. ASSUME NEW r \in Requests, NEW t \in Tabs, ResolveLocal(r, t) PROVE VerdictInv'
  BY <1>10 DEF ResolveLocal, MayCall, SetResult, Tell, waiterVars
<1>11. ASSUME NEW r \in Requests, NEW t \in Tabs, ResolvePop(r, t) PROVE VerdictInv'
  BY <1>11 DEF ResolvePop, MayCall, waiterVars
<1>12. ASSUME NEW r \in Requests, NEW t \in Tabs, HandOver(r, t) PROVE VerdictInv'
  BY <1>12 DEF HandOver, Tell, waiterVars
<1>13. ASSUME RunEnds \/ Close \/ UNCHANGED vars PROVE VerdictInv'
  BY <1>13 DEF RunEnds, Close, waiterVars, clientVars, vars
<1>. QED
  BY <1>1, <1>2, <1>3, <1>4, <1>5, <1>6, <1>7, <1>8, <1>9, <1>10, <1>11, <1>12, <1>13, NextCases

LEMMA VerdictInvariant == Spec => [](IInv /\ VerdictInv)
<1>1. Init => VerdictInv
  BY DEF Init, VerdictInv
<1>. QED
  BY <1>1, InductiveInit, InductiveStep, VerdictStays, PTL DEF Spec

\* What Decision sees of a broker.
Asked == {r \in Requests : card[r] # "none"}
Accepted == [r \in Requests |-> {t \in Tabs : told[r][t] = "accepted"}]
Defaults == {"deny", "timeout", "cancelled", "closed"}

LEMMA DecisionsBegin == Init => Decisions!Init
<1> SUFFICES ASSUME Init PROVE Decisions!Init
  OBVIOUS
<1>1. Asked = {} /\ Accepted = [r \in Requests |-> {}]
  BY DEF Init, Asked, Accepted
<1>. QED
  BY <1>1 DEF Init, Decisions!Init, Asked, Accepted

\* A waiter goes on, with an answer that was accepted or for want of one.
LEMMA WaiterDecides ==
  ASSUME IInv, VerdictInv, NEW r \in Requests, NEW v \in Tabs \cup Defaults, wait[r] # "idle",
         outcome[r] = "none", outcome' = [outcome EXCEPT ![r] = v],
         card' = card \/ card' = [card EXCEPT ![r] = "resolved"],
         UNCHANGED <<remote, told>>,
         v \in Tabs => told[r][v] = "accepted",
         ~remote => \A t \in Tabs : told[r][t] = "accepted" => v = t
  PROVE  Decisions!Decide(r, v)
<1>1. Asked' = Asked /\ r \in Asked
  BY DEF IInv, TypeOK, VerdictInv, Asked
<1>2. Accepted' = Accepted /\ Accepted[r] = {t \in Tabs : told[r][t] = "accepted"}
  BY DEF Accepted
<1>. QED
  BY <1>1, <1>2 DEF Decisions!Decide, Asked, Accepted

\* A tab is told yes.
LEMMA TabAccepted ==
  ASSUME IInv, VerdictInv, NEW r \in Requests, NEW t \in Tabs, Claims(r, t) \/ r \in pending,
         told[r][t] # "accepted", ~FutureDone(r),
         UNCHANGED <<remote, card, outcome>>, Tell(r, t, "accepted")
  PROVE  Decisions!Accept(r, t)
<1>1. wait[r] \notin {"idle", "done"} /\ outcome[r] = "none"
  BY DEF IInv, ClaimInv, VerdictInv, WaiterInv, FutureDone
<1>2. Asked' = Asked /\ r \in Asked
  BY <1>1 DEF VerdictInv, Asked
<1>3. Accepted[r] = {}
  <2>1. \A q \in Tabs : told[r][q] # "accepted"
    BY DEF IInv, ClaimInv, Claims
  <2>. QED
    BY <2>1 DEF Accepted
<1>4. Accepted' = [Accepted EXCEPT ![r] = {t}]
  <2>1. told' = [told EXCEPT ![r] = [told[r] EXCEPT ![t] = "accepted"]]
    BY DEF Tell
  <2>2. \A q \in Tabs : told[r][q] # "accepted"
    BY DEF IInv, ClaimInv, Claims
  <2>3. {q \in Tabs : told'[r][q] = "accepted"} = {t}
    BY <2>1, <2>2 DEF IInv, TypeOK
  <2>4. \A s \in Requests \ {r} : told'[s] = told[s]
    BY <2>1 DEF IInv, TypeOK
  <2>. QED
    BY <2>3, <2>4 DEF Accepted
<1>. QED
  BY <1>1, <1>2, <1>3, <1>4 DEF Decisions!Accept, Asked, Accepted

LEMMA DecisionsStutter ==
  ASSUME IInv, UNCHANGED <<remote, outcome>>, card' = card,
         Accepted' = Accepted
  PROVE  UNCHANGED Decisions!vars
  BY DEF Decisions!vars, Accepted

\* A tab that is told no accepts nothing.
LEMMA RefusalsAcceptNothing ==
  ASSUME TypeOK, NEW r \in Requests, NEW t \in Tabs, told[r][t] = "none", Tell(r, t, "refused")
  PROVE  Accepted' = Accepted
<1>1. told' = [told EXCEPT ![r] = [told[r] EXCEPT ![t] = "refused"]]
  BY DEF Tell
<1>2. \A s \in Requests : {q \in Tabs : told'[s][q] = "accepted"} = {q \in Tabs : told[s][q] = "accepted"}
  BY <1>1 DEF TypeOK
<1>. QED
  BY <1>2 DEF Accepted

LEMMA DecisionsStep ==
  ASSUME IInv, VerdictInv, [Next]_vars PROVE [Decisions!Next]_(Decisions!vars)
<1> USE TabAssumption
<1>1. ASSUME NEW r \in Requests, Open(r) PROVE Decisions!Ask(r)
  <2>1. r \notin Asked /\ Asked' = Asked \cup {r}
    BY <1>1 DEF Open, IInv, TypeOK, WaiterInv, Asked
  <2>. QED
    BY <1>1, <2>1 DEF Open, clientVars, Decisions!Ask, Asked
<1>2. ASSUME NEW r \in Requests, OpenRefused(r) PROVE Decisions!Refuse(r, "closed")
  <2>1. r \notin Asked /\ Asked' = Asked \cup {r}
    BY <1>2 DEF OpenRefused, IInv, TypeOK, WaiterInv, Asked
  <2>. QED
    BY <1>2, <2>1 DEF OpenRefused, clientVars, VerdictInv, Decisions!Refuse, Asked
<1>3. ASSUME NEW r \in Requests, Wake(r)
      PROVE  \E v \in Tabs \cup Defaults : Decisions!Decide(r, v)
  <2>1. future[r] \in Tabs \cup {"deny", "cancelled"}
    BY <1>3 DEF Wake, FutureDone, IInv, TypeOK, Verdicts
  <2>2. future[r] \in Tabs => told[r][future[r]] = "accepted"
    BY DEF IInv, DecisionInv
  <2>3. ~remote => \A t \in Tabs : told[r][t] = "accepted" => future[r] = t
    BY DEF IInv, LocalInv
  <2>4. PICK v \in Tabs \cup Defaults : v = future[r]
    BY <2>1 DEF Defaults
  <2>5. /\ wait[r] # "idle" /\ outcome[r] = "none" /\ UNCHANGED <<remote, told>>
        /\ outcome' = [outcome EXCEPT ![r] = v]
        /\ card' = [card EXCEPT ![r] = "resolved"]
    BY <1>3, <2>4 DEF Wake, Resume, clientVars, VerdictInv
  <2>6. Decisions!Decide(r, v)
    BY <2>2, <2>3, <2>4, <2>5, WaiterDecides
  <2>. QED
    BY <2>6
<1>4. ASSUME NEW r \in Requests, TimedOut(r) PROVE Decisions!Decide(r, "timeout")
  <2>1. ~remote => \A t \in Tabs : told[r][t] # "accepted"
    BY <1>4 DEF TimedOut, IInv, LocalInv, WaiterInv
  <2>. QED
    BY <1>4, <2>1, WaiterDecides DEF TimedOut, Resume, clientVars, VerdictInv, Defaults
<1>5. ASSUME NEW r \in Requests, CancelWaiter(r) PROVE Decisions!Decide(r, "cancelled")
  <2>1. ~remote => \A t \in Tabs : told[r][t] # "accepted"
    BY <1>5 DEF CancelWaiter, FutureDone, IInv, LocalInv, WaiterInv
  <2>2. card' = card \/ card' = [card EXCEPT ![r] = "resolved"]
    BY <1>5 DEF CancelWaiter, IInv, TypeOK
  <2>. QED
    BY <1>5, <2>1, <2>2, WaiterDecides DEF CancelWaiter, clientVars, VerdictInv, Defaults
<1>6. ASSUME NEW r \in Requests, NEW t \in Tabs, ResolveLocal(r, t) \/ HandOver(r, t)
      PROVE  Decisions!Accept(r, t) \/ UNCHANGED Decisions!vars
  <2>1. told[r][t] = "none" /\ UNCHANGED <<remote, card, outcome>>
    BY <1>6 DEF ResolveLocal, HandOver, MayCall, IInv, ClaimInv, waiterVars
  <2>2. CASE FutureDone(r)
    BY <1>6, <2>1, <2>2, RefusalsAcceptNothing, DecisionsStutter DEF ResolveLocal, HandOver, IInv
  <2>3. CASE ~FutureDone(r)
    BY <1>6, <2>1, <2>3, TabAccepted DEF ResolveLocal, HandOver, Claims
  <2>. QED
    BY <2>2, <2>3
<1>7. ASSUME NEW r \in Requests, NEW t \in Tabs, ResolveMiss(r, t)
      PROVE  UNCHANGED Decisions!vars
  BY <1>7, RefusalsAcceptNothing, DecisionsStutter DEF ResolveMiss, MayCall, IInv, waiterVars
<1>8. ASSUME UNCHANGED <<remote, outcome, card, told>> PROVE UNCHANGED Decisions!vars
  BY <1>8 DEF Decisions!vars
<1>9. ASSUME NEW r \in Requests,
             TimerFires(r) \/ GiveUp(r) \/ CloseOne(r)
               \/ \E t \in Tabs : Apply(r, t) \/ ResolvePop(r, t)
      PROVE  UNCHANGED <<remote, outcome, card, told>>
  BY <1>9 DEF TimerFires, GiveUp, CloseOne, Apply, ResolvePop, waiterVars, clientVars
<1>10. ASSUME RunEnds \/ Close \/ UNCHANGED vars PROVE UNCHANGED <<remote, outcome, card, told>>
  BY <1>10 DEF RunEnds, Close, waiterVars, clientVars, vars
<1>. QED
  BY <1>1, <1>2, <1>3, <1>4, <1>5, <1>6, <1>7, <1>8, <1>9, <1>10, NextCases DEF Decisions!Next, Defaults

\* A card is decided once; of its tabs one at most is told yes, before the decision, and in
\* the API's own loop that tab's answer is the decision (hitl_broker.py, wait_for).
THEOREM CardsAreDecided == Spec => CardsAreDecisions
  BY VerdictInvariant, DecisionsBegin, DecisionsStep, PTL DEF Spec, CardsAreDecisions, Decisions!Spec

=============================================================================
