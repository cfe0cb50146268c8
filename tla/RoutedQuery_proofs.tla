-------------------------- MODULE RoutedQuery_proofs --------------------------
(***************************************************************************)
(* Proofs about RoutedQuery for every set of callers, every window,         *)
(* threshold and cooldown, and any number of keys.                          *)
(***************************************************************************)
EXTENDS RoutedQuery, TLAPS

-----------------------------------------------------------------------------
(* The inductive invariant, a conjunct for each question about one call.    *)

\* Which round trips a call can be in the middle of, and that its attempt is in its plan.
PlanInv(c) ==
  /\ Len(plan[c]) <= IF rekeyed[c] THEN 3 ELSE 2
  /\ call[c] = "idle" => step[c] = "none"
  /\ call[c] \in {"idle", "routing"} => at[c] = 1 /\ ~rekeyed[c]
  /\ call[c] = "routing" => step[c] = "claim" \/ (step[c] = "none" /\ Len(plan[c]) > 0)
  /\ step[c] = "claim" => call[c] = "routing"
  /\ call[c] \notin {"idle", "routing"} => at[c] <= Len(plan[c])

\* Only a committed attempt was heard, and a call that may still change its attempt has
\* not committed.
VoiceInv(c) ==
  /\ heard[c] \subseteq {at[c]}
  /\ call[c] \in {"idle", "routing", "asking", "switching"} => heard[c] = {}
  /\ call[c] = "closing" /\ cause[c] # "left" => heard[c] = {}

\* Whatever is alive is the attempt in force, is waited for, or outlived its teardown.
ReapInv(c) ==
  ~hurried[c] =>
    /\ alive[c] \subseteq detached[c] \cup overdue[c] \cup {at[c]}
    /\ call[c] \in {"routing", "switching", "draining"} => alive[c] \subseteq detached[c] \cup overdue[c]
    /\ call[c] = "idle" => alive[c] \subseteq overdue[c]

CallInv(c) == PlanInv(c) /\ VoiceInv(c) /\ ReapInv(c)

IInv == TypeOK /\ \A c \in Callers : CallInv(c)

-----------------------------------------------------------------------------
(* Lemmas.                                                                  *)

\* One element more after the i-th: what the other key does to a plan.
LEMMA Inserted ==
  ASSUME NEW S, NEW s \in Seq(S), NEW e \in S, NEW i \in 1..Len(s)
  PROVE  LET t == SubSeq(s, 1, i) \o <<e>> \o SubSeq(s, i + 1, Len(s))
         IN  t \in Seq(S) /\ Len(t) = Len(s) + 1
<1> DEFINE front == SubSeq(s, 1, i)
           back == SubSeq(s, i + 1, Len(s))
<1>1. front \in Seq(S) /\ Len(front) = i
  OBVIOUS
<1>2. back \in Seq(S) /\ Len(back) = Len(s) - i
  OBVIOUS
<1> HIDE DEF front, back
<1>3. front \o <<e>> \in Seq(S) /\ Len(front \o <<e>>) = i + 1
  BY <1>1
<1>4. (front \o <<e>>) \o back \in Seq(S) /\ Len((front \o <<e>>) \o back) = Len(s) + 1
  BY <1>2, <1>3
<1> QED
  BY <1>4 DEF front, back

\* A window keeps its length.
LEMMA NewestIsShort ==
  ASSUME NEW s \in Seq(BOOLEAN), NEW b \in BOOLEAN
  PROVE  Newest(<<b>> \o s) \in Seq(BOOLEAN) /\ Len(Newest(<<b>> \o s)) <= Window
<1> DEFINE t == <<b>> \o s
<1>1. t \in Seq(BOOLEAN) /\ Window \in Nat
  BY RouterAssumption
<1> HIDE DEF t
<1>2. CASE Len(t) > Window
  BY <1>1, <1>2 DEF Newest
<1>3. CASE ~(Len(t) > Window)
  BY <1>1, <1>3 DEF Newest
<1> QED
  BY <1>2, <1>3 DEF t

\* What a call does leaves the others' part of the invariant alone.
LEMMA OthersKeep ==
  ASSUME NEW d, CallInv(d),
         step'[d] = step[d], plan'[d] = plan[d], call'[d] = call[d], at'[d] = at[d],
         rekeyed'[d] = rekeyed[d], cause'[d] = cause[d], alive'[d] = alive[d],
         detached'[d] = detached[d], overdue'[d] = overdue[d], heard'[d] = heard[d], hurried'[d] = hurried[d]
  PROVE  CallInv(d)'
  BY DEF CallInv, PlanInv, VoiceInv, ReapInv

\* What every step of a call leaves to the other calls.
Apart(c) ==
  \A d \in Callers \ {c} :
    /\ step'[d] = step[d] /\ plan'[d] = plan[d] /\ call'[d] = call[d] /\ at'[d] = at[d]
    /\ rekeyed'[d] = rekeyed[d] /\ cause'[d] = cause[d] /\ alive'[d] = alive[d]
    /\ detached'[d] = detached[d] /\ overdue'[d] = overdue[d]
    /\ heard'[d] = heard[d] /\ hurried'[d] = hurried[d]

\* The attempt in force is given up: the next one is in the plan, or the call ends.
LEMMA FailedMovesOn ==
  ASSUME TypeOK, NEW c \in Callers, PlanInv(c), step[c] = "none", call[c] \notin {"idle", "routing"},
         NEW why \in Outcomes \cup Rejections, Failed(c, why)
  PROVE  /\ call' \in [Callers -> Phases] /\ at' \in [Callers -> Attempts]
         /\ rekeyed' \in [Callers -> BOOLEAN] /\ plan' \in [Callers -> Seq(Slots)]
         /\ step' \in [Callers -> Steps] /\ outcome' \in [Callers -> Outcomes]
         /\ UNCHANGED <<routing, window, breaker, probe, held, overdue, heard, hurried>>
         /\ call'[c] \in {"switching", "draining"} /\ step'[c] \in {"none", "push"}
         /\ at'[c] <= Len(plan'[c]) /\ Len(plan'[c]) <= IF rekeyed'[c] THEN 3 ELSE 2
         /\ call'[c] = "draining" => at'[c] = at[c]
         /\ \A d \in Callers \ {c} :
              /\ step'[d] = step[d] /\ plan'[d] = plan[d] /\ call'[d] = call[d]
              /\ at'[d] = at[d] /\ rekeyed'[d] = rekeyed[d]
<1>1. /\ plan[c] \in Seq(Slots) /\ at[c] \in 1..Len(plan[c]) /\ Len(plan[c]) <= 3
      /\ ~rekeyed[c] => Len(plan[c]) <= 2
  <2>1. plan[c] \in Seq(Slots) /\ at[c] \in Attempts /\ rekeyed[c] \in BOOLEAN
    BY DEF TypeOK, RouterTypeOK
  <2>2. Len(plan[c]) \in Nat
    BY <2>1
  <2> QED
    BY <2>1, <2>2 DEF PlanInv, Attempts
<1> DEFINE longer == SubSeq(plan[c], 1, at[c]) \o <<"primary">> \o SubSeq(plan[c], at[c] + 1, Len(plan[c]))
<1>2. longer \in Seq(Slots) /\ Len(longer) = Len(plan[c]) + 1
  BY <1>1, Inserted DEF Slots
<1> HIDE DEF longer
<1>3. /\ plan' \in [Callers -> Seq(Slots)] /\ rekeyed' \in [Callers -> BOOLEAN]
      /\ step' \in [Callers -> Steps] /\ outcome' \in [Callers -> Outcomes]
      /\ step'[c] \in {"none", "push"}
      /\ \A d \in Callers \ {c} : step'[d] = step[d] /\ plan'[d] = plan[d] /\ rekeyed'[d] = rekeyed[d]
      /\ \/ ~rekeyed[c] /\ rekeyed'[c] /\ plan'[c] = longer
         \/ rekeyed'[c] = rekeyed[c] /\ plan'[c] = plan[c]
  <2>1. CASE why = "rate_limit" /\ Slot(c) = "primary" /\ Keys > 1 /\ ~rekeyed[c]
    <3>1. /\ plan' = [plan EXCEPT ![c] = longer] /\ rekeyed' = [rekeyed EXCEPT ![c] = TRUE]
          /\ step' = step /\ outcome' = outcome
      BY <2>1 DEF longer, Failed
    <3> QED
      BY <1>2, <2>1, <3>1 DEF TypeOK, RouterTypeOK
  <2>2. CASE ~(why = "rate_limit" /\ Slot(c) = "primary" /\ Keys > 1 /\ ~rekeyed[c])
    BY <2>2 DEF Failed, Report, TypeOK, RouterTypeOK, Steps, Outcomes, Rejections
  <2> QED
    BY <2>1, <2>2
<1>4. /\ Len(plan'[c]) \in Nat /\ at[c] <= Len(plan'[c])
      /\ Len(plan'[c]) <= (IF rekeyed'[c] THEN 3 ELSE 2)
  BY <1>1, <1>2, <1>3
<1>5. /\ call' \in [Callers -> Phases] /\ at' \in [Callers -> Attempts]
      /\ call'[c] \in {"switching", "draining"} /\ at'[c] <= Len(plan'[c])
      /\ call'[c] = "draining" => at'[c] = at[c]
      /\ \A d \in Callers \ {c} : call'[d] = call[d] /\ at'[d] = at[d]
  <2>1. call \in [Callers -> Phases] /\ at \in [Callers -> Attempts] /\ {"switching", "draining"} \subseteq Phases
    BY DEF TypeOK, Phases
  <2>2. CASE at[c] < Len(plan'[c])
    <3>1. call' = [call EXCEPT ![c] = "switching"] /\ at' = [at EXCEPT ![c] = @ + 1]
      BY <2>2 DEF Failed, Onwards, Goto
    <3>2. at[c] + 1 \in Attempts /\ at[c] + 1 <= Len(plan'[c])
      BY <1>1, <1>4, <2>2 DEF Attempts
    <3> QED
      BY <2>1, <3>1, <3>2
  <2>3. CASE ~(at[c] < Len(plan'[c]))
    <3>1. call' = [call EXCEPT ![c] = "draining"] /\ at' = at
      BY <2>3 DEF Failed, Onwards, Goto
    <3> QED
      BY <1>4, <2>1, <3>1
  <2> QED
    BY <2>2, <2>3
<1> QED
  BY <1>3, <1>4, <1>5 DEF Failed

\* TypeOK, without what PlanInv says again.
Ranges ==
  /\ RouterTypeOK
  /\ call \in [Callers -> Phases] /\ at \in [Callers -> Attempts]
  /\ held \in [Callers -> BOOLEAN] /\ rekeyed \in [Callers -> BOOLEAN]
  /\ cause \in [Callers -> Causes] /\ alive \in [Callers -> SUBSET Attempts]
  /\ detached \in [Callers -> SUBSET Attempts] /\ overdue \in [Callers -> SUBSET Attempts]
  /\ heard \in [Callers -> SUBSET Attempts] /\ hurried \in [Callers -> BOOLEAN]

Kept(c) == Ranges' /\ CallInv(c)' /\ Apart(c)

LEMMA KeptSuffices ==
  ASSUME IInv, NEW c \in Callers, Kept(c) PROVE IInv'
<1>1. \A d \in Callers : CallInv(d)'
  BY OthersKeep DEF IInv, Kept, Apart
<1> QED
  BY <1>1 DEF IInv, Kept, Ranges, TypeOK, CallInv, PlanInv

LEMMA FirstPlans ==
  /\ <<>> \in Seq(Slots) /\ Len(<<>>) = 0
  /\ <<"primary">> \in Seq(Slots) /\ Len(<<"primary">>) = 1
  /\ \A p \in {<<"primary", "backup">>, <<"backup", "primary">>} :
       p \in Seq(Slots) /\ Len(p) <= 2 /\ Len(p) > 0
  BY DEF Slots

LEMMA StartKeeps == ASSUME IInv, NEW c \in Callers, Start(c) PROVE Kept(c)
<1> USE DEF IInv, TypeOK, RouterTypeOK
<1>1. PICK able \in BOOLEAN : Select(c, able)
  BY DEF Start
<1> DEFINE first == IF routing = "paired" /\ able
                      THEN IF BreakerOpen THEN <<>> ELSE <<"primary", "backup">>
                      ELSE <<"primary">>
           next == IF routing = "paired" /\ able /\ BreakerOpen THEN "claim" ELSE "none"
<1>2. first \in Seq(Slots) /\ Len(first) <= 2 /\ (next = "none" => Len(first) > 0)
  BY FirstPlans
<1>3. /\ plan' = [plan EXCEPT ![c] = first] /\ step' = [step EXCEPT ![c] = next]
      /\ UNCHANGED <<routing, window, probe, outcome>> /\ breaker' \in {breaker, 0}
  BY <1>1 DEF Select
<1> HIDE DEF first
<1>4. Ranges'
  <2>1. plan' \in [Callers -> Seq(Slots)] /\ step' \in [Callers -> Steps] /\ breaker' \in 0..Cooldown
    BY <1>2, <1>3, RouterAssumption DEF Steps
  <2> QED
    BY <1>3, <2>1 DEF Ranges, Start, In, Goto, Phases
<1>5. Apart(c)
  BY <1>3 DEF Apart, Start, Goto
<1>6. /\ call'[c] = "routing" /\ at'[c] = 1 /\ ~rekeyed'[c]
      /\ heard'[c] = {} /\ alive'[c] = {} /\ ~hurried'[c] /\ Len(plan'[c]) = Len(first) /\ step'[c] = next
  BY <1>3 DEF CallInv, PlanInv, VoiceInv, Start, In, Goto
<1>7. PlanInv(c)'
  <2>1. step'[c] = "claim" \/ (step'[c] = "none" /\ Len(plan'[c]) > 0)
    BY <1>2, <1>6
  <2>2. Len(plan'[c]) <= 2
    BY <1>2, <1>6
  <2> HIDE DEF IInv, TypeOK, RouterTypeOK, next
  <2> QED
    BY <1>6, <2>1, <2>2 DEF PlanInv
<1>8. VoiceInv(c)' /\ ReapInv(c)'
  BY <1>6 DEF VoiceInv, ReapInv
<1> QED
  BY <1>4, <1>5, <1>7, <1>8 DEF Kept, CallInv

LEMMA AttemptKeeps == ASSUME IInv, NEW c \in Callers, Attempt(c) PROVE Kept(c)
<1> USE DEF IInv, TypeOK, RouterTypeOK, routerVars
<1>1. Ranges'
  BY RouterAssumption DEF Ranges, Attempt, In, Goto, Phases, Attempts, Causes, Steps, Outcomes, Slots
<1>2. Apart(c)
  BY DEF Apart, Attempt, In, Goto
<1>3. PlanInv(c)'
  BY DEF CallInv, PlanInv, Attempt, In, Goto
<1>4. VoiceInv(c)' /\ ReapInv(c)'
  BY DEF CallInv, VoiceInv, ReapInv, Attempt, In, Goto
<1> QED
  BY <1>1, <1>2, <1>3, <1>4 DEF Kept, CallInv

LEMMA HoldKeeps == ASSUME IInv, NEW c \in Callers, Hold(c) PROVE Kept(c)
<1> USE DEF IInv, TypeOK, RouterTypeOK, routerVars
<1>1. Ranges'
  BY RouterAssumption DEF Ranges, Hold, In, Phases, Attempts, Causes, Steps, Outcomes, Slots
<1>2. Apart(c)
  BY DEF Apart, Hold, In
<1>3. PlanInv(c)'
  BY DEF CallInv, PlanInv, Hold, In
<1>4. VoiceInv(c)' /\ ReapInv(c)'
  BY DEF CallInv, VoiceInv, ReapInv, Hold, In
<1> QED
  BY <1>1, <1>2, <1>3, <1>4 DEF Kept, CallInv

LEMMA CommitKeeps == ASSUME IInv, NEW c \in Callers, Commit(c) PROVE Kept(c)
<1> USE DEF IInv, TypeOK, RouterTypeOK
<1>1. PICK how \in {"ok", "slow"} : Report(c, Slot(c), how)
  BY DEF Commit
<1>2. /\ step' \in [Callers -> Steps] /\ outcome' \in [Callers -> Outcomes]
      /\ step'[c] \in {"none", "push"} /\ \A d \in Callers \ {c} : step'[d] = step[d]
  BY <1>1 DEF Report, Commit, In, Steps, Outcomes
<1>3. Ranges'
  <2>1. /\ call' \in [Callers -> Phases] /\ heard' \in [Callers -> SUBSET Attempts]
        /\ held' \in [Callers -> BOOLEAN]
    BY DEF Commit, Goto, Phases
  <2>2. RouterTypeOK'
    BY <1>2 DEF Commit
  <2> HIDE DEF RouterTypeOK
  <2> QED
    BY <2>1, <2>2 DEF Ranges, Commit
<1>4. Apart(c)
  BY <1>2 DEF Apart, Commit, Goto
<1>5. PlanInv(c)' /\ VoiceInv(c)' /\ ReapInv(c)'
  BY <1>2 DEF CallInv, PlanInv, VoiceInv, ReapInv, Commit, In, Goto
<1> QED
  BY <1>3, <1>4, <1>5 DEF Kept, CallInv

LEMMA StreamEndsKeeps == ASSUME IInv, NEW c \in Callers, StreamEnds(c) PROVE Kept(c)
<1> USE DEF IInv, TypeOK, RouterTypeOK, routerVars
<1>1. Ranges'
  BY RouterAssumption DEF Ranges, StreamEnds, Gone, In, Goto, Phases, Attempts, Causes, Steps, Outcomes, Slots
<1>2. Apart(c)
  BY DEF Apart, StreamEnds, Gone, In, Goto
<1>3. PlanInv(c)'
  BY DEF CallInv, PlanInv, StreamEnds, Gone, In, Goto
<1>4. VoiceInv(c)' /\ ReapInv(c)'
  BY DEF CallInv, VoiceInv, ReapInv, StreamEnds, Gone, In, Goto
<1> QED
  BY <1>1, <1>2, <1>3, <1>4 DEF Kept, CallInv

LEMMA LeaveKeeps == ASSUME IInv, NEW c \in Callers, Leave(c) PROVE Kept(c)
<1> USE DEF IInv, TypeOK, RouterTypeOK, routerVars
<1>1. Ranges'
  BY RouterAssumption DEF Ranges, Leave, In, Goto, Phases, Attempts, Causes, Steps, Outcomes, Slots
<1>2. Apart(c)
  BY DEF Apart, Leave, In, Goto
<1>3. PlanInv(c)'
  BY DEF CallInv, PlanInv, Leave, In, Goto
<1>4. VoiceInv(c)' /\ ReapInv(c)'
  BY DEF CallInv, VoiceInv, ReapInv, Leave, In, Goto
<1> QED
  BY <1>1, <1>2, <1>3, <1>4 DEF Kept, CallInv

LEMMA ReapKeeps == ASSUME IInv, NEW c \in Callers, Reap(c) PROVE Kept(c)
<1> USE DEF IInv, TypeOK, RouterTypeOK, routerVars
<1>1. Ranges'
  BY RouterAssumption DEF Ranges, Reap, Leaving, Phases, Attempts, Causes, Steps, Outcomes, Slots
<1>2. Apart(c)
  BY DEF Apart, Reap
<1>3. PlanInv(c)'
  BY DEF CallInv, PlanInv, Reap
<1>4. VoiceInv(c)' /\ ReapInv(c)'
  BY DEF CallInv, VoiceInv, ReapInv, Reap
<1> QED
  BY <1>1, <1>2, <1>3, <1>4 DEF Kept, CallInv

LEMMA OverrunKeeps == ASSUME IInv, NEW c \in Callers, Overrun(c) PROVE Kept(c)
<1> USE DEF IInv, TypeOK, RouterTypeOK, routerVars
<1>1. Ranges'
  BY RouterAssumption DEF Ranges, Overrun, Leaving, Phases, Attempts, Causes, Steps, Outcomes, Slots
<1>2. Apart(c)
  BY DEF Apart, Overrun
<1>3. PlanInv(c)'
  BY DEF CallInv, PlanInv, Overrun
<1>4. VoiceInv(c)' /\ ReapInv(c)'
  BY DEF CallInv, VoiceInv, ReapInv, Overrun
<1> QED
  BY <1>1, <1>2, <1>3, <1>4 DEF Kept, CallInv

LEMMA CancelCloseKeeps == ASSUME IInv, NEW c \in Callers, CancelClose(c) PROVE Kept(c)
<1> USE DEF IInv, TypeOK, RouterTypeOK, routerVars
<1>1. Ranges'
  BY RouterAssumption DEF Ranges, CancelClose, In, Goto, Phases, Attempts, Causes, Steps, Outcomes, Slots
<1>2. Apart(c)
  BY DEF Apart, CancelClose, In, Goto
<1>3. PlanInv(c)'
  BY DEF CallInv, PlanInv, CancelClose, In, Goto
<1>4. VoiceInv(c)' /\ ReapInv(c)'
  BY DEF CallInv, VoiceInv, ReapInv, CancelClose, In, Goto
<1> QED
  BY <1>1, <1>2, <1>3, <1>4 DEF Kept, CallInv

LEMMA ReturnKeeps == ASSUME IInv, NEW c \in Callers, Return(c) PROVE Kept(c)
<1> USE DEF IInv, TypeOK, RouterTypeOK, routerVars
<1>1. Ranges'
  BY RouterAssumption DEF Ranges, Return, Over, In, Goto, Phases, Attempts, Causes, Steps, Outcomes, Slots
<1>2. Apart(c)
  BY DEF Apart, Return, Over, In, Goto
<1>3. PlanInv(c)'
  BY DEF CallInv, PlanInv, Return, Over, In, Goto
<1>4. VoiceInv(c)' /\ ReapInv(c)'
  BY DEF CallInv, VoiceInv, ReapInv, Return, Over, In, Goto
<1> QED
  BY <1>1, <1>2, <1>3, <1>4 DEF Kept, CallInv

LEMMA GiveUpKeeps == ASSUME IInv, NEW c \in Callers, GiveUp(c) PROVE Kept(c)
<1> USE DEF IInv, TypeOK, RouterTypeOK, routerVars
<1>1. Ranges'
  BY RouterAssumption DEF Ranges, GiveUp, Over, In, Goto, Phases, Attempts, Causes, Steps, Outcomes, Slots
<1>2. Apart(c)
  BY DEF Apart, GiveUp, Over, In, Goto
<1>3. PlanInv(c)'
  BY DEF CallInv, PlanInv, GiveUp, Over, In, Goto
<1>4. VoiceInv(c)' /\ ReapInv(c)'
  BY DEF CallInv, VoiceInv, ReapInv, GiveUp, Over, In, Goto
<1> QED
  BY <1>1, <1>2, <1>3, <1>4 DEF Kept, CallInv

\* An attempt is given up in one of three ways: its teardown is remembered, it ended by
\* itself, or its teardown has come back.
LEMMA FailedKeeps ==
  ASSUME IInv, NEW c \in Callers, step[c] = "none", NEW why \in Outcomes \cup Rejections, Failed(c, why),
         \/ call[c] = "asking" /\ Detached(c) /\ UNCHANGED cause
         \/ call[c] = "asking" /\ Gone(c) /\ UNCHANGED cause
         \/ /\ call[c] = "closing" /\ cause[c] # "left" /\ at[c] \notin alive[c] \ overdue[c]
            /\ cause' = [cause EXCEPT ![c] = "none"] /\ UNCHANGED <<alive, detached>>
  PROVE  Kept(c)
<1> USE DEF IInv
<1>1. TypeOK /\ CallInv(c) /\ call[c] \notin {"idle", "routing"}
  OBVIOUS
<1>2. PlanInv(c)
  BY <1>1 DEF CallInv
<1>3. /\ call' \in [Callers -> Phases] /\ at' \in [Callers -> Attempts]
      /\ rekeyed' \in [Callers -> BOOLEAN] /\ plan' \in [Callers -> Seq(Slots)]
      /\ step' \in [Callers -> Steps] /\ outcome' \in [Callers -> Outcomes]
      /\ UNCHANGED <<routing, window, breaker, probe, held, overdue, heard, hurried>>
      /\ call'[c] \in {"switching", "draining"} /\ step'[c] \in {"none", "push"}
      /\ at'[c] <= Len(plan'[c]) /\ Len(plan'[c]) <= IF rekeyed'[c] THEN 3 ELSE 2
      /\ call'[c] = "draining" => at'[c] = at[c]
      /\ \A d \in Callers \ {c} :
           /\ step'[d] = step[d] /\ plan'[d] = plan[d] /\ call'[d] = call[d]
           /\ at'[d] = at[d] /\ rekeyed'[d] = rekeyed[d]
  BY <1>1, <1>2, FailedMovesOn
<1>4. /\ cause' \in [Callers -> Causes] /\ alive' \in [Callers -> SUBSET Attempts]
      /\ detached' \in [Callers -> SUBSET Attempts]
      /\ \A d \in Callers \ {c} : cause'[d] = cause[d] /\ alive'[d] = alive[d] /\ detached'[d] = detached[d]
  BY DEF TypeOK, Detached, Gone, Causes
<1>5. Ranges' /\ Apart(c)
  BY <1>3, <1>4 DEF Ranges, Apart, TypeOK, RouterTypeOK
<1>6. PlanInv(c)'
  BY <1>3 DEF PlanInv
<1>7. VoiceInv(c)'
  BY <1>1, <1>3 DEF CallInv, VoiceInv
<1>8. ReapInv(c)'
  <2>1. ~hurried'[c] => alive'[c] \subseteq detached'[c] \cup overdue'[c]
    BY <1>1, <1>3 DEF CallInv, ReapInv, Detached, Gone, TypeOK
  <2> QED
    BY <1>3, <2>1 DEF ReapInv
<1> QED
  BY <1>5, <1>6, <1>7, <1>8 DEF Kept, CallInv

LEMMA GivingUpKeeps ==
  ASSUME IInv, NEW c \in Callers, Deadline(c) \/ Raise(c) \/ \E why \in Rejections : Reject(c, why)
  PROVE  Kept(c)
<1>1. CASE Deadline(c)
  <2>1. PICK why \in Outcomes \cup Rejections : Failed(c, why)
    BY <1>1 DEF Deadline, Rejections, Outcomes
  <2> QED
    BY <1>1, <2>1, FailedKeeps DEF Deadline, In
<1>2. CASE Raise(c)
  <2>1. PICK why \in Outcomes \cup Rejections : Failed(c, why)
    BY <1>2 DEF Raise, Rejections, Outcomes
  <2> QED
    BY <1>2, <2>1, FailedKeeps DEF Raise, In
<1>3. ASSUME NEW why \in Rejections, Reject(c, why) PROVE Kept(c)
  <2>1. CASE HasFallback(c) /\ Failed(c, why) /\ Detached(c) /\ UNCHANGED cause
    BY <1>3, <2>1, FailedKeeps DEF Reject, In
  <2>2. CASE /\ Goto(c, "closing") /\ cause' = [cause EXCEPT ![c] = why] /\ UNCHANGED routerVars
             /\ UNCHANGED <<at, held, rekeyed, alive, detached, overdue, heard, hurried>>
    <3> USE DEF IInv, TypeOK, RouterTypeOK, routerVars, Goto
    <3>1. call[c] = "asking" /\ step[c] = "none"
      BY <1>3 DEF Reject, In
    <3>2. Ranges' /\ Apart(c)
      BY <2>2, <3>1 DEF Ranges, Apart, Phases, Causes
    <3>3. PlanInv(c)' /\ VoiceInv(c)' /\ ReapInv(c)'
      BY <2>2, <3>1 DEF CallInv, PlanInv, VoiceInv, ReapInv
    <3> QED
      BY <3>2, <3>3 DEF Kept, CallInv
  <2> QED
    BY <1>3, <2>1, <2>2 DEF Reject
<1> QED
  BY <1>1, <1>2, <1>3

LEMMA EndEmptyKeeps == ASSUME IInv, NEW c \in Callers, EndEmpty(c) PROVE Kept(c)
<1>1. call[c] = "asking" /\ step[c] = "none" /\ Gone(c) /\ UNCHANGED cause
  BY DEF EndEmpty, In
<1>2. ASSUME NEW why \in Rejections, Failed(c, why) PROVE Kept(c)
  BY <1>1, <1>2, FailedKeeps DEF Rejections, Outcomes
<1>3. CASE /\ Report(c, Slot(c), "ok") /\ Goto(c, "draining") /\ UNCHANGED <<routing, window, breaker, probe, plan>>
           /\ UNCHANGED <<at, held, rekeyed, overdue, heard, hurried>>
  <2> USE DEF IInv, TypeOK, RouterTypeOK, Goto
  <2>1. /\ step' \in [Callers -> Steps] /\ outcome' \in [Callers -> Outcomes]
        /\ step'[c] \in {"none", "push"} /\ \A d \in Callers \ {c} : step'[d] = step[d]
    BY <1>1, <1>3 DEF Report, Steps, Outcomes
  <2>2. Ranges' /\ Apart(c)
    BY <1>1, <1>3, <2>1 DEF Ranges, Apart, Gone, Phases
  <2>3. PlanInv(c)' /\ VoiceInv(c)' /\ ReapInv(c)'
    BY <1>1, <1>3, <2>1 DEF CallInv, PlanInv, VoiceInv, ReapInv, Gone
  <2> QED
    BY <2>2, <2>3 DEF Kept, CallInv
<1> QED
  BY <1>2, <1>3 DEF EndEmpty

LEMMA CloseReturnsKeeps == ASSUME IInv, NEW c \in Callers, CloseReturns(c) PROVE Kept(c)
<1>1. /\ call[c] = "closing" /\ step[c] = "none" /\ at[c] \notin alive[c] \ overdue[c]
      /\ cause' = [cause EXCEPT ![c] = "none"] /\ UNCHANGED <<alive, detached>>
  BY DEF CloseReturns, In
<1>2. CASE cause[c] = "left"
  <2> USE DEF IInv, TypeOK, RouterTypeOK, Goto, routerVars
  <2>1. Ranges' /\ Apart(c)
    BY <1>1, <1>2 DEF CloseReturns, Ranges, Apart, Phases, Causes
  <2>2. PlanInv(c)' /\ VoiceInv(c)' /\ ReapInv(c)'
    BY <1>1, <1>2 DEF CloseReturns, CallInv, PlanInv, VoiceInv, ReapInv
  <2> QED
    BY <2>1, <2>2 DEF Kept, CallInv
<1>3. CASE cause[c] # "left"
  <2>1. cause[c] \in Outcomes \cup Rejections
    BY <1>3 DEF IInv, TypeOK, Causes, Outcomes
  <2> QED
    BY <1>1, <1>3, <2>1, FailedKeeps DEF CloseReturns
<1> QED
  BY <1>2, <1>3

-----------------------------------------------------------------------------
(* The store, and the theorems.                                             *)

\* A round trip changes what its caller does next and, at its claim, the caller's plan.
LEMMA RoundTripKeeps ==
  ASSUME IInv, NEW c \in Callers, RoundTrip(c), UNCHANGED queryVars PROVE Kept(c)
<1> USE DEF IInv, TypeOK, RouterTypeOK, queryVars
<1>1. CASE Claim(c)
  <2>1. PICK p \in Seq(Slots) : plan' = [plan EXCEPT ![c] = p] /\ Len(p) <= 2 /\ Len(p) > 0
    <3>1. PICK p \in {<<"primary", "backup">>, <<"backup", "primary">>} : plan' = [plan EXCEPT ![c] = p]
      BY <1>1 DEF Claim
    <3>2. p \in Seq(Slots) /\ Len(p) <= 2 /\ Len(p) > 0
      BY FirstPlans
    <3> QED
      BY <3>1, <3>2
  <2>2. /\ step[c] = "claim" /\ step' = [step EXCEPT ![c] = "none"]
        /\ probe' \in 0..Cooldown /\ UNCHANGED <<routing, window, breaker, outcome>>
    BY <1>1, RouterAssumption DEF Claim
  <2>3. Ranges'
    BY <2>1, <2>2 DEF Ranges, Steps
  <2>4. Apart(c)
    BY <2>1, <2>2 DEF Apart
  <2>5. PlanInv(c)'
    <3>1. Len(plan'[c]) <= 2 /\ Len(plan'[c]) > 0 /\ step'[c] = "none" /\ call'[c] = "routing" /\ at'[c] = 1 /\ ~rekeyed'[c]
      BY <2>1, <2>2 DEF CallInv, PlanInv
    <3> HIDE DEF IInv, TypeOK, RouterTypeOK, queryVars
    <3> QED
      BY <2>1, <3>1 DEF PlanInv
  <2>6. VoiceInv(c)' /\ ReapInv(c)'
    BY DEF CallInv, VoiceInv, ReapInv
  <2> QED
    BY <2>3, <2>4, <2>5, <2>6 DEF Kept, CallInv
<1>2. ASSUME UNCHANGED <<routing, plan>>, step[c] \notin {"none", "claim"},
             step' \in [Callers -> Steps], step'[c] # "claim",
             \A d \in Callers \ {c} : step'[d] = step[d],
             outcome' \in [Callers -> Outcomes], probe' \in 0..Cooldown, breaker' \in 0..Cooldown,
             window' \in Seq(BOOLEAN), Len(window') <= Window
      PROVE  Kept(c)
  <2>1. Ranges' /\ Apart(c)
    BY <1>2 DEF Ranges, Apart
  <2>2. PlanInv(c)' /\ VoiceInv(c)' /\ ReapInv(c)'
    BY <1>2 DEF CallInv, PlanInv, VoiceInv, ReapInv
  <2> QED
    BY <2>1, <2>2 DEF Kept, CallInv
<1>3. CASE Push(c)
  <2>1. window' \in Seq(BOOLEAN) /\ Len(window') <= Window
    <3>1. window' = Newest(<<outcome[c] \in Bad>> \o window)
      BY <1>3 DEF Push
    <3>2. (outcome[c] \in Bad) \in BOOLEAN
      OBVIOUS
    <3>3. window \in Seq(BOOLEAN)
      OBVIOUS
    <3> HIDE DEF IInv, TypeOK, RouterTypeOK, queryVars
    <3> QED
      BY <3>1, <3>2, <3>3, NewestIsShort
  <2> QED
    BY <1>2, <1>3, <2>1 DEF Push, Proceed, Steps, Outcomes
<1>4. CASE Read(c)
  BY <1>2, <1>4 DEF Read, AfterRead, Proceed, Steps, Outcomes
<1>5. CASE Close(c) \/ Judge(c) \/ Open(c)
  <2>1. /\ UNCHANGED <<routing, window, probe, plan>> /\ step[c] \notin {"none", "claim"}
        /\ breaker' \in {breaker, 0, Cooldown} /\ \E next \in {"clear", "open", "none"} : Proceed(c, next)
    BY <1>5 DEF Close, Judge, Open
  <2>2. breaker' \in 0..Cooldown
    BY <2>1, RouterAssumption
  <2> QED
    BY <1>2, <2>1, <2>2 DEF Proceed, Steps, Outcomes
<1>6. CASE Clear(c)
  <2>1. window' \in Seq(BOOLEAN) /\ Len(window') <= Window
    <3>1. <<>> \in Seq(BOOLEAN) /\ Len(<<>>) = 0 /\ Window \in Nat
      BY RouterAssumption
    <3> QED
      BY <1>6, <3>1 DEF Clear
  <2> QED
    BY <1>2, <1>6, <2>1 DEF Clear, Proceed, Steps, Outcomes
<1> HIDE DEF IInv, TypeOK, RouterTypeOK, queryVars
<1> QED
  BY <1>1, <1>3, <1>4, <1>5, <1>6 DEF RoundTrip

LEMMA WorldKeeps == ASSUME IInv, World, UNCHANGED queryVars PROVE IInv'
<1> USE DEF IInv, TypeOK, RouterTypeOK, queryVars
<1>1. CASE Tick
  <2>1. breaker' \in 0..Cooldown /\ probe' \in 0..Cooldown
    BY <1>1, RouterAssumption DEF Tick
  <2> QED
    BY <1>1, <2>1, OthersKeep DEF Tick
<1>2. CASE SamplesLapse
  <2>1. <<>> \in Seq(BOOLEAN) /\ Len(<<>>) = 0 /\ Window \in Nat
    BY RouterAssumption
  <2> QED
    BY <1>2, <2>1, OthersKeep DEF SamplesLapse
<1>3. CASE Configure
  BY <1>3, OthersKeep DEF Configure
<1> QED
  BY <1>1, <1>2, <1>3 DEF World

LEMMA InitIInv == Init => IInv
<1> SUFFICES ASSUME Init PROVE IInv
  OBVIOUS
<1> USE DEF Init, RouterInit
<1>1. TypeOK
  BY RouterAssumption, FirstPlans
  DEF TypeOK, RouterTypeOK, Steps, Outcomes, Phases, Attempts, Causes
<1>2. \A c \in Callers : CallInv(c)
  BY FirstPlans DEF CallInv, PlanInv, VoiceInv, ReapInv
<1> QED
  BY <1>1, <1>2 DEF IInv

LEMMA NextIInv == ASSUME IInv, [Next]_vars PROVE IInv'
<1>1. ASSUME NEW c \in Callers, Step(c) PROVE IInv'
  <2>1. Kept(c)
    BY <1>1, StartKeeps, AttemptKeeps, HoldKeeps, CommitKeeps, GivingUpKeeps, EndEmptyKeeps, StreamEndsKeeps,
       LeaveKeeps, CloseReturnsKeeps, ReapKeeps, OverrunKeeps, CancelCloseKeeps, ReturnKeeps, GiveUpKeeps DEF Step
  <2> QED
    BY <2>1, KeptSuffices
<1>2. ASSUME NEW c \in Callers, RoundTrip(c), UNCHANGED queryVars PROVE IInv'
  BY <1>2, RoundTripKeeps, KeptSuffices
<1>3. CASE World /\ UNCHANGED queryVars
  BY <1>3, WorldKeeps
<1>4. CASE UNCHANGED vars
  BY <1>4, OthersKeep DEF vars, IInv, TypeOK, RouterTypeOK
<1> QED
  BY <1>1, <1>2, <1>3, <1>4 DEF Next

THEOREM Invariance == Spec => []IInv
<1>1. Init => IInv
  BY InitIInv
<1>2. IInv /\ [Next]_vars => IInv'
  BY NextIInv
<1> QED
  BY <1>1, <1>2, PTL DEF Spec

\* Every variable of the router and of a call stays in its range.
THEOREM TypeCorrect == Spec => []TypeOK
<1>1. IInv => TypeOK
  BY DEF IInv
<1> QED
  BY <1>1, Invariance, PTL

\* A consumer hears one attempt at most, however attempts time out, are rejected, raise or
\* are tried again with another key (module docstring of routed_query).
THEOREM OneVoiceOnly == Spec => []OneVoice
<1>1. IInv => OneVoice
  BY DEF IInv, CallInv, VoiceInv, OneVoice
<1> QED
  BY <1>1, Invariance, PTL

\* A call that took its time to return leaves no attempt alive but those that outlived
\* the whole time of their teardown.
THEOREM NothingLeftBehind == Spec => []AttemptsReaped
<1>1. IInv => AttemptsReaped
  BY DEF IInv, CallInv, ReapInv, AttemptsReaped
<1> QED
  BY <1>1, Invariance, PTL

=============================================================================
