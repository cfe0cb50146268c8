--------------------------- MODULE RunStream_proofs ---------------------------
(***************************************************************************)
(* Proofs about RunStream for every set of connections, every buffer limit  *)
(* and any number of frames.                                                *)
(***************************************************************************)
EXTENDS RunStream, TLAPS

-----------------------------------------------------------------------------
(* The inductive invariant.                                                 *)

\* The frames that fell off the front of the buffer.
Trimmed == produced - Len(events)

\* The buffer holds the newest frames, in order and without a gap.
WindowInv ==
  /\ Trimmed \in Nat
  /\ \A i \in 1..Len(events) : events[i].no = Trimmed + i
  /\ ~truncated => Trimmed = 0

\* What a connection has received lies before the frame its index points at,
\* wherever trimming has moved that frame to.
CursorInv ==
  \A s \in Subscribers : \A i \in 1..Len(got[s]) : got[s][i] <= Trimmed + sent[s]

\* Without trimming an index points into the buffer, or at the frame to come.
IndexInv == ~truncated => \A s \in Subscribers : sent[s] <= produced

\* The status is terminal once the driver is past its stream, and the driver has
\* returned once the done frame is the last one.
SettledInv ==
  /\ driver = "streaming" <=> ~terminal
  /\ driver = "finished" => Last(events).type = "done"

IInv ==
  /\ TypeOK /\ WindowInv /\ CursorInv /\ IndexInv /\ SettledInv
  /\ ReplayInOrder /\ ReplayFromTheStart

-----------------------------------------------------------------------------
\* What append_event does to the buffer: the new frame comes last, and the buffer is as
\* long as before plus one, or the oldest frame is gone.
LEMMA AppendEventKeepsWindow ==
  ASSUME TypeOK, WindowInv, NEW type \in Types, AppendEvent(type)
  PROVE  /\ events' \in Seq([no : Nat, type : Types]) /\ Len(events') <= BufferLimit
         /\ produced' = produced + 1 /\ truncated' \in BOOLEAN
         /\ Last(events').type = type
         /\ WindowInv'
         /\ Trimmed' \in {Trimmed, Trimmed + 1}
         /\ truncated \/ Trimmed' # Trimmed => truncated'
<1> USE LimitAssumption
<1> DEFINE frame == [no |-> produced + 1, type |-> type]
           grown == Append(events, frame)
<1>1. /\ frame \in [no : Nat, type : Types] /\ frame.no = produced + 1
      /\ Len(events) \in Nat /\ produced \in Nat
  BY DEF TypeOK
<1>2. /\ grown \in Seq([no : Nat, type : Types]) /\ Len(grown) = Len(events) + 1
      /\ \A i \in 1..Len(events) : grown[i] = events[i]
      /\ grown[Len(events) + 1] = frame
  BY <1>1 DEF TypeOK
<1>3. \A i \in 1..Len(grown) : grown[i].no = Trimmed + i
  BY <1>1, <1>2 DEF WindowInv, Trimmed
<1> HIDE DEF grown, frame
<1>4. CASE Len(grown) > BufferLimit
  <2>1. events' = Tail(grown) /\ truncated' = TRUE /\ produced' = produced + 1
    BY <1>4 DEF AppendEvent, grown, frame
  <2>2. /\ Tail(grown) \in Seq([no : Nat, type : Types]) /\ Len(Tail(grown)) = Len(events)
        /\ \A i \in 1..Len(events) : Tail(grown)[i] = grown[i + 1]
    BY <1>1, <1>2
  <2>3. Trimmed' = Trimmed + 1
    <3>1. Len(events') = Len(events)
      BY <2>1, <2>2
    <3> QED
      BY <3>1, <2>1, <1>1 DEF Trimmed
  <2>4. \A i \in 1..Len(events') : events'[i].no = Trimmed' + i
    BY <2>1, <2>2, <2>3, <1>1, <1>2, <1>3 DEF WindowInv
  <2>5. Last(events').type = type
    <3>1. Last(events') = grown[Len(events) + 1] /\ Len(events') = Len(events)
      BY <2>1, <2>2, <1>1, LimitAssumption, <1>2, <1>4 DEF Last
    <3> QED
      BY <3>1, <1>2 DEF frame
  <2> QED
    BY <2>1, <2>2, <2>3, <2>4, <2>5, <1>1 DEF TypeOK, WindowInv
<1>5. CASE ~(Len(grown) > BufferLimit)
  <2>1. events' = grown /\ truncated' = truncated /\ produced' = produced + 1
    BY <1>5 DEF AppendEvent, grown, frame, TypeOK
  <2>2. Trimmed' = Trimmed
    BY <2>1, <1>1, <1>2 DEF Trimmed
  <2>3. Last(events').type = type
    BY <2>1, <1>2 DEF Last, frame
  <2> QED
    BY <2>1, <2>2, <2>3, <1>1, <1>2, <1>3, <1>5 DEF TypeOK, WindowInv
<1> QED
  BY <1>4, <1>5

\* The connections, when only the driver moves.
LEMMA DriverStep ==
  ASSUME IInv, NEW type \in Types, AppendEvent(type), UNCHANGED <<subVars, retained>>
  PROVE  WindowInv' /\ CursorInv' /\ IndexInv' /\ ReplayInOrder' /\ ReplayFromTheStart'
<1>1. /\ WindowInv' /\ Trimmed' \in {Trimmed, Trimmed + 1} /\ Trimmed \in Nat
      /\ truncated => truncated'
  BY AppendEventKeepsWindow DEF IInv, WindowInv
<1>2. /\ sent' = sent /\ got' = got /\ stage' = stage
      /\ sent \in [Subscribers -> Nat] /\ got \in [Subscribers -> Seq(Nat)]
  BY DEF subVars, IInv, TypeOK
<1>3. CursorInv'
  BY <1>1, <1>2 DEF IInv, CursorInv
<1>4. IndexInv'
  BY <1>1, <1>2, AppendEventKeepsWindow DEF IInv, TypeOK, IndexInv
<1> QED
  BY <1>1, <1>2, <1>3, <1>4 DEF IInv, ReplayInOrder, ReplayFromTheStart

LEMMA InductiveStep == ASSUME IInv, [Next]_vars PROVE IInv'
<1> USE LimitAssumption, FramesAssumption
<1> USE DEF Types
<1>1. CASE Emit
  <2>1. /\ driver = "streaming" /\ AppendEvent("event")
        /\ UNCHANGED <<driver, terminal, retained, subVars>>
    BY <1>1 DEF Emit
  <2>2. WindowInv' /\ CursorInv' /\ IndexInv' /\ ReplayInOrder' /\ ReplayFromTheStart'
    BY <2>1, DriverStep
  <2>3. TypeOK'
    BY <2>1, AppendEventKeepsWindow DEF IInv, TypeOK, subVars
  <2> QED
    BY <2>1, <2>2, <2>3 DEF IInv, SettledInv
<1>2. CASE Settle
  <2>1. /\ driver = "streaming" /\ driver' = "persisting" /\ terminal' = TRUE
        /\ UNCHANGED <<retained, subVars>>
    BY <1>2 DEF Settle
  <2>2. CASE AppendEvent("terminal")
    <3>1. WindowInv' /\ CursorInv' /\ IndexInv' /\ ReplayInOrder' /\ ReplayFromTheStart'
      BY <2>1, <2>2, DriverStep
    <3>2. TypeOK'
      BY <2>1, <2>2, AppendEventKeepsWindow DEF IInv, TypeOK, subVars
    <3> QED
      BY <2>1, <3>1, <3>2 DEF IInv, TypeOK, SettledInv, subVars
  <2>3. CASE UNCHANGED <<events, produced, truncated>>
    <3>1. TypeOK'
      BY <2>1, <2>3 DEF IInv, TypeOK, subVars
    <3> QED
      BY <2>1, <2>3, <3>1 DEF IInv, TypeOK, WindowInv, Trimmed, CursorInv, IndexInv, SettledInv,
           ReplayInOrder, ReplayFromTheStart, subVars
  <2> QED
    BY <1>2, <2>2, <2>3 DEF Settle
<1>3. CASE Done
  <2>1. /\ driver = "persisting" /\ driver' = "finished"
        /\ AppendEvent("done") /\ UNCHANGED <<terminal, retained, subVars>>
    BY <1>3 DEF Done
  <2>2. WindowInv' /\ CursorInv' /\ IndexInv' /\ ReplayInOrder' /\ ReplayFromTheStart'
    BY <2>1, DriverStep
  <2>3. TypeOK' /\ Last(events').type = "done"
    BY <2>1, AppendEventKeepsWindow DEF IInv, TypeOK, subVars
  <2> QED
    BY <2>1, <2>2, <2>3 DEF IInv, TypeOK, SettledInv
<1>4. CASE Evict
  BY <1>4 DEF Evict, IInv, TypeOK, WindowInv, Trimmed, CursorInv, IndexInv, SettledInv,
       ReplayInOrder, ReplayFromTheStart, subVars
<1>5. ASSUME NEW s \in Subscribers, Subscribe(s) PROVE IInv'
  <2>1. /\ UNCHANGED runVars
        /\ stage' = [stage EXCEPT ![s] = "reading"] /\ sent' = [sent EXCEPT ![s] = 0]
        /\ got' = [got EXCEPT ![s] = <<>>]
    BY <1>5 DEF Subscribe
  <2>2. /\ got'[s] = <<>> /\ Len(got'[s]) = 0 /\ sent'[s] = 0 /\ stage'[s] = "reading"
        /\ \A u \in Subscribers : u # s =>
             got'[u] = got[u] /\ sent'[u] = sent[u] /\ stage'[u] = stage[u]
    BY <2>1 DEF IInv, TypeOK
  <2>3. TypeOK'
    BY <2>1 DEF IInv, TypeOK, runVars
  <2>4. WindowInv' /\ SettledInv' /\ Trimmed' = Trimmed
    BY <2>1, <2>2 DEF IInv, WindowInv, SettledInv, Trimmed, runVars
  <2>5. CursorInv' /\ IndexInv' /\ ReplayInOrder'
    BY <2>1, <2>2, <2>4 DEF IInv, TypeOK, CursorInv, IndexInv, ReplayInOrder, runVars
  <2>6. ReplayFromTheStart'
    <3>1. got'[s] = [i \in 1..sent'[s] |-> i]
      BY <2>2
    <3> QED
      BY <2>1, <2>2, <3>1 DEF IInv, ReplayFromTheStart, runVars
  <2> QED
    BY <2>3, <2>4, <2>5, <2>6 DEF IInv
<1>6. ASSUME NEW s \in Subscribers, Deliver(s) PROVE IInv'
  <2>1. /\ UNCHANGED <<runVars, stage>> /\ stage[s] = "reading" /\ sent[s] < Len(events)
        /\ sent' = [sent EXCEPT ![s] = sent[s] + 1]
        /\ got' = [got EXCEPT ![s] = Append(got[s], events[sent[s] + 1].no)]
    BY <1>6 DEF Deliver
  <2>2. /\ sent[s] \in Nat /\ Len(events) \in Nat /\ Trimmed \in Nat /\ got[s] \in Seq(Nat)
        /\ events[sent[s] + 1].no = Trimmed + sent[s] + 1
        /\ Len(got[s]) \in Nat
    <3>1. /\ sent[s] \in Nat /\ Len(events) \in Nat /\ got[s] \in Seq(Nat)
          /\ Len(got[s]) \in Nat
      BY DEF IInv, TypeOK
    <3>2. Trimmed \in Nat /\ \A i \in 1..Len(events) : events[i].no = Trimmed + i
      BY DEF IInv, WindowInv
    <3>3. sent[s] + 1 \in 1..Len(events)
      BY <2>1, <3>1
    <3> QED
      BY <3>1, <3>2, <3>3
  <2>3. /\ got'[s] \in Seq(Nat) /\ Len(got'[s]) = Len(got[s]) + 1
        /\ \A i \in 1..Len(got[s]) : got'[s][i] = got[s][i]
        /\ got'[s][Len(got[s]) + 1] = Trimmed + sent[s] + 1
        /\ sent'[s] = sent[s] + 1
        /\ \A u \in Subscribers : u # s => got'[u] = got[u] /\ sent'[u] = sent[u]
    BY <2>1, <2>2 DEF IInv, TypeOK
  <2>4. TypeOK'
    BY <2>1, <2>2, <2>3 DEF IInv, TypeOK, runVars
  <2>5. WindowInv' /\ SettledInv' /\ Trimmed' = Trimmed
    BY <2>1 DEF IInv, WindowInv, SettledInv, Trimmed, runVars
  <2>6. CursorInv'
    <3>1. \A u \in Subscribers : u # s =>
             \A i \in 1..Len(got'[u]) : got'[u][i] <= Trimmed' + sent'[u]
      BY <2>3, <2>5 DEF IInv, CursorInv
    <3>2. ASSUME NEW i \in 1..Len(got'[s]) PROVE got'[s][i] <= Trimmed' + sent'[s]
      <4>1. CASE i = Len(got[s]) + 1
        BY <4>1, <2>2, <2>3, <2>5
      <4>2. CASE i \in 1..Len(got[s])
        <5>1. got[s][i] <= Trimmed + sent[s]
          BY <4>2 DEF IInv, CursorInv
        <5>2. got'[s][i] = got[s][i]
          BY <4>2, <2>3
        <5>3. got[s][i] \in Nat
          BY <4>2, <2>2
        <5>4. Trimmed' = Trimmed /\ Trimmed \in Nat /\ sent'[s] = sent[s] + 1 /\ sent[s] \in Nat
          BY <2>2, <2>3, <2>5
        <5> QED
          BY <5>1, <5>2, <5>3, <5>4
      <4> QED
        BY <4>1, <4>2, <2>2, <2>3
    <3> QED
      BY <3>1, <3>2 DEF CursorInv
  <2>7. ReplayInOrder'
    <3>1. ASSUME NEW i \in 1..Len(got[s]) PROVE got[s][i] < Trimmed + sent[s] + 1
      <4>1. got[s][i] <= Trimmed + sent[s] /\ got[s][i] \in Nat
        BY <2>2 DEF IInv, CursorInv
      <4> QED
        BY <4>1, <2>2
    <3>2. ASSUME NEW i \in 1..Len(got'[s]), NEW j \in 1..Len(got'[s]), i < j
          PROVE  got'[s][i] < got'[s][j]
      <4>1. i \in 1..Len(got[s])
        BY <3>2, <2>2, <2>3
      <4>2. CASE j = Len(got[s]) + 1
        BY <4>1, <4>2, <3>1, <2>2, <2>3
      <4>3. CASE j \in 1..Len(got[s])
        BY <4>1, <4>3, <3>2, <2>2, <2>3 DEF IInv, ReplayInOrder
      <4> QED
        BY <4>2, <4>3, <2>2, <2>3
    <3> QED
      BY <2>3, <3>2 DEF IInv, ReplayInOrder
  <2>8. ReplayFromTheStart'
    <3>1. ASSUME ~truncated PROVE got'[s] = [i \in 1..(sent[s] + 1) |-> i]
      <4>1. got[s] = [i \in 1..sent[s] |-> i] /\ Trimmed = 0
        BY <2>1, <3>1 DEF IInv, ReplayFromTheStart, WindowInv
      <4>2. Len(got[s]) = sent[s]
        BY <4>1, <2>2
      <4>3. got'[s] = Append([i \in 1..sent[s] |-> i], sent[s] + 1)
        BY <4>1, <2>1, <2>2 DEF IInv, TypeOK
      <4> QED
        BY <4>3, <2>2
    <3> QED
      BY <2>1, <2>3, <3>1 DEF IInv, ReplayFromTheStart, runVars
  <2>9. IndexInv'
    BY <2>1, <2>2, <2>3 DEF IInv, WindowInv, Trimmed, IndexInv, TypeOK, runVars
  <2> QED
    BY <2>4, <2>5, <2>6, <2>7, <2>8, <2>9 DEF IInv
<1>7. ASSUME NEW s \in Subscribers, Leave(s) \/ Sleep(s) \/ Wake(s) \/ Disconnect(s)
      PROVE  IInv'
  <2>1. /\ UNCHANGED <<runVars, sent, got>> /\ stage[s] \in {"reading", "asleep"}
        /\ \E to \in {"away", "reading", "asleep", "left"} : stage' = [stage EXCEPT ![s] = to]
    BY <1>7 DEF Leave, Sleep, Wake, Disconnect, CaughtUp
  <2>2. TypeOK'
    BY <2>1 DEF IInv, TypeOK, runVars
  <2>3. \A u \in Subscribers : stage'[u] # "away" => stage[u] # "away"
    BY <2>1 DEF IInv, TypeOK
  <2> QED
    BY <2>1, <2>2, <2>3 DEF IInv, WindowInv, Trimmed, CursorInv, IndexInv, SettledInv,
         ReplayInOrder, ReplayFromTheStart, runVars
<1>8. CASE UNCHANGED vars
  BY <1>8 DEF vars, IInv, TypeOK, WindowInv, Trimmed, CursorInv, IndexInv, SettledInv,
       ReplayInOrder, ReplayFromTheStart
<1> QED
  BY <1>1, <1>2, <1>3, <1>4, <1>5, <1>6, <1>7, <1>8 DEF Next, Drive, Follow

LEMMA Inductive == Spec => []IInv
<1>1. ASSUME Init PROVE IInv
  <2>1. /\ Len(events) = 1 /\ events[1].no = 1 /\ produced = 1
        /\ events \in Seq([no : Nat, type : Types])
    BY <1>1 DEF Init, Types
  <2>2. TypeOK
    <3>1. Len(events) <= BufferLimit
      BY <2>1, LimitAssumption
    <3>2. sent \in [Subscribers -> Nat] /\ got \in [Subscribers -> Seq(Nat)]
      BY <1>1 DEF Init
    <3>3. stage \in [Subscribers -> {"away", "reading", "asleep", "left"}]
      BY <1>1 DEF Init
    <3>4. /\ truncated \in BOOLEAN /\ terminal \in BOOLEAN /\ retained \in BOOLEAN
          /\ driver \in {"streaming", "persisting", "finished"}
          /\ produced \in Nat
      BY <1>1 DEF Init
    <3> QED
      BY <2>1, <3>1, <3>2, <3>3, <3>4 DEF TypeOK
  <2>3. WindowInv
    BY <2>1 DEF WindowInv, Trimmed
  <2>4. \A s \in Subscribers : got[s] = <<>> /\ Len(got[s]) = 0 /\ stage[s] = "away"
    BY <1>1 DEF Init
  <2>5. CursorInv /\ ReplayInOrder /\ ReplayFromTheStart /\ IndexInv
    BY <2>1, <2>4, <1>1 DEF CursorInv, IndexInv, ReplayInOrder, ReplayFromTheStart, Init
  <2> QED
    BY <1>1, <2>1, <2>2, <2>3, <2>4, <2>5 DEF Init, IInv, SettledInv
<1>2. IInv /\ [Next]_vars => IInv'
  BY InductiveStep
<1> QED
  BY <1>1, <1>2, PTL DEF Spec

-----------------------------------------------------------------------------
(* Theorems.                                                                *)

\* The buffer never exceeds its limit, and every variable keeps its type.
THEOREM TypeCorrect == Spec => []TypeOK
<1>1. IInv => TypeOK
  BY DEF IInv
<1> QED
  BY <1>1, Inductive, PTL

\* However the buffer is trimmed between two frames of a connection, what it receives
\* grows (the index of subscribe() only ever moves forward over newer frames).
THEOREM OrderedReplay == Spec => []ReplayInOrder
<1>1. IInv => ReplayInOrder
  BY DEF IInv
<1> QED
  BY <1>1, Inductive, PTL

\* A connection to an untrimmed run has the first frames of the run, all of them,
\* however late it came (the buffer is the source of truth).
THEOREM ReplayHasNoGap == Spec => []ReplayFromTheStart
<1>1. IInv => ReplayFromTheStart
  BY DEF IInv
<1> QED
  BY <1>1, Inductive, PTL

\* A connection leaves by one step only.
LEMMA LeavesByLeave ==
  ASSUME TypeOK, [Next]_vars, NEW s \in Subscribers, stage[s] # "left", stage'[s] = "left"
  PROVE  Leave(s)
<1>1. ASSUME NEW u \in Subscribers, u # s, NEW to, stage' = [stage EXCEPT ![u] = to] PROVE FALSE
  BY <1>1 DEF TypeOK
<1>2. ASSUME stage' = stage PROVE FALSE
  BY <1>2
<1>3. ASSUME NEW to, to # "left", stage' = [stage EXCEPT ![s] = to] PROVE FALSE
  BY <1>3 DEF TypeOK
<1>4. ~(Drive \/ Evict \/ UNCHANGED vars)
  BY <1>2 DEF Drive, Emit, Settle, Done, Evict, subVars, vars
<1>5. ASSUME NEW u \in Subscribers, Deliver(u) PROVE FALSE
  BY <1>2, <1>5 DEF Deliver
<1>6. ASSUME NEW u \in Subscribers, Subscribe(u) \/ Sleep(u) \/ Wake(u) \/ Disconnect(u)
      PROVE  FALSE
  <2>1. PICK to \in {"away", "reading", "asleep"} : stage' = [stage EXCEPT ![u] = to]
    BY <1>6 DEF Subscribe, Sleep, Wake, Disconnect
  <2> QED
    BY <2>1, <1>1, <1>3
<1>7. ASSUME NEW u \in Subscribers, u # s, Leave(u) PROVE FALSE
  BY <1>1, <1>7 DEF Leave
<1> QED
  BY <1>4, <1>5, <1>6, <1>7 DEF Next, Follow

\* Who leaves an untrimmed run by itself has every frame the run has produced, after the
\* run's own last one; only the done frame can still be to come, and only while the
\* driver persists the outcome.
THEOREM LeaversAreUpToDate == Spec => LeavesUpToDate
<1>1. ASSUME IInv, [Next]_vars, NEW s \in Subscribers,
             stage[s] # "left", stage'[s] = "left", ~truncated
      PROVE  /\ driver # "streaming"
             /\ got[s] = [i \in 1..produced |-> i]
             /\ driver = "finished" => Last(events).type = "done"
  <2>1. stage[s] = "reading" /\ sent[s] >= Len(events) /\ terminal
    BY <1>1, LeavesByLeave DEF IInv, Leave, CaughtUp
  <2>2. Len(events) = produced /\ got[s] = [i \in 1..sent[s] |-> i]
    BY <1>1, <2>1 DEF IInv, TypeOK, WindowInv, Trimmed, ReplayFromTheStart
  <2>3. sent[s] <= produced
    BY <1>1 DEF IInv, IndexInv
  <2> QED
    BY <1>1, <2>1, <2>2, <2>3 DEF IInv, TypeOK, SettledInv
<1>2. ASSUME IInv, [Next]_vars
      PROVE  [\A s \in Subscribers : stage[s] # "left" /\ stage'[s] = "left" /\ ~truncated =>
                /\ driver # "streaming"
                /\ got[s] = [i \in 1..produced |-> i]
                /\ driver = "finished" => Last(events).type = "done"]_vars
  BY <1>1, <1>2
<1> QED
  BY <1>2, Inductive, PTL DEF Spec, LeavesUpToDate

=============================================================================
