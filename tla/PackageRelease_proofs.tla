------------------------ MODULE PackageRelease_proofs ------------------------
(***************************************************************************)
(* Proofs about PackagePlan, PackageRepository and their composition,       *)
(* PackageRelease, for any inputs, kinds of file, components, writers,       *)
(* searches and number of mishaps.                                          *)
(***************************************************************************)
EXTENDS PackageRelease, TLAPS

-----------------------------------------------------------------------------
(* The plan by itself, for every set of inputs, components and kinds of     *)
(* file.                                                                    *)

\* What was confirmed is what the user said, with a version for each component.
ConfirmedInv ==
  step \in {"confirmed", "built"} =>
    /\ Acceptable(draft, answer)
    /\ plan = [i \in Inputs |-> [c \in Components |->
                 IF c \in answer[i].keys THEN VersionOf(draft[i]) ELSE Absent]]

IInv == PlanTypeOK /\ ConfirmedInv /\ BuiltAsConfirmed

-----------------------------------------------------------------------------
(* The plan and the answers.                                                *)

\* A version is one of three and never the value that stands for none.
LEMMA VersionsAreReal == \A f \in Files : VersionOf(f) \in Versions /\ VersionOf(f) # Absent
  BY PlanAssumption DEF VersionOf, Versions

\* confirm_plan chooses, for each input, the components the user named.
LEMMA ChosenAreNamed ==
  ASSUME PlanTypeOK, ConfirmedInv, step \in {"confirmed", "built"}
  PROVE  \A i \in Inputs : Chosen(i) = answer[i].keys
<1> SUFFICES ASSUME NEW i \in Inputs PROVE Chosen(i) = answer[i].keys
  OBVIOUS
<1>1. answer[i].keys \subseteq Components
  BY DEF PlanTypeOK, Answers
<1>2. draft[i] \in Files
  BY DEF PlanTypeOK
<1>3. \A c \in Components : plan[i][c] # Absent <=> c \in answer[i].keys
  BY <1>2, VersionsAreReal DEF ConfirmedInv
<1> QED
  BY <1>1, <1>3 DEF Chosen

\* Whatever the card offers of a file is something the builder will take from it.
LEMMA OffersAreAdmitted ==
  ASSUME NEW f \in Files, f.sound, NEW S \in Options(f), NEW c \in S
  PROVE  Admits(f, c)
<1>1. c \in Offered(f)
  BY DEF Options, Suggested
<1> QED
  BY <1>1 DEF Offered, Admits

\* The options of the card are accepted by confirm_plan in every state.
LEMMA OptionsHold == ASSUME PlanTypeOK PROVE OptionsAreAcceptable
<1> SUFFICES ASSUME NEW i \in Inputs, draft[i].sound, NEW S \in Options(draft[i]), S # {}
             PROVE  Acceptable(draft, [j \in Inputs |->
                      IF j = i THEN [keys |-> S, exclude |-> FALSE] ELSE NoAnswer])
  BY DEF OptionsAreAcceptable
<1> DEFINE a == [j \in Inputs |-> IF j = i THEN [keys |-> S, exclude |-> FALSE] ELSE NoAnswer]
<1>1. draft[i] \in Files
  BY DEF PlanTypeOK
<1>2. /\ a[i].keys = S /\ ~a[i].exclude
      /\ \A j \in Inputs : j # i => a[j].keys = {}
  BY DEF NoAnswer
<1>3. \A j \in Inputs : a[j].exclude => a[j].keys = {}
  BY <1>2
<1>4. \A j \in Inputs : \A c \in a[j].keys : Admits(draft[j], c)
  BY <1>1, <1>2, OffersAreAdmitted
<1>5. OneSourceEach([j \in Inputs |-> a[j].keys])
  BY <1>2 DEF OneSourceEach
<1> HIDE DEF a
<1>6. Acceptable(draft, a)
  BY <1>3, <1>4, <1>5 DEF Acceptable
<1> QED
  BY <1>6 DEF a

\* What was confirmed passes validate_confirmed_plan.
LEMMA ConfirmedIsValid ==
  ASSUME PlanTypeOK, ConfirmedInv
  PROVE  ConfirmedStaysValid
<1> SUFFICES ASSUME step = "confirmed", kit = draft PROVE Valid
  BY DEF ConfirmedStaysValid
<1>1. \A i \in Inputs : Chosen(i) = answer[i].keys
  BY ChosenAreNamed
<1>2. \A i \in Inputs : \A c \in Chosen(i) : Admits(kit[i], c)
  BY <1>1 DEF ConfirmedInv, Acceptable
<1>3. ASSUME NEW i \in Inputs, NEW c \in Chosen(i), kit[i].package
      PROVE  plan[i][c] = "declared"
  <2>1. c \in Components /\ c \in answer[i].keys
    BY <1>1, <1>3 DEF Chosen
  <2> QED
    BY <2>1, <1>3 DEF ConfirmedInv, VersionOf
<1>4. OneSourceEach([i \in Inputs |-> Chosen(i)])
  <2>1. [i \in Inputs |-> Chosen(i)] = [i \in Inputs |-> answer[i].keys]
    BY <1>1
  <2> QED
    BY <2>1 DEF ConfirmedInv, Acceptable
<1> QED
  BY <1>2, <1>3, <1>4 DEF Valid

-----------------------------------------------------------------------------
(* The build.                                                               *)

\* The builder opens the files the card was drawn for.
LEMMA BuildIsCurrent == ASSUME Build PROVE kit = draft
  BY DEF Build, Current

\* A component that is planned for an input is taken from there: no other input has
\* it, exactly one member matches, and it is the payload if the input is a package.
LEMMA BuildTakesPlanned ==
  ASSUME IInv, Build, NEW i \in Inputs, NEW c \in Chosen(i)
  PROVE  /\ c \in Components /\ c \in answer[i].keys /\ ~answer[i].exclude
         /\ plan[i][c] = VersionOf(kit[i])
         /\ Admits(kit[i], c)
         /\ \A j \in Inputs : c \in Chosen(j) => j = i
         /\ \E m \in Members \cup {"whole"} :
              /\ Yields(kit[i], c, m)
              /\ Payload(i, c) = [from |-> i, file |-> kit[i], member |-> m, version |-> plan[i][c]]
<1>1. c \in Components /\ c \in answer[i].keys
  BY ChosenAreNamed DEF IInv, Build, Chosen
<1>2. ~answer[i].exclude /\ plan[i][c] = VersionOf(kit[i]) /\ Admits(kit[i], c)
  BY <1>1, BuildIsCurrent DEF IInv, Build, ConfirmedInv, Acceptable
<1>3. \A j \in Inputs : c \in Chosen(j) => j = i
  <2>1. \A j \in Inputs : j # i => Chosen(i) \cap Chosen(j) = {}
    BY DEF Build, Valid, OneSourceEach
  <2> QED
    BY <2>1
<1>4. PICK m \in Members \cup {"whole"} : Yields(kit[i], c, m)
  BY DEF Build
<1>5. (CHOOSE n \in Sources(kit[i], c) : TRUE) = m
  BY <1>4 DEF Yields
<1> QED
  BY <1>1, <1>2, <1>3, <1>4, <1>5 DEF Payload

\* What the build puts in is a payload, and of a component nobody planned nothing.
LEMMA BuildArtifact ==
  ASSUME IInv, Build, NEW c \in Components
  PROVE  \/ /\ \A i \in Inputs : c \notin Chosen(i)
            /\ artifact'[c] = Absent
         \/ \E i \in Inputs :
              /\ c \in Chosen(i)
              /\ artifact'[c] = Payload(i, c)
              /\ artifact'[c] \in Payloads
<1>1. CASE \A i \in Inputs : c \notin Chosen(i)
  BY <1>1 DEF Build
<1>2. CASE \E i \in Inputs : c \in Chosen(i)
  <2> DEFINE i == CHOOSE j \in Inputs : c \in Chosen(j)
  <2>1. i \in Inputs /\ c \in Chosen(i)
    BY <1>2
  <2>2. artifact'[c] = Payload(i, c)
    BY <1>2 DEF Build
  <2> HIDE DEF i
  <2>3. VersionOf(kit[i]) \in Versions /\ kit[i] \in Files
    BY <2>1, VersionsAreReal DEF IInv, PlanTypeOK
  <2>4. Payload(i, c) \in Payloads
    BY <2>1, <2>3, BuildTakesPlanned DEF Payloads
  <2> QED
    BY <2>1, <2>2, <2>4
<1> QED
  BY <1>1, <1>2

\* The builder's checks, the confirmed plan and the members found make the package
\* the user asked for.
LEMMA BuildDelivers ==
  ASSUME IInv, Build
  PROVE  BuiltAsConfirmed'
<1> SUFFICES ASSUME NEW c \in Components
             PROVE  /\ artifact'[c] = Absent <=> \A i \in Inputs : c \notin answer[i].keys
                    /\ artifact'[c] # Absent =>
                         LET f == draft[artifact'[c].from] IN
                         /\ artifact'[c].file = f
                         /\ c \in answer[artifact'[c].from].keys
                         /\ ~answer[artifact'[c].from].exclude
                         /\ c \in Publishable
                         /\ c \in Matched => f.matches[c] = {artifact'[c].member}
                         /\ f.package => /\ c = f.single /\ c \in Extractable
                                         /\ artifact'[c].member = "payload"
                                         /\ artifact'[c].version = "declared"
  BY DEF BuiltAsConfirmed, Build
<1>0. \A i \in Inputs : Chosen(i) = answer[i].keys
  BY ChosenAreNamed DEF IInv, Build
<1>1. CASE \A i \in Inputs : c \notin Chosen(i)
  BY <1>0, <1>1, BuildArtifact
<1>2. CASE \E i \in Inputs : c \in Chosen(i)
  <2>1. PICK i \in Inputs : c \in Chosen(i) /\ artifact'[c] = Payload(i, c)
                            /\ artifact'[c] \in Payloads
    BY <1>2, BuildArtifact
  <2>2. artifact'[c] # Absent
    BY <2>1, PlanAssumption
  <2>3. PICK m \in Members \cup {"whole"} :
           Yields(kit[i], c, m) /\ artifact'[c] = [from |-> i, file |-> kit[i], member |-> m, version |-> plan[i][c]]
    BY <2>1, BuildTakesPlanned
  <2>4. /\ artifact'[c].from = i /\ artifact'[c].file = draft[i]
        /\ artifact'[c].member = m /\ artifact'[c].version = plan[i][c]
    BY <2>3, BuildIsCurrent
  <2>5. c \in answer[i].keys /\ ~answer[i].exclude /\ Admits(draft[i], c)
        /\ plan[i][c] = VersionOf(draft[i])
    BY <2>1, BuildTakesPlanned, BuildIsCurrent
  <2>6. c \in Matched => draft[i].matches[c] = {m}
    BY <2>3, BuildIsCurrent DEF Yields, Sources
  <2>7. draft[i].package => c = draft[i].single /\ c \in Extractable /\ m = "payload"
                          /\ plan[i][c] = "declared"
    BY <2>3, <2>5, BuildIsCurrent DEF Yields, Admits, Opens, VersionOf
  <2> QED
    BY <1>0, <2>1, <2>2, <2>4, <2>5, <2>6, <2>7 DEF Admits
<1> QED
  BY <1>1, <1>2

-----------------------------------------------------------------------------
(* The invariant.                                                           *)

LEMMA PlanStarts == PlanInit => IInv
<1> SUFFICES ASSUME PlanInit PROVE IInv
  OBVIOUS
<1>1. PlanTypeOK
  BY DEF PlanInit, PlanTypeOK, Steps, Answers, NoAnswer, Unplanned
<1>2. ConfirmedInv /\ BuiltAsConfirmed
  BY DEF PlanInit, ConfirmedInv, BuiltAsConfirmed
<1> QED
  BY <1>1, <1>2 DEF IInv

LEMMA PlanInductive == IInv /\ [PlanNext]_planVars => IInv'
<1> SUFFICES ASSUME IInv, [PlanNext]_planVars PROVE IInv'
  OBVIOUS
<1> USE DEF IInv
<1>1. CASE Classify
  BY <1>1 DEF Classify, PlanTypeOK, ConfirmedInv, BuiltAsConfirmed, Steps
<1>2. CASE ClassifyFails
  BY <1>2 DEF ClassifyFails, PlanTypeOK, ConfirmedInv, BuiltAsConfirmed, Steps
<1>3. ASSUME NEW a \in [Inputs -> Answers], Answer(a) PROVE IInv'
  BY <1>3 DEF Answer, PlanTypeOK, ConfirmedInv, BuiltAsConfirmed, Steps
<1>4. CASE Confirm
  <2>1. PlanTypeOK'
    <3>1. \A i \in Inputs : draft[i] \in Files
      BY DEF PlanTypeOK
    <3>2. plan' \in [Inputs -> [Components -> Versions \cup {Absent}]]
      BY <1>4, <3>1, VersionsAreReal DEF Confirm
    <3> QED
      BY <1>4, <3>2 DEF Confirm, PlanTypeOK, Steps
  <2>2. ConfirmedInv'
    BY <1>4 DEF Confirm, Current, ConfirmedInv, Acceptable
  <2>3. BuiltAsConfirmed'
    BY <1>4 DEF Confirm, BuiltAsConfirmed
  <2> QED
    BY <2>1, <2>2, <2>3
<1>5. CASE Refuse
  BY <1>5 DEF Refuse, PlanTypeOK, ConfirmedInv, BuiltAsConfirmed, Steps
<1>6. CASE Build
  <2>1. artifact' \in [Components -> Payloads \cup {Absent}]
    <3>1. \A c \in Components : artifact'[c] \in Payloads \cup {Absent}
      BY <1>6, BuildArtifact
    <3>2. artifact' = [c \in Components |-> artifact'[c]]
      BY <1>6 DEF Build
    <3> QED
      BY <3>1, <3>2
  <2>2. PlanTypeOK'
    BY <1>6, <2>1 DEF Build, PlanTypeOK, Steps
  <2>3. ConfirmedInv'
    BY <1>6 DEF Build, ConfirmedInv, Acceptable
  <2> QED
    BY <1>6, <2>2, <2>3, BuildDelivers
<1>7. CASE BuildFails
  BY <1>7 DEF BuildFails, PlanTypeOK, ConfirmedInv, BuiltAsConfirmed, Steps
<1>8. CASE Outdate
  BY <1>8 DEF Outdate, PlanTypeOK, ConfirmedInv, BuiltAsConfirmed, Acceptable
<1>9. CASE UNCHANGED planVars
  <2>1. PlanTypeOK'
    BY <1>9 DEF planVars, PlanTypeOK
  <2>2. ConfirmedInv'
    BY <1>9 DEF planVars, ConfirmedInv, Acceptable
  <2>3. BuiltAsConfirmed'
    BY <1>9 DEF planVars, BuiltAsConfirmed
  <2> QED
    BY <2>1, <2>2, <2>3
<1> QED
  BY <1>1, <1>2, <1>3, <1>4, <1>5, <1>6, <1>7, <1>8, <1>9 DEF PlanNext

LEMMA PlanInvariant == PlanSpec => []IInv
  BY PlanStarts, PlanInductive, PTL DEF PlanSpec

-----------------------------------------------------------------------------
(* The theorems.                                                            *)

\* Type correctness: the payloads of a package come from uploaded files, with a version.
THEOREM PlanTypeCorrect == PlanSpec => []PlanTypeOK
<1>1. IInv => PlanTypeOK
  BY DEF IInv
<1> QED
  BY <1>1, PlanInvariant, PTL

\* What the card offers is accepted, what was confirmed is still valid when it is built,
\* and what is built is what was confirmed, from the files as they were confirmed, and of
\* a whole package no more than the payload of its one component.
THEOREM PlanKeepsPromises == PlanSpec => []PlanKeepsItsWord
<1>1. IInv => PlanKeepsItsWord
  BY OptionsHold, ConfirmedIsValid DEF IInv, PlanKeepsItsWord
<1> QED
  BY <1>1, PlanInvariant, PTL

-----------------------------------------------------------------------------
(* The inductive invariant of the repository.  EntriesAreHonest and         *)
(* AnswersAreTrue rest on who may be writing where while the lock is free.  *)

\* Whoever has begun writes to the common path or to the one of its own name, and
\* a file of its bytes is nowhere else.
PlaceInv ==
  \A w \in Writers :
    /\ stage[w] # "idle" => path[w] \in {Name, w}
    /\ \A p \in Paths : bytes[p] = w => stage[w] # "idle" /\ path[w] = p

\* A path that was not deleted under an upload belongs to the one who is under way
\* there, and has its marker until the file is complete and closed.
WriteInv ==
  \A w \in Writers :
    stage[w] \in Underway /\ path[w] \notin robbed =>
      /\ bytes[path[w]] = w
      /\ path[w] \in marker <=> stage[w] # "closing"
      /\ stage[w] \in {"closing", "registering"} => path[w] \in whole

\* A file without a marker is complete, and what has an entry has no marker.
FileInv ==
  \A p \in Paths \ robbed :
    /\ Exists(p) /\ p \notin marker => p \in whole
    /\ index[p] # None /\ p \notin stale =>
         p \notin marker /\ p \in whole /\ index[p].sha = bytes[p]

\* Threads that work in several steps hold the lock, so that nobody changes the index
\* between them.
LockInv ==
  /\ \A w \in Writers : stage[w] \in BuildStages => lock = w
  /\ \A s \in Searches : search[s] = "pruning" => lock = s /\ loaded[s] = index

RepoInv == RepoTypeOK /\ PlaceInv /\ WriteInv /\ FileInv /\ LockInv /\ AnswersAreTrue

USE DEF Unlocked

-----------------------------------------------------------------------------
(* Facts of every state.                                                    *)

LEMMA Disjoint ==
  /\ \A w \in Writers : w # None /\ w # Name /\ w # Torn /\ w \in Paths
  /\ Name \in Paths /\ None \notin Entries
  /\ \A b \in Builds : b \in Writers /\ b \notin Uploads /\ b \notin Searches
  /\ \A w \in Uploads : w \in Writers /\ w \notin Builds /\ w \notin Searches
  /\ \A s \in Searches : s # None /\ s \notin Writers
  BY RepositoryAssumption DEF Writers, Paths

\* A writer's path is one of the repository.
LEMMA PathIsPath ==
  ASSUME RepoInv, NEW w \in Writers, stage[w] # "idle"
  PROVE  path[w] \in Paths /\ path[w] \in {Name, w}
  BY Disjoint DEF RepoInv, PlaceInv

\* Two who are under way at a path are one, unless the path was deleted under one.
LEMMA AloneOnPath ==
  ASSUME RepoInv, NEW v \in Writers, NEW w \in Writers, stage[v] \in Underway,
         stage[w] \in Underway, path[v] = path[w], path[v] \notin robbed
  PROVE  v = w
  BY DEF RepoInv, WriteInv

\* Nobody who was told that its package is stored shares a path with one under way.
LEMMA AcceptedIsElsewhere ==
  ASSUME RepoInv, NEW v \in Writers, NEW w \in Writers, stage[v] \in Underway,
         stage[w] = "accepted", w \notin deleted, path[w] \notin robbed
  PROVE  path[v] # path[w]
  BY DEF RepoInv, WriteInv, AnswersAreTrue, Underway, UploadStages, BuildStages

-----------------------------------------------------------------------------
(* The writers' steps.                                                      *)

\* _unique_upload_path: nobody's file and nobody's entry is at the path it returns.
LEMMA ReserveKeeps ==
  ASSUME RepoInv, NEW w \in Writers, stage[w] = "idle", Unlocked, Reserve(w),
         NEW st \in {"writing", "copying"}, NEW l \in {None, w},
         st = "copying" => l = w /\ w \in Builds, st = "writing" => l = None,
         stage' = [stage EXCEPT ![w] = st], lock' = l,
         UNCHANGED <<index, searching, history>>
  PROVE  RepoInv'
<1> DEFINE p == FreePath(w)
<1>1. p \in Paths /\ p \in {Name, w} /\ ~Exists(p)
  BY Disjoint DEF FreePath, Exists, RepoInv, PlaceInv, RepoTypeOK
<1>2. /\ path' = [path EXCEPT ![w] = p] /\ bytes' = [bytes EXCEPT ![p] = w]
      /\ whole' = whole \ {p} /\ marker' = marker \cup {p}
  BY DEF Reserve
<1>3. \A v \in Writers : stage[v] \in Underway /\ path[v] = p => p \in robbed
  BY <1>1, Disjoint DEF RepoInv, WriteInv, Exists
<1>4. p \notin robbed /\ p \notin stale => index[p] = None
  BY <1>1 DEF RepoInv, FileInv, RepoTypeOK, Exists
<1> HIDE DEF p
<1> USE DEF searching, history
<1>5. RepoTypeOK'
  <2>1. lock' \in Builds \cup Searches \cup {None}
    BY DEF RepoInv, RepoTypeOK
  <2>2. stage' \in [Writers -> Underway \cup {"idle", "accepted", "refused", "gone"}]
    BY DEF RepoInv, RepoTypeOK, Underway, UploadStages, BuildStages
  <2>3. bytes' \in [Paths -> Writers \cup {None}] /\ whole' \subseteq Paths
        /\ \A q \in whole' : bytes'[q] # None
    BY <1>1, <1>2 DEF RepoInv, RepoTypeOK
  <2> QED
    BY <1>1, <1>2, <2>1, <2>2, <2>3 DEF RepoInv, RepoTypeOK
<1>6. PlaceInv'
  BY <1>1, <1>2 DEF RepoInv, RepoTypeOK, PlaceInv
<1>7. WriteInv'
  <2>1. ASSUME NEW v \in Writers, stage'[v] \in Underway, path'[v] \notin robbed'
        PROVE  /\ bytes'[path'[v]] = v
               /\ path'[v] \in marker' <=> stage'[v] # "closing"
               /\ stage'[v] \in {"closing", "registering"} => path'[v] \in whole'
    <3>1. CASE v = w
      BY <1>1, <1>2, <3>1 DEF RepoInv, RepoTypeOK
    <3>2. CASE v # w
      BY <1>1, <1>2, <1>3, <2>1, <3>2 DEF RepoInv, RepoTypeOK, WriteInv
    <3> QED
      BY <3>1, <3>2
  <2> QED
    BY <2>1 DEF WriteInv
<1>8. FileInv'
  BY <1>1, <1>2, <1>4 DEF RepoInv, RepoTypeOK, FileInv, Exists
<1>9. LockInv'
  BY Disjoint DEF RepoInv, RepoTypeOK, LockInv, BuildStages
<1>10. AnswersAreTrue'
  BY <1>1, <1>2 DEF RepoInv, RepoTypeOK, PlaceInv, AnswersAreTrue, Exists
<1> QED
  BY <1>5, <1>6, <1>7, <1>8, <1>9, <1>10 DEF RepoInv

\* A writer that gives up while its marker is there takes its own file away.
LEMMA GiveUpKeeps ==
  ASSUME RepoInv, NEW w \in Writers, stage[w] \in {"writing", "copying", "registering"},
         Unlink(path[w]), marker' = marker \ {path[w]},
         stage' = [stage EXCEPT ![w] = "refused"],
         \/ stage[w] = "writing" /\ lock' = lock
         \/ stage[w] \in BuildStages /\ lock' = None,
         UNCHANGED <<path, index, searching, history>>
  PROVE  RepoInv'
<1> DEFINE p == path[w]
<1>1. p \in Paths /\ stage[w] \in Underway
  BY PathIsPath DEF Underway, UploadStages, BuildStages
<1>2. bytes' = [bytes EXCEPT ![p] = None] /\ whole' = whole \ {p}
  BY DEF Unlink
<1>3. p \notin robbed => p \in marker
  BY <1>1 DEF RepoInv, WriteInv
<1>4. \A v \in Writers : v # w /\ stage[v] \in Underway /\ path[v] = p => p \in robbed
  BY <1>1, AloneOnPath
<1>5. \A v \in Writers :
        stage[v] = "accepted" /\ v \notin deleted /\ path[v] \notin robbed => path[v] # p
  BY <1>1, AcceptedIsElsewhere
<1> HIDE DEF p
<1> USE DEF searching, history
<1>6. RepoTypeOK'
  BY <1>1, <1>2 DEF RepoInv, RepoTypeOK, p
<1>7. PlaceInv'
  BY <1>1, <1>2, Disjoint DEF RepoInv, RepoTypeOK, PlaceInv
<1>8. WriteInv'
  BY <1>1, <1>2, <1>4 DEF RepoInv, RepoTypeOK, WriteInv, Underway, UploadStages, BuildStages, p
<1>9. FileInv'
  BY <1>1, <1>2, <1>3 DEF RepoInv, RepoTypeOK, FileInv, Exists, p
<1>10. LockInv'
  BY Disjoint DEF RepoInv, RepoTypeOK, LockInv, BuildStages
<1>11. AnswersAreTrue'
  <2>1. ASSUME NEW v \in Writers, stage'[v] = "accepted", v \notin deleted', path'[v] \notin robbed'
        PROVE  /\ bytes'[path'[v]] = v /\ path'[v] \in whole'
               /\ v \notin forgotten' => index'[path'[v]] # None /\ index'[path'[v]].sha = v
    <3>1. stage[v] = "accepted" /\ path[v] # p /\ path[v] \in Paths
      BY <1>5, <2>1, PathIsPath DEF RepoInv, RepoTypeOK
    <3> QED
      BY <1>1, <1>2, <2>1, <3>1 DEF RepoInv, RepoTypeOK, AnswersAreTrue
  <2>2. \A v \in Writers : stage'[v] = "refused" /\ v \notin Batches =>
          \A q \in Paths : bytes'[q] # v
    <3>1. \A q \in Paths : bytes'[q] # w
      BY <1>1, <1>2, Disjoint DEF RepoInv, RepoTypeOK, PlaceInv, p
    <3> QED
      BY <1>1, <1>2, <3>1, Disjoint DEF RepoInv, RepoTypeOK, AnswersAreTrue
  <2> QED
    BY <2>1, <2>2 DEF AnswersAreTrue, RepoInv
<1> QED
  BY <1>6, <1>7, <1>8, <1>9, <1>10, <1>11 DEF RepoInv

\* The last chunk: the file is whole unless somebody deleted it meanwhile.
LEMMA WrittenKeeps ==
  ASSUME RepoInv, NEW w \in Writers, Written(w)
  PROVE  RepoInv'
<1> DEFINE p == path[w]
<1>1. p \in Paths /\ stage[w] \in Underway
  BY PathIsPath DEF Written, Underway, UploadStages
<1>2. \A v \in Writers : v # w /\ stage[v] \in Underway /\ path[v] = p => p \in robbed
  BY <1>1, AloneOnPath
<1>3. p \notin robbed => bytes[p] = w /\ p \in marker
  BY <1>1 DEF RepoInv, WriteInv, Written
<1>4. whole' \in SUBSET Paths /\ whole \subseteq whole' /\ whole' \subseteq whole \cup {p}
      /\ (p \in whole' => p \in whole \/ bytes[p] = w) /\ (bytes[p] = w => p \in whole')
  BY <1>1 DEF Written, RepoInv, RepoTypeOK
<1>5. /\ stage' = [stage EXCEPT ![w] = "closing"] /\ marker' = marker \ {p}
      /\ UNCHANGED <<path, bytes, index, lock, search, loaded, deleted, stale, robbed, forgotten, edits, mishaps>>
  BY DEF Written, searching, history
<1> HIDE DEF p
<1>6. RepoTypeOK'
  BY <1>1, <1>4, <1>5, Disjoint DEF RepoInv, RepoTypeOK, Underway, UploadStages
<1>7. PlaceInv'
  BY <1>1, <1>5 DEF RepoInv, RepoTypeOK, PlaceInv, Underway, UploadStages, BuildStages
<1>8. WriteInv'
  BY <1>1, <1>2, <1>3, <1>4, <1>5 DEF RepoInv, RepoTypeOK, WriteInv, p
<1>9. FileInv'
  BY <1>1, <1>3, <1>4, <1>5 DEF RepoInv, RepoTypeOK, FileInv, Exists
<1>10. LockInv'
  BY <1>5 DEF RepoInv, RepoTypeOK, LockInv, BuildStages
<1>11. AnswersAreTrue'
  BY <1>4, <1>5 DEF RepoInv, RepoTypeOK, AnswersAreTrue
<1> QED
  BY <1>6, <1>7, <1>8, <1>9, <1>10, <1>11 DEF RepoInv

\* The copy takes the place of the file that was reserved for it.
LEMMA CopiedKeeps ==
  ASSUME RepoInv, NEW b \in Builds, Copied(b)
  PROVE  RepoInv'
<1> DEFINE p == path[b]
<1>1. p \in Paths /\ stage[b] \in Underway /\ b \in Writers
  BY PathIsPath, Disjoint DEF Copied, Underway, BuildStages
<1>2. \A v \in Writers : v # b /\ stage[v] \in Underway /\ path[v] = p => p \in robbed
  BY <1>1, AloneOnPath
<1>3. p \notin robbed => bytes[p] = b /\ p \in marker
  BY <1>1 DEF RepoInv, WriteInv, Copied
<1>4. \A v \in Writers :
        stage[v] = "accepted" /\ v \notin deleted /\ path[v] \notin robbed => path[v] # p
  BY <1>1, AcceptedIsElsewhere
<1>5. /\ stage' = [stage EXCEPT ![b] = "registering"]
      /\ bytes' = [bytes EXCEPT ![p] = b] /\ whole' = whole \cup {p}
      /\ UNCHANGED <<path, marker, index, lock, search, loaded, deleted, stale, robbed, forgotten, edits, mishaps>>
  BY DEF Copied, searching, history
<1> HIDE DEF p
<1>6. RepoTypeOK'
  BY <1>1, <1>5, Disjoint DEF RepoInv, RepoTypeOK, Underway, BuildStages
<1>7. PlaceInv'
  BY <1>1, <1>5 DEF RepoInv, RepoTypeOK, PlaceInv, Copied, p
<1>8. WriteInv'
  BY <1>1, <1>2, <1>3, <1>5 DEF RepoInv, RepoTypeOK, WriteInv, p
<1>9. FileInv'
  BY <1>1, <1>3, <1>5 DEF RepoInv, RepoTypeOK, FileInv, Exists
<1>10. LockInv'
  BY <1>5, Disjoint DEF RepoInv, RepoTypeOK, LockInv, BuildStages, Copied
<1>11. AnswersAreTrue'
  <2>1. ASSUME NEW v \in Writers, stage'[v] = "accepted", v \notin deleted', path'[v] \notin robbed'
        PROVE  /\ bytes'[path'[v]] = v /\ path'[v] \in whole'
               /\ v \notin forgotten' => index'[path'[v]] # None /\ index'[path'[v]].sha = v
    <3>1. stage[v] = "accepted" /\ path[v] # p /\ path[v] \in Paths
      BY <1>4, <1>5, <2>1, PathIsPath DEF RepoInv, RepoTypeOK
    <3> QED
      BY <1>1, <1>5, <2>1, <3>1 DEF RepoInv, RepoTypeOK, AnswersAreTrue
  <2>2. \A v \in Writers : stage'[v] = "refused" /\ v \notin Batches =>
          \A q \in Paths : bytes'[q] # v
    BY <1>1, <1>5 DEF RepoInv, RepoTypeOK, AnswersAreTrue, Copied
  <2>3. \A q \in edits' : index'[q] # None /\ index'[q].edited
    BY <1>5 DEF RepoInv, AnswersAreTrue
  <2> QED
    BY <2>1, <2>2, <2>3 DEF AnswersAreTrue
<1> QED
  BY <1>6, <1>7, <1>8, <1>9, <1>10, <1>11 DEF RepoInv

\* add_or_update_package: what a writer that is whole registers at its path is true
\* unless the path was deleted meanwhile; no other entry is changed, or all are lost.
LEMMA EnterKeeps ==
  ASSUME RepoInv, NEW w \in Writers, Enter(w),
         \/ stage[w] = "closing" /\ lock = None /\ UNCHANGED <<marker, lock>>
         \/ stage[w] = "registering" /\ marker' = marker \ {path[w]} /\ lock' = None
  PROVE  RepoInv'
<1> DEFINE p == path[w]
<1>1. p \in Paths /\ stage[w] \in Underway
  BY PathIsPath DEF Underway, UploadStages, BuildStages
<1>2. \A v \in Writers : v # w /\ stage[v] \in Underway /\ path[v] = p => p \in robbed
  BY <1>1, AloneOnPath
<1>3. p \notin robbed => bytes[p] = w /\ p \in whole /\ p \notin marker'
  BY <1>1 DEF RepoInv, WriteInv
<1>4. \A v \in Writers :
        stage[v] = "accepted" /\ v \notin deleted /\ path[v] \notin robbed => path[v] # p
  BY <1>1, AcceptedIsElsewhere
<1>5. PICK r \in Readings :
        /\ index' = [r EXCEPT ![p] = [sha |-> w, edited |-> FALSE]]
        /\ BasedOn(r)
        /\ edits' = {q \in edits \ {p} : r[q] # None}
        /\ stale' = stale \ {p}
  BY DEF Enter
<1>6. /\ stage' = [stage EXCEPT ![w] = "accepted"] /\ marker' \subseteq marker
      /\ UNCHANGED <<path, bytes, whole, search, loaded, deleted, robbed>>
  BY DEF Enter, searching
<1>7. /\ r = index /\ forgotten' = forgotten /\ mishaps' = mishaps
      \/ /\ r = Empty /\ mishaps' = mishaps + 1 /\ mishaps < MaxMishaps
         /\ forgotten' = forgotten \cup {index[q].sha : q \in {o \in Paths : index[o] # None}}
  BY <1>5 DEF Readings, BasedOn
<1>8. [sha |-> w, edited |-> FALSE] \in Entries
  BY Disjoint DEF Entries
<1> HIDE DEF p
<1>9. RepoTypeOK'
  <2>1. r \in [Paths -> Entries \cup {None}]
    BY <1>7 DEF RepoInv, RepoTypeOK, Empty
  <2>2. forgotten' \subseteq Writers \cup {Torn} /\ mishaps' \in 0..MaxMishaps
    BY <1>7, RepositoryAssumption DEF RepoInv, RepoTypeOK, Entries
  <2>3. lock' \in Builds \cup Searches \cup {None}
    BY DEF RepoInv, RepoTypeOK
  <2> QED
    BY <1>1, <1>5, <1>6, <1>8, <2>1, <2>2, <2>3 DEF RepoInv, RepoTypeOK
<1>10. PlaceInv'
  BY <1>6 DEF RepoInv, RepoTypeOK, PlaceInv, Underway, UploadStages, BuildStages
<1>11. WriteInv'
  BY <1>1, <1>2, <1>6 DEF RepoInv, RepoTypeOK, WriteInv, Underway, UploadStages, BuildStages, p
<1>12. FileInv'
  <2>1. ASSUME NEW q \in Paths, q \notin robbed, Exists(q), q \notin marker' PROVE q \in whole
    BY <1>3, <2>1 DEF RepoInv, FileInv, p
  <2>2. ASSUME NEW q \in Paths, q \notin robbed, index'[q] # None, q \notin stale'
        PROVE  q \notin marker' /\ q \in whole /\ index'[q].sha = bytes[q]
    <3>1. CASE q = p
      BY <1>3, <1>5, <1>7, <2>2, <3>1 DEF RepoInv, RepoTypeOK, Empty
    <3>2. CASE q # p
      BY <1>5, <1>6, <1>7, <2>2, <3>2 DEF RepoInv, RepoTypeOK, FileInv, Empty
    <3> QED
      BY <3>1, <3>2
  <2> QED
    BY <1>6, <2>1, <2>2 DEF FileInv, Exists
<1>13. LockInv'
  BY <1>6, Disjoint DEF RepoInv, RepoTypeOK, LockInv, BuildStages
<1>14. AnswersAreTrue'
  <2>1. ASSUME NEW v \in Writers, stage'[v] = "accepted", v \notin deleted', path'[v] \notin robbed'
        PROVE  /\ bytes'[path'[v]] = v /\ path'[v] \in whole'
               /\ v \notin forgotten' => index'[path'[v]] # None /\ index'[path'[v]].sha = v
    <3>1. CASE v = w
      BY <1>1, <1>3, <1>5, <1>6, <1>7, <1>8, <2>1, <3>1, Disjoint DEF RepoInv, RepoTypeOK, Empty, p
    <3>2. CASE v # w
      <4>1. stage[v] = "accepted" /\ path[v] # p /\ path[v] \in Paths /\ v \notin deleted
            /\ path[v] \notin robbed
        BY <1>4, <1>6, <2>1, <3>2, PathIsPath DEF RepoInv, RepoTypeOK
      <4>2. CASE r = index
        BY <1>1, <1>5, <1>6, <1>7, <4>1, <4>2 DEF RepoInv, RepoTypeOK, AnswersAreTrue, BasedOn
      <4>3. CASE r # index
        BY <1>6, <1>7, <4>1, <4>3 DEF RepoInv, RepoTypeOK, AnswersAreTrue
      <4> QED
        BY <4>2, <4>3
    <3> QED
      BY <3>1, <3>2
  <2>2. \A v \in Writers : stage'[v] = "refused" /\ v \notin Batches =>
          \A q \in Paths : bytes'[q] # v
    BY <1>6 DEF RepoInv, RepoTypeOK, AnswersAreTrue
  <2>3. \A q \in edits' : index'[q] # None /\ index'[q].edited
    BY <1>5, <1>7 DEF RepoInv, RepoTypeOK, AnswersAreTrue, Empty
  <2> QED
    BY <2>1, <2>2, <2>3 DEF AnswersAreTrue
<1> QED
  BY <1>9, <1>10, <1>11, <1>12, <1>13, <1>14 DEF RepoInv

\* A request that cannot register takes its file away, if it is not of a batch.
LEMMA RegisterFailsKeeps ==
  ASSUME RepoInv, NEW w \in Uploads, RegisterFails(w)
  PROVE  RepoInv'
<1> DEFINE p == path[w]
<1>1. p \in Paths /\ stage[w] \in Underway /\ w \in Writers /\ stage[w] = "closing"
  BY PathIsPath, Disjoint DEF RegisterFails, Underway, UploadStages
<1>2. \A v \in Writers : v # w /\ stage[v] \in Underway /\ path[v] = p => p \in robbed
  BY <1>1, AloneOnPath
<1>3. \A v \in Writers :
        stage[v] = "accepted" /\ v \notin deleted /\ path[v] \notin robbed => path[v] # p
  BY <1>1, AcceptedIsElsewhere
<1>4. /\ stage' = [stage EXCEPT ![w] = "refused"]
      /\ UNCHANGED <<path, marker, index, lock, search, loaded, deleted, robbed, forgotten, edits, mishaps>>
  BY DEF RegisterFails, searching
<1>5. \/ w \in Batches /\ UNCHANGED <<bytes, whole, stale>>
      \/ /\ bytes' = [bytes EXCEPT ![p] = None] /\ whole' = whole \ {p}
         /\ stale' = IF index[p] # None THEN stale \cup {p} ELSE stale
  BY DEF RegisterFails, Unlink
<1> HIDE DEF p
<1>6. RepoTypeOK'
  BY <1>1, <1>4, <1>5 DEF RepoInv, RepoTypeOK
<1>7. PlaceInv'
  BY <1>1, <1>4, <1>5, Disjoint DEF RepoInv, RepoTypeOK, PlaceInv
<1>8. WriteInv'
  BY <1>1, <1>2, <1>4, <1>5 DEF RepoInv, RepoTypeOK, WriteInv, Underway, UploadStages, BuildStages, p
<1>9. FileInv'
  BY <1>1, <1>4, <1>5 DEF RepoInv, RepoTypeOK, FileInv, Exists
<1>10. LockInv'
  BY <1>4 DEF RepoInv, RepoTypeOK, LockInv, BuildStages
<1>11. AnswersAreTrue'
  <2>1. ASSUME NEW v \in Writers, stage'[v] = "accepted", v \notin deleted', path'[v] \notin robbed'
        PROVE  /\ bytes'[path'[v]] = v /\ path'[v] \in whole'
               /\ v \notin forgotten' => index'[path'[v]] # None /\ index'[path'[v]].sha = v
    <3>1. stage[v] = "accepted" /\ path[v] # p /\ path[v] \in Paths
      BY <1>3, <1>4, <2>1, PathIsPath DEF RepoInv, RepoTypeOK
    <3> QED
      BY <1>1, <1>4, <1>5, <2>1, <3>1 DEF RepoInv, RepoTypeOK, AnswersAreTrue
  <2>2. \A v \in Writers : stage'[v] = "refused" /\ v \notin Batches =>
          \A q \in Paths : bytes'[q] # v
    <3>1. w \notin Batches => \A q \in Paths : bytes'[q] # w
      BY <1>1, <1>5, Disjoint DEF RegisterFails, Unlink, RepoInv, RepoTypeOK, PlaceInv, p
    <3> QED
      BY <1>1, <1>4, <1>5, <3>1, Disjoint DEF RepoInv, RepoTypeOK, AnswersAreTrue
  <2>3. \A q \in edits' : index'[q] # None /\ index'[q].edited
    BY <1>4 DEF RepoInv, AnswersAreTrue
  <2> QED
    BY <2>1, <2>2, <2>3 DEF AnswersAreTrue
<1> QED
  BY <1>6, <1>7, <1>8, <1>9, <1>10, <1>11 DEF RepoInv

-----------------------------------------------------------------------------
(* The steps on the index.                                                  *)

\* A scan enters complete files only: those without a marker are complete.
LEMMA ScanKeeps ==
  ASSUME RepoInv, Scan
  PROVE  RepoInv'
<1>1. PICK r \in Readings :
        /\ index' = [p \in Paths |->
             IF Indexable(p, r) THEN [sha |-> Digest(p), edited |-> FALSE] ELSE r[p]]
        /\ BasedOn(r)
        /\ edits' = {p \in edits : r[p] # None}
  BY DEF Scan
<1>2. /\ lock = None
      /\ UNCHANGED <<stage, path, bytes, whole, marker, lock, search, loaded, deleted, stale, robbed>>
  BY DEF Scan, files, searching
<1>3. /\ r = index /\ forgotten' = forgotten /\ mishaps' = mishaps
      \/ /\ r = Empty /\ mishaps' = mishaps + 1 /\ mishaps < MaxMishaps
         /\ forgotten' = forgotten \cup {index[q].sha : q \in {o \in Paths : index[o] # None}}
  BY <1>1 DEF Readings, BasedOn
<1>4. r \in [Paths -> Entries \cup {None}]
  BY <1>3 DEF RepoInv, RepoTypeOK, Empty
<1>5. \A p \in Paths : Indexable(p, r) =>
        /\ r[p] = None /\ Exists(p) /\ p \notin marker
        /\ index'[p] = [sha |-> Digest(p), edited |-> FALSE] /\ index'[p] \in Entries
  <2>1. \A p \in Paths : Exists(p) => Digest(p) \in Writers \cup {Torn}
    BY DEF Digest, Exists, RepoInv, RepoTypeOK
  <2> QED
    BY <1>1, <2>1 DEF Indexable, Entries
<1>6. \A p \in Paths : ~Indexable(p, r) => index'[p] = r[p]
  BY <1>1
<1>7. RepoTypeOK'
  <2>1. index' \in [Paths -> Entries \cup {None}]
    BY <1>1, <1>4, <1>5, <1>6
  <2>2. forgotten' \subseteq Writers \cup {Torn} /\ mishaps' \in 0..MaxMishaps
    BY <1>3, RepositoryAssumption DEF RepoInv, RepoTypeOK, Entries
  <2> QED
    BY <1>1, <1>2, <2>1, <2>2 DEF RepoInv, RepoTypeOK
<1>8. PlaceInv' /\ WriteInv'
  BY <1>2 DEF RepoInv, PlaceInv, WriteInv
<1>9. FileInv'
  <2>1. ASSUME NEW p \in Paths, p \notin robbed, index'[p] # None, p \notin stale
        PROVE  p \notin marker /\ p \in whole /\ index'[p].sha = bytes[p]
    <3>1. CASE Indexable(p, r)
      <4>1. p \notin marker /\ p \in whole
        BY <1>5, <2>1, <3>1 DEF RepoInv, FileInv
      <4>2. index'[p] = [sha |-> Digest(p), edited |-> FALSE]
        BY <1>5, <3>1
      <4>3. Digest(p) = bytes[p]
        BY <4>1 DEF Digest
      <4> QED
        BY <4>1, <4>2, <4>3
    <3>2. CASE ~Indexable(p, r)
      BY <1>3, <1>6, <2>1, <3>2 DEF RepoInv, FileInv, Empty
    <3> QED
      BY <3>1, <3>2
  <2> QED
    BY <1>2, <2>1 DEF RepoInv, FileInv, Exists
<1>10. LockInv'
  BY <1>2, Disjoint DEF RepoInv, LockInv
<1>11. AnswersAreTrue'
  <2>1. ASSUME NEW v \in Writers, stage[v] = "accepted", v \notin deleted, path[v] \notin robbed,
               v \notin forgotten'
        PROVE  index'[path[v]] # None /\ index'[path[v]].sha = v
    <3>1. path[v] \in Paths /\ v \notin forgotten
      BY <1>3, <2>1, PathIsPath
    <3>2. index[path[v]] # None /\ index[path[v]].sha = v
      BY <2>1, <3>1 DEF RepoInv, AnswersAreTrue
    <3>3. r = index
      BY <1>3, <2>1, <3>1, <3>2
    <3> QED
      BY <1>5, <1>6, <3>1, <3>2, <3>3
  <2>2. \A p \in edits' : index'[p] # None /\ index'[p].edited
    BY <1>1, <1>3, <1>5, <1>6 DEF RepoInv, RepoTypeOK, AnswersAreTrue, Empty
  <2>3. \A v \in Writers :
          /\ stage[v] = "accepted" /\ v \notin deleted /\ path[v] \notin robbed =>
               bytes[path[v]] = v /\ path[v] \in whole
          /\ stage[v] = "refused" /\ v \notin Batches => \A p \in Paths : bytes[p] # v
    BY DEF RepoInv, AnswersAreTrue
  <2> QED
    BY <1>2, <2>1, <2>2, <2>3 DEF AnswersAreTrue
<1> QED
  BY <1>7, <1>8, <1>9, <1>10, <1>11 DEF RepoInv

\* Entries go whose file is missing; for a search the index is still what it read.
LEMMA PruneKeeps ==
  ASSUME RepoInv, index' = Pruned(index), stale' = {p \in stale : index'[p] # None},
         edits' = {p \in edits : Exists(p)},
         UNCHANGED <<stage, path, files, deleted, robbed, forgotten, mishaps>>,
         \/ lock = None /\ UNCHANGED <<lock, searching>>
         \/ \E s \in Searches :
              /\ search[s] = "pruning" /\ lock' = None
              /\ loaded' = [loaded EXCEPT ![s] = Empty]
              /\ search' = [search EXCEPT ![s] = "done"]
  PROVE  RepoInv'
<1> USE DEF files, searching
<1>1. \A p \in Paths : index'[p] = IF Exists(p) THEN index[p] ELSE None
  BY DEF Pruned
<1>2. RepoTypeOK'
  <2>1. index' \in [Paths -> Entries \cup {None}]
    BY DEF Pruned, RepoInv, RepoTypeOK
  <2>2. lock' \in Builds \cup Searches \cup {None}
    BY DEF RepoInv, RepoTypeOK
  <2>3. search' \in [Searches -> {"idle", "pruning", "done"}]
        /\ loaded' \in [Searches -> [Paths -> Entries \cup {None}]]
    <3>1. Empty \in [Paths -> Entries \cup {None}]
      BY DEF Empty
    <3>2. CASE UNCHANGED searching
      BY <3>2 DEF RepoInv, RepoTypeOK
    <3>3. ASSUME NEW s \in Searches, loaded' = [loaded EXCEPT ![s] = Empty],
                 search' = [search EXCEPT ![s] = "done"]
          PROVE  /\ search' \in [Searches -> {"idle", "pruning", "done"}]
                 /\ loaded' \in [Searches -> [Paths -> Entries \cup {None}]]
      BY <3>1, <3>3 DEF RepoInv, RepoTypeOK
    <3> QED
      BY <3>2, <3>3
  <2> QED
    BY <2>1, <2>2, <2>3 DEF RepoInv, RepoTypeOK
<1>3. PlaceInv' /\ WriteInv'
  BY DEF RepoInv, PlaceInv, WriteInv
<1>4. FileInv'
  BY <1>1 DEF RepoInv, RepoTypeOK, FileInv, Exists
<1>5. LockInv'
  BY Disjoint DEF RepoInv, RepoTypeOK, LockInv
<1>6. AnswersAreTrue'
  <2>1. \A v \in Writers : stage[v] = "accepted" /\ v \notin deleted /\ path[v] \notin robbed =>
          path[v] \in Paths /\ Exists(path[v])
    BY PathIsPath, Disjoint DEF RepoInv, AnswersAreTrue, Exists
  <2> QED
    BY <1>1, <2>1 DEF RepoInv, RepoTypeOK, AnswersAreTrue
<1> QED
  BY <1>2, <1>3, <1>4, <1>5, <1>6 DEF RepoInv

LEMMA ListKeeps == ASSUME RepoInv, List PROVE RepoInv'
  BY PruneKeeps DEF List

LEMMA SearchKeeps ==
  ASSUME RepoInv, NEW s \in Searches, Prune(s)
  PROVE  RepoInv'
<1>1. loaded[s] = index
  BY DEF Prune, RepoInv, LockInv
<1>2. index' = Pruned(index)
  BY <1>1 DEF Prune
<1> QED
  BY <1>2, PruneKeeps DEF Prune

LEMMA LoadKeeps ==
  ASSUME RepoInv, NEW s \in Searches, Load(s)
  PROVE  RepoInv'
<1> USE DEF Load, files, history
<1>1. RepoTypeOK'
  BY DEF RepoInv, RepoTypeOK
<1>2. PlaceInv' /\ WriteInv' /\ FileInv' /\ AnswersAreTrue'
  BY DEF RepoInv, PlaceInv, WriteInv, FileInv, AnswersAreTrue, Exists
<1>3. LockInv'
  BY Disjoint DEF RepoInv, RepoTypeOK, LockInv
<1> QED
  BY <1>1, <1>2, <1>3 DEF RepoInv

\* An edited entry is an entry with the same digest.
LEMMA EditedEntry ==
  ASSUME NEW e \in Entries
  PROVE  /\ [e EXCEPT !.edited = TRUE] \in Entries
         /\ [e EXCEPT !.edited = TRUE].sha = e.sha
         /\ [e EXCEPT !.edited = TRUE].edited = TRUE
  BY DEF Entries

LEMMA EditKeeps ==
  ASSUME RepoInv, NEW p \in Paths, Edit(p)
  PROVE  RepoInv'
<1> USE DEF Edit, files, searching
<1>1. index[p] \in Entries
  BY DEF RepoInv, RepoTypeOK
<1>2. index' = [index EXCEPT ![p] = [index[p] EXCEPT !.edited = TRUE]]
  BY DEF RepoInv, RepoTypeOK
<1>3. index'[p] \in Entries /\ index'[p].sha = index[p].sha /\ index'[p].edited = TRUE
  <2>1. index'[p] = [index[p] EXCEPT !.edited = TRUE]
    BY <1>2 DEF RepoInv, RepoTypeOK
  <2> QED
    BY <1>1, <2>1, EditedEntry
<1>4. \A q \in Paths : q # p => index'[q] = index[q]
  BY <1>2 DEF RepoInv, RepoTypeOK
<1>5. RepoTypeOK'
  BY <1>2, <1>3 DEF RepoInv, RepoTypeOK
<1>6. PlaceInv' /\ WriteInv'
  BY DEF RepoInv, PlaceInv, WriteInv
<1>7. FileInv'
  BY <1>3, <1>4 DEF RepoInv, FileInv, Exists
<1>8. LockInv'
  BY Disjoint DEF RepoInv, LockInv
<1>9. AnswersAreTrue'
  <2>1. \A v \in Writers : stage[v] = "accepted" => path[v] \in Paths
    BY PathIsPath
  <2>2. index'[p] # None
    BY <1>3, Disjoint
  <2> QED
    BY <1>3, <1>4, <2>1, <2>2 DEF RepoInv, RepoTypeOK, AnswersAreTrue
<1> QED
  BY <1>5, <1>6, <1>7, <1>8, <1>9 DEF RepoInv

\* A deletion under an upload is noted in robbed, one that keeps the entry in stale.
LEMMA DeleteKeeps ==
  ASSUME RepoInv, NEW p \in Paths, Delete(p)
  PROVE  RepoInv'
<1>1. /\ lock = None /\ bytes' = [bytes EXCEPT ![p] = None] /\ whole' = whole \ {p}
      /\ deleted' = (deleted \cup {bytes[p], index[p].sha}) \cap Writers
      /\ robbed' = IF Expected(p) THEN robbed \cup {p} ELSE robbed
      /\ edits' = edits \ {p}
      /\ UNCHANGED <<stage, path, marker, lock, search, loaded, forgotten>>
  BY DEF Delete, Unlink, searching
<1>2. \/ index' = [index EXCEPT ![p] = None] /\ stale' = stale \ {p} /\ mishaps' = mishaps
      \/ index' = index /\ stale' = stale \cup {p} /\ mishaps < MaxMishaps /\ mishaps' = mishaps + 1
  BY DEF Delete
<1>3. \A w \in Writers : stage[w] \in Underway /\ path[w] \notin robbed' => path[w] # p
  BY <1>1 DEF Expected
<1>4. robbed \subseteq robbed' /\ robbed' \subseteq Paths
  BY <1>1 DEF RepoInv, RepoTypeOK
<1>5. deleted \subseteq deleted' /\ deleted' \subseteq Writers
  BY <1>1 DEF RepoInv, RepoTypeOK
<1>6. \A q \in Paths : q # p => index'[q] = index[q] /\ bytes'[q] = bytes[q]
  BY <1>1, <1>2 DEF RepoInv, RepoTypeOK
<1>7. RepoTypeOK'
  <2>1. mishaps' \in 0..MaxMishaps
    BY <1>2, RepositoryAssumption DEF RepoInv, RepoTypeOK
  <2> QED
    BY <1>1, <1>2, <1>4, <1>5, <2>1 DEF RepoInv, RepoTypeOK
<1>8. PlaceInv'
  BY <1>1, Disjoint DEF RepoInv, RepoTypeOK, PlaceInv
<1>9. WriteInv'
  BY <1>1, <1>3, <1>4, PathIsPath DEF RepoInv, RepoTypeOK, WriteInv, Underway, UploadStages, BuildStages
<1>10. FileInv'
  BY <1>1, <1>2, <1>4, <1>6 DEF RepoInv, RepoTypeOK, FileInv, Exists
<1>11. LockInv'
  BY <1>1, Disjoint DEF RepoInv, RepoTypeOK, LockInv
<1>12. AnswersAreTrue'
  <2>1. ASSUME NEW v \in Writers, stage'[v] = "accepted", v \notin deleted', path'[v] \notin robbed'
        PROVE  /\ bytes'[path'[v]] = v /\ path'[v] \in whole'
               /\ v \notin forgotten' => index'[path'[v]] # None /\ index'[path'[v]].sha = v
    <3>1. stage[v] = "accepted" /\ v \notin deleted /\ path[v] \notin robbed /\ path[v] \in Paths
      BY <1>1, <1>4, <1>5, <2>1, PathIsPath
    <3>2. bytes[path[v]] = v
      BY <3>1 DEF RepoInv, AnswersAreTrue
    <3>3. path[v] # p
      BY <1>1, <2>1, <3>2
    <3> QED
      BY <1>1, <1>6, <3>1, <3>3 DEF RepoInv, AnswersAreTrue
  <2>2. \A v \in Writers : stage'[v] = "refused" /\ v \notin Batches =>
          \A q \in Paths : bytes'[q] # v
    BY <1>1, Disjoint DEF RepoInv, RepoTypeOK, AnswersAreTrue
  <2>3. \A q \in edits' : index'[q] # None /\ index'[q].edited
    BY <1>1, <1>6 DEF RepoInv, RepoTypeOK, AnswersAreTrue
  <2> QED
    BY <2>1, <2>2, <2>3 DEF AnswersAreTrue
<1> QED
  BY <1>7, <1>8, <1>9, <1>10, <1>11, <1>12 DEF RepoInv

\* After a restart nobody is under way; files, markers and the index are as they were.
LEMMA CrashKeeps == ASSUME RepoInv, Crash PROVE RepoInv'
<1> USE DEF Crash, files
<1>1. \A w \in Writers : stage'[w] \notin Underway
  BY DEF Underway, UploadStages, BuildStages, RepoInv, RepoTypeOK
<1>2. \A w \in Writers : stage'[w] # stage[w] => stage'[w] = "gone" /\ stage[w] # "idle"
  BY DEF Underway, UploadStages, BuildStages, RepoInv, RepoTypeOK
<1>3. RepoTypeOK'
  <2>1. mishaps' \in 0..MaxMishaps
    BY RepositoryAssumption DEF RepoInv, RepoTypeOK
  <2>2. stage' \in [Writers -> Underway \cup {"idle", "accepted", "refused", "gone"}]
    BY DEF RepoInv, RepoTypeOK
  <2> QED
    BY <2>1, <2>2 DEF RepoInv, RepoTypeOK, Empty
<1>4. PlaceInv'
  BY <1>2 DEF RepoInv, PlaceInv
<1>5. WriteInv'
  BY <1>1 DEF WriteInv
<1>6. FileInv'
  BY DEF RepoInv, FileInv, Exists
<1>7. LockInv'
  BY <1>1 DEF LockInv, Underway, RepoInv, RepoTypeOK
<1>8. AnswersAreTrue'
  BY <1>2 DEF RepoInv, AnswersAreTrue
<1> QED
  BY <1>3, <1>4, <1>5, <1>6, <1>7, <1>8 DEF RepoInv

-----------------------------------------------------------------------------
(* The invariant of the repository and of the composition.                  *)

LEMMA RepoStarts == RepoInit => RepoInv
<1> SUFFICES ASSUME RepoInit PROVE RepoInv
  OBVIOUS
<1>1. RepoTypeOK
  BY RepositoryAssumption DEF RepoInit, RepoTypeOK, Empty
<1>2. PlaceInv /\ WriteInv /\ FileInv /\ LockInv /\ AnswersAreTrue
  BY Disjoint DEF RepoInit, Empty, PlaceInv, WriteInv, FileInv, LockInv, AnswersAreTrue, Exists,
     Underway, UploadStages, BuildStages
<1> QED
  BY <1>1, <1>2 DEF RepoInv

LEMMA RepoStepKeeps == ASSUME RepoInv, RepoSteps PROVE RepoInv'
<1>1. ASSUME NEW w \in Uploads, Begin(w) PROVE RepoInv'
  BY <1>1, ReserveKeeps, Disjoint DEF Begin
<1>2. ASSUME NEW w \in Uploads, Written(w) PROVE RepoInv'
  BY <1>2, WrittenKeeps, Disjoint
<1>3. ASSUME NEW w \in Uploads, WriteFails(w) PROVE RepoInv'
  BY <1>3, GiveUpKeeps, Disjoint DEF WriteFails
<1>4. ASSUME NEW w \in Uploads, Register(w) PROVE RepoInv'
  BY <1>4, EnterKeeps, Disjoint DEF Register
<1>5. ASSUME NEW w \in Uploads, RegisterFails(w) PROVE RepoInv'
  BY <1>5, RegisterFailsKeeps
<1>6. ASSUME NEW b \in Builds, Copied(b) PROVE RepoInv'
  BY <1>6, CopiedKeeps
<1>7. ASSUME NEW b \in Builds, Publish(b) PROVE RepoInv'
  BY <1>7, EnterKeeps, Disjoint DEF Publish
<1>8. ASSUME NEW b \in Builds, PublishFails(b) PROVE RepoInv'
  BY <1>8, GiveUpKeeps, Disjoint DEF PublishFails, BuildStages
<1> QED
  BY <1>1, <1>2, <1>3, <1>4, <1>5, <1>6, <1>7, <1>8, ScanKeeps, ListKeeps, SearchKeeps, LoadKeeps,
     EditKeeps, DeleteKeeps DEF RepoSteps, UploadGoesOn, UploadEnds, BuildGoesOn

LEMMA ClaimKeeps ==
  ASSUME RepoInv, NEW b \in Builds, Claim(b)
  PROVE  RepoInv'
  BY ReserveKeeps, Disjoint DEF Claim

ReleaseInv == IInv /\ RepoInv

LEMMA ReleaseInductive == ReleaseInv /\ [Next]_releaseVars => ReleaseInv'
<1> SUFFICES ASSUME ReleaseInv, [Next]_releaseVars PROVE ReleaseInv'
  OBVIOUS
<1> USE DEF ReleaseInv
<1>1. ASSUME UNCHANGED repoVars PROVE RepoInv'
  <2> USE <1>1 DEF repoVars, RepoInv
  <2>1. RepoTypeOK'
    BY DEF RepoTypeOK
  <2>2. PlaceInv' /\ WriteInv' /\ FileInv' /\ LockInv' /\ AnswersAreTrue'
    BY DEF PlaceInv, WriteInv, FileInv, LockInv, AnswersAreTrue, Exists
  <2> QED
    BY <2>1, <2>2
<1>2. ASSUME UNCHANGED planVars PROVE IInv'
  BY <1>2, PlanInductive
<1>3. CASE PlanNext /\ UNCHANGED repoVars
  BY <1>1, <1>3, PlanInductive
<1>4. CASE RepoSteps /\ UNCHANGED planVars
  BY <1>2, <1>4, RepoStepKeeps
<1>5. ASSUME NEW b \in Builds, PublishBuilt(b) PROVE ReleaseInv'
  BY <1>2, <1>5, ClaimKeeps DEF PublishBuilt
<1>6. CASE ProcessDies
  <2>1. RepoInv'
    BY <1>6, CrashKeeps DEF ProcessDies
  <2>2. CASE step' = step
    BY <1>2, <1>6, <2>1, <2>2 DEF ProcessDies, planVars
  <2>3. CASE step' = "failed"
    BY <1>6, <2>1, <2>3 DEF ProcessDies, IInv, PlanTypeOK, Steps, ConfirmedInv, BuiltAsConfirmed
  <2> QED
    BY <1>6, <2>2, <2>3 DEF ProcessDies
<1>7. CASE UNCHANGED releaseVars
  BY <1>1, <1>2, <1>7 DEF releaseVars
<1> QED
  BY <1>3, <1>4, <1>5, <1>6, <1>7 DEF Next

LEMMA ReleaseInvariant == Spec => []ReleaseInv
<1>1. Init => ReleaseInv
  BY PlanStarts, RepoStarts DEF Init, ReleaseInv
<1> QED
  BY <1>1, ReleaseInductive, PTL DEF Spec

-----------------------------------------------------------------------------
(* The theorems.                                                            *)

\* Type correctness of the turn and of the repository.
THEOREM ReleaseTypeCorrect == Spec => []TypeOK
<1>1. ReleaseInv => TypeOK
  BY DEF ReleaseInv, IInv, RepoInv, TypeOK
<1> QED
  BY <1>1, ReleaseInvariant, PTL

\* The plan keeps its promises also where the process may die under it.
THEOREM ReleasedAsConfirmed == Spec => []PlanKeepsItsWord
<1>1. ReleaseInv => PlanKeepsItsWord
  BY OptionsHold, ConfirmedIsValid DEF ReleaseInv, IInv, PlanKeepsItsWord
<1> QED
  BY <1>1, ReleaseInvariant, PTL

\* Whatever writers, searches, scans, deletions and restarts interleave: entries describe
\* complete files, answers given to writers stay true, and edits are kept.
THEOREM RepositoryTellsTheTruth == Spec => []RepositoryIsTrue
<1>1. RepoInv => RepositoryIsTrue
  BY DEF RepoInv, FileInv, RepositoryIsTrue, EntriesAreHonest, Exists
<1> QED
  BY <1>1, ReleaseInvariant, PTL DEF ReleaseInv
=============================================================================
