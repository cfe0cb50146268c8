---------------------------- MODULE PackagePlan ----------------------------
(***************************************************************************)
(* From uploaded files to a package (src/app/services/full_package_        *)
(* service.py): files are classified against a catalog of components, the  *)
(* user maps every file to components or excludes it, the answers become a *)
(* confirmed plan, and the builder checks the plan against files and       *)
(* catalog again before it takes the payloads out of the files.            *)
(*                                                                         *)
(* One project.  A file is a record of what the rules and the archive      *)
(* tools say about it.  A whole package uploaded as a file must never end  *)
(* up inside another one; the exception is a package of one component that *)
(* the catalog opts in, of which only the payload is taken.                *)
(***************************************************************************)
EXTENDS FiniteSets, Naturals

CONSTANTS
  Inputs,       \* the uploaded files of a turn
  Components,   \* the components of the project
  Publishable,  \* those a package may contain: the others are only recognised
  Matched,      \* those found by a pattern inside an archive: the others are the file itself
  Extractable,  \* those that may be taken out of a package of just them
  Ambiguous,    \* those of an ambiguous group
  Files,        \* the kinds of file that are uploaded
  Absent        \* no component, no version, no payload

Versions == {"declared", "inferred", "default"}

\* The members of an archive, as far as they matter; "whole" is the file itself.
Members == {"payload", "si.ini", "other"}

Kinds ==
  [sound : BOOLEAN,                         \* the archive, if it is one, can be opened safely
   package : BOOLEAN,                       \* it is recognised as a whole package
   single : Components \cup {Absent},       \* the one component it is a valid package of
   seen : SUBSET Components,                \* the components the rules recognise,
   sure : SUBSET Components,                \* ... with a confidence of 0.55 at least
   named : BOOLEAN,                         \* its name tells a version
   matches : [Components -> SUBSET Members] \* the members a component's pattern finds
  ]

\* What a package holds of an input: the file as it was when it was opened, and the member.
Payloads ==
  [from : Inputs, file : Files, member : Members \cup {"whole"}, version : Versions]

ASSUME PlanAssumption ==
  /\ Publishable \subseteq Components /\ Matched \subseteq Components
  /\ Extractable \subseteq Publishable \cap Matched
  /\ Absent \notin Components \cup Versions \cup Payloads
  /\ Files \subseteq Kinds
  /\ \A f \in Files :
       /\ f.sure \subseteq f.seen
       /\ f.single # Absent => f.package /\ f.sound

VARIABLES
  kit,       \* what the inputs are, to the catalog of the moment
  draft,     \* what they were when they were uploaded and classified
  step,      \* how far the turn is
  answer,    \* what the user said of each input
  plan,      \* the version of each component that is confirmed for an input
  artifact   \* the payloads of the package, by component

planVars == <<kit, draft, step, answer, plan, artifact>>

Steps == {"uploaded", "asking", "answered", "confirmed", "built", "failed"}

\* A list of component keys, and whether "exclude" is among them.
Answers == [keys : SUBSET Components, exclude : BOOLEAN]

NoAnswer == [keys |-> {}, exclude |-> TRUE]

Unplanned == [i \in Inputs |-> [c \in Components |-> Absent]]

PlanTypeOK ==
  /\ kit \in [Inputs -> Files]
  /\ draft \in [Inputs -> Files]
  /\ step \in Steps
  /\ answer \in [Inputs -> Answers]
  /\ plan \in [Inputs -> [Components -> Versions \cup {Absent}]]
  /\ artifact \in [Components -> Payloads \cup {Absent}]

PlanInit ==
  /\ kit \in [Inputs -> Files]
  /\ draft = kit
  /\ step = "uploaded"
  /\ answer = [i \in Inputs |-> NoAnswer]
  /\ plan = Unplanned
  /\ artifact = [c \in Components |-> Absent]

-----------------------------------------------------------------------------
\* (mutant of Current) Of the draft's bindings only the names are compared.
NamesOnly == DOMAIN kit = DOMAIN draft

\* The hashes of the inputs and the digest of the catalog are those of the draft.
Current == kit = draft

-----------------------------------------------------------------------------
(* Classification.                                                          *)

\* _validated_prebuilt_component: f is a package of c alone, and c may be taken out.
Opens(f, c) == c \in Extractable /\ f.sound /\ f.single = c

\* The candidates of a file that can be published.
Offered(f) == {c \in f.seen \cap Publishable : f.package => Opens(f, c)}

Suggested(f) == (Offered(f) \cap f.sure) \ Ambiguous

\* What the card offers for a file, "exclude" apart: the suggestion as a whole, and
\* single components.
Options(f) ==
  {{c} : c \in Offered(f)} \cup {S \in {Suggested(f)} : Cardinality(S) > 1}

Classify ==
  /\ step = "uploaded" /\ Current
  /\ step' = "asking"
  /\ UNCHANGED <<kit, draft, answer, plan, artifact>>

-----------------------------------------------------------------------------
(* Confirmation.  The user may also type keys the card does not offer.      *)

Answer(a) ==
  /\ step = "asking"
  /\ answer' = a
  /\ step' = "answered"
  /\ UNCHANGED <<kit, draft, plan, artifact>>

\* What confirm_plan and, later, validate_confirmed_plan demand of a component that
\* is taken from a file.
Admits(f, c) ==
  /\ c \in Publishable
  /\ f.sound
  /\ f.package => Opens(f, c)

\* No component is mapped twice, and one at least is included.
OneSourceEach(keys) ==
  /\ \A i, j \in Inputs : i # j => keys[i] \cap keys[j] = {}
  /\ \E i \in Inputs : keys[i] # {}

Acceptable(files, a) ==
  /\ \A i \in Inputs :
       /\ a[i].exclude => a[i].keys = {}
       /\ \A c \in a[i].keys : Admits(files[i], c)
  /\ OneSourceEach([i \in Inputs |-> a[i].keys])

\* What si.ini declares of a package wins; a version is inferred from the file's
\* name, or else the component's default is taken.
VersionOf(f) ==
  IF f.package THEN "declared" ELSE IF f.named THEN "inferred" ELSE "default"

\* confirm_plan: every answer is resolved, and inputs and catalog are as they were.
Confirm ==
  /\ step = "answered" /\ Current /\ Acceptable(kit, answer)
  /\ plan' = [i \in Inputs |-> [c \in Components |->
                IF c \in answer[i].keys THEN VersionOf(draft[i]) ELSE Absent]]
  /\ step' = "confirmed"
  /\ UNCHANGED <<kit, draft, answer, artifact>>

\* The answers are refused.
Refuse ==
  /\ step = "answered" /\ ~(Current /\ Acceptable(kit, answer))
  /\ step' = "failed"
  /\ UNCHANGED <<kit, draft, answer, plan, artifact>>

-----------------------------------------------------------------------------
(* The build.                                                               *)

Chosen(i) == {c \in Components : plan[i][c] # Absent}

\* validate_confirmed_plan, with the files looked at again.
Valid ==
  /\ \A i \in Inputs : \A c \in Chosen(i) :
       /\ Admits(kit[i], c)
       /\ kit[i].package => plan[i][c] = "declared"
  /\ OneSourceEach([i \in Inputs |-> Chosen(i)])

\* What a component is made of: the file, or the one member that matches.
Sources(f, c) == IF c \in Matched THEN f.matches[c] ELSE {"whole"}

\* Of a package, what was taken out must be the payload that was validated.
Yields(f, c, m) == Sources(f, c) = {m} /\ (f.package => m = "payload")

Payload(i, c) ==
  [from |-> i, file |-> kit[i], member |-> CHOOSE m \in Sources(kit[i], c) : TRUE,
   version |-> plan[i][c]]

Build ==
  /\ step = "confirmed" /\ Current /\ Valid
  /\ \A i \in Inputs : \A c \in Chosen(i) :
       \E m \in Members \cup {"whole"} : Yields(kit[i], c, m)
  /\ artifact' = [c \in Components |->
                    IF \E i \in Inputs : c \in Chosen(i)
                      THEN Payload(CHOOSE i \in Inputs : c \in Chosen(i), c) ELSE Absent]
  /\ step' = "built"
  /\ UNCHANGED <<kit, draft, answer, plan>>

\* The plan is refused, a component matches nothing or several members, a limit is
\* exceeded, or writing fails.
BuildFails ==
  /\ step = "confirmed"
  /\ step' = "failed"
  /\ UNCHANGED <<kit, draft, answer, plan, artifact>>

\* A file is gone or another one or, once the files are classified, the catalog that says
\* what it is was replaced.
Outdate ==
  /\ step \notin {"built", "failed"}
  /\ \E i \in Inputs : \E f \in Files \ {kit[i]} : kit' = [kit EXCEPT ![i] = f]
  /\ UNCHANGED <<draft, step, answer, plan, artifact>>

\* Files that are gone, or not those of the upload, cannot be classified.
ClassifyFails ==
  /\ step = "uploaded" /\ ~Current
  /\ step' = "failed"
  /\ UNCHANGED <<kit, draft, answer, plan, artifact>>

PlanNext ==
  \/ Classify \/ ClassifyFails
  \/ \E a \in [Inputs -> Answers] : Answer(a)
  \/ Confirm \/ Refuse
  \/ Build \/ BuildFails \/ Outdate

PlanSpec == PlanInit /\ [][PlanNext]_planVars

-----------------------------------------------------------------------------
(* Properties.                                                              *)

\* Whoever picks an option of the card for one file that can be opened, and excludes
\* the others, has an answer that is accepted.
OptionsAreAcceptable ==
  \A i \in Inputs : draft[i].sound =>
    \A S \in Options(draft[i]) : S # {} =>
      Acceptable(draft, [j \in Inputs |-> IF j = i THEN [keys |-> S, exclude |-> FALSE] ELSE NoAnswer])

\* A plan that was confirmed passes the builder's own validation as long as neither
\* files nor catalog change.
ConfirmedStaysValid == step = "confirmed" /\ kit = draft => Valid

\* The package holds what the user mapped and nothing else, each component from the
\* file it was mapped to as that file was when the card was drawn; nothing only recognised;
\* and of a whole package no more than the payload of its one component, under the version
\* the package declares.
BuiltAsConfirmed ==
  step = "built" =>
    \A c \in Components :
      /\ artifact[c] = Absent <=> \A i \in Inputs : c \notin answer[i].keys
      /\ artifact[c] # Absent =>
           LET f == draft[artifact[c].from] IN
           /\ artifact[c].file = f
           /\ c \in answer[artifact[c].from].keys /\ ~answer[artifact[c].from].exclude
           /\ c \in Publishable
           /\ c \in Matched => f.matches[c] = {artifact[c].member}
           /\ f.package => /\ c = f.single /\ c \in Extractable
                           /\ artifact[c].member = "payload" /\ artifact[c].version = "declared"

\* The plan's promises together.
PlanKeepsItsWord == OptionsAreAcceptable /\ ConfirmedStaysValid /\ BuiltAsConfirmed
=============================================================================
