-------------------------- MODULE MCPackageRelease --------------------------
(* A project of three components: software, taken out of an archive or out *)
(* of a package of its own, firmware, which is a file, and documents,      *)
(* which are recognised but never packaged.                                *)
EXTENDS PackageRelease

CONSTANTS software, firmware, documents

AllComponents == {software, firmware, documents}

Nothing == [c \in AllComponents |-> {}]

\* An archive with one piece of software in it, by its name also a firmware.
Archive ==
  [sound |-> TRUE, package |-> FALSE, single |-> Absent,
   seen |-> {software, firmware}, sure |-> {software, firmware}, named |-> TRUE,
   matches |-> [Nothing EXCEPT ![software] = {"payload"}]]

FileKinds ==
  { Archive,
    [Archive EXCEPT !.sound = FALSE],
    [Archive EXCEPT !.matches[software] = {"payload", "other"}, !.named = FALSE],
    [Archive EXCEPT !.seen = {documents}, !.sure = {}, !.matches = Nothing],
    [Archive EXCEPT !.package = TRUE, !.seen = AllComponents],
    [Archive EXCEPT !.package = TRUE, !.single = software],
    [Archive EXCEPT !.package = TRUE, !.single = software, !.matches[software] = {"si.ini"}] }

\* Among the kits and answers this one stands for all others once the repository is
\* busy: to the repository it makes no difference what is in a package.
Plain == CHOOSE i \in Inputs : TRUE

PlainTurn ==
  /\ \A i \in Inputs : kit[i] = Archive /\ draft[i] = Archive
  /\ \/ step = "built"
     \/ step = "failed" /\ artifact # [c \in Components |-> Absent]
  /\ Chosen(Plain) = {software, firmware}
  /\ \A i \in Inputs \ {Plain} : answer[i] = NoAnswer

\* The repository is quiet until the package is built.
Quiet ==
  /\ \A w \in Writers : stage[w] = "idle"
  /\ \A s \in Searches : search[s] = "idle"
  /\ index = Empty

OneTurn == Quiet \/ PlainTurn

\* One file changes, beside an archive that stays and is not in the package.
OneChange ==
  kit # draft =>
    \A i \in Inputs \ {Plain} : kit[i] = Archive /\ draft[i] = Archive /\ answer[i] = NoAnswer
=============================================================================
