------------------------------ MODULE MCChatRuns ------------------------------
(***************************************************************************)
(* ChatRuns on one signed-in and one anonymous session.  A general run goes *)
(* through the states of a device run that never reaches its broker, so the *)
(* device kind stands for both.                                             *)
(***************************************************************************)
EXTENDS ChatRuns

CONSTANTS MaxRuns, user, anon

MCRuns == 1..MaxRuns
MCKeys == {user, anon}
MCAnonKeys == {anon}
MCTaskKinds == {"device"}

\* Run ids are fresh UUIDs: minting them in order loses no behaviour.
InOrder == \A r \in Runs : r > 1 /\ phase[r] = "unused" /\ phase'[r] # "unused"
                             => phase[r - 1] # "unused"

MCSpec == Init /\ [][Next /\ InOrder]_vars /\ Fairness
=============================================================================
