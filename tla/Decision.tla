------------------------------- MODULE Decision -------------------------------
(***************************************************************************)
(* What somebody who asks is promised: an agent that asks the user          *)
(* (HitlBroker), or one that asks a device (DeviceLink).  A request comes   *)
(* to one verdict, and one only.  Of the answers given to it one at most is *)
(* accepted, and only before the verdict; no other answer is the verdict.   *)
(* Where accepting binds, an accepted answer is the verdict, unless the one *)
(* who asked has gone away.                                                 *)
(***************************************************************************)
CONSTANTS
  Requests,   \* what can be asked
  Answers,    \* verdicts somebody gives
  Defaults,   \* verdicts that come without an answer
  Withdrawn   \* those of the Defaults that say that nobody asks any more

VARIABLES
  binding,    \* does accepting an answer bind?
  asked,      \* requests made
  accepted,   \* the answers accepted for a request
  verdict     \* "none", or what the one who asked goes on with

vars == <<binding, asked, accepted, verdict>>

Init ==
  /\ binding \in BOOLEAN
  /\ asked = {}
  /\ accepted = [r \in Requests |-> {}]
  /\ verdict = [r \in Requests |-> "none"]

Ask(r) ==
  /\ r \notin asked
  /\ asked' = asked \cup {r}
  /\ UNCHANGED <<binding, accepted, verdict>>

\* Nobody is there to be asked.
Refuse(r, v) ==
  /\ r \notin asked /\ verdict[r] = "none"
  /\ asked' = asked \cup {r}
  /\ verdict' = [verdict EXCEPT ![r] = v]
  /\ UNCHANGED <<binding, accepted>>

Accept(r, a) ==
  /\ r \in asked /\ verdict[r] = "none" /\ accepted[r] = {}
  /\ accepted' = [accepted EXCEPT ![r] = {a}]
  /\ UNCHANGED <<binding, asked, verdict>>

Decide(r, v) ==
  /\ r \in asked /\ verdict[r] = "none"
  /\ v \in Answers => v \in accepted[r]
  /\ binding /\ accepted[r] # {} => v \in accepted[r] \cup Withdrawn
  /\ verdict' = [verdict EXCEPT ![r] = v]
  /\ UNCHANGED <<binding, asked, accepted>>

Next ==
  \E r \in Requests :
    \/ Ask(r)
    \/ \E v \in Defaults : Refuse(r, v)
    \/ \E a \in Answers : Accept(r, a)
    \/ \E v \in Answers \cup Defaults : Decide(r, v)

Spec == Init /\ [][Next]_vars
=============================================================================
