------------------------------ MODULE DeviceLink ------------------------------
(***************************************************************************)
(* The device link (src/app/services/device_link_service.py) behind its     *)
(* WebSocket endpoint (src/app/api/device_link.py): devices that register,  *)
(* reconnect, answer prompts and drop, agents that send prompts and wait,   *)
(* and an administrator who deletes a device.                               *)
(*                                                                         *)
(* All of it runs in one event loop around one asyncio.Lock, which is fair  *)
(* and does not suspend a task that finds it free and nobody in line.  The  *)
(* only await under the lock is the close of a predecessor's WebSocket.     *)
(***************************************************************************)
EXTENDS Naturals, Sequences, FiniteSets

CONSTANTS
  Devices,    \* device ids
  Sockets,    \* WebSocket connections, each with its handler
  Prompts,    \* request ids agents may send
  NoDevice, NoSocket,
  MaxStates   \* bound: how many _DeviceState objects are created

ASSUME DeviceAssumption == NoDevice \notin Devices
ASSUME SocketAssumption == NoSocket \notin Sockets
\* A device id, a WebSocket and a request id are different things.
ASSUME KindsAssumption ==
  /\ Sockets \cap Prompts = {}
  /\ Sockets \cap Devices = {}
  /\ Prompts \cap Devices = {}
ASSUME BoundAssumption == MaxStates \in Nat

VARIABLES
  stage,      \* a handler: reading messages, leaving with an error, gone
  named,      \* its local device_id
  open,       \* WebSocket.application_state is CONNECTED
  alive,      \* the peer is there
  states,     \* the _DeviceState objects created, oldest first
  table,      \* _devices: an index of states, 0 for no entry
  latest,     \* history: the connection whose register message came last
  lock,       \* the registration that holds the lock: <<socket, device>> or <<>>
  line,       \* who waits for the lock, and what for
  deleting,   \* deletions that await the close of the WebSocket
  to,         \* the device of a prompt
  via,        \* the state send_prompt has looked up
  sentOn,     \* the connection its prompt went out on
  got,        \* prompts that reached a device
  sender,     \* send_prompt: busy (not started, or in line), waiting, done
  future,     \* its future: none, pending, answer, failed
  outcome,    \* how it ended
  pending     \* _pending_prompts

sockVars == <<stage, named, open, alive>>
sendVars == <<via, sentOn, got>>
promptVars == <<sendVars, sender, future, outcome, pending>>
vars == <<sockVars, states, table, latest, lock, line, deleting, to, promptVars>>

-----------------------------------------------------------------------------
Outcomes == {"none", "answer", "unavailable", "disconnected", "timeout", "sendFailed",
             "attributeError", "abandoned"}
Ops == {"register", "offline", "heartbeat", "capabilities", "result",
        "lookup", "enlist", "thanks", "delete"}
StateObjects == [ws : Sockets \cup {NoSocket}, online : BOOLEAN]
Entries == Ops \X (Sockets \cup Prompts \cup Devices) \X (Prompts \cup Devices)

TypeOK ==
  /\ stage \in [Sockets -> {"reading", "leaving", "gone"}]
  /\ named \in [Sockets -> Devices \cup {NoDevice}]
  /\ open \in [Sockets -> BOOLEAN] /\ alive \in [Sockets -> BOOLEAN]
  /\ states \in Seq(StateObjects)
  /\ table \in [Devices -> 0 .. Len(states)]
  /\ latest \in [Devices -> Sockets \cup {NoSocket}]
  /\ lock \in {<<>>} \cup (Sockets \X Devices)
  /\ line \in Seq(Entries)
  /\ deleting \subseteq Devices
  /\ to \in [Prompts -> Devices \cup {NoDevice}]
  /\ via \in [Prompts -> 0 .. Len(states)]
  /\ sentOn \in [Prompts -> Sockets \cup {NoSocket}]
  /\ got \subseteq Prompts
  /\ sender \in [Prompts -> {"busy", "waiting", "done"}]
  /\ future \in [Prompts -> {"none", "pending", "answer", "failed"}]
  /\ outcome \in [Prompts -> Outcomes]
  /\ pending \subseteq Prompts

\* _restore_devices: after a restart a known device has a state without a WebSocket.
Init ==
  /\ stage = [c \in Sockets |-> "reading"]
  /\ named = [c \in Sockets |-> NoDevice]
  /\ open = [c \in Sockets |-> TRUE] /\ alive = [c \in Sockets |-> TRUE]
  /\ \E cached \in BOOLEAN :
       /\ states = IF cached THEN <<[ws |-> NoSocket, online |-> FALSE]>> ELSE <<>>
       /\ \E d \in Devices : table = [x \in Devices |-> IF cached /\ x = d THEN 1 ELSE 0]
  /\ latest = [d \in Devices |-> NoSocket]
  /\ lock = <<>> /\ line = <<>> /\ deleting = {}
  /\ to = [p \in Prompts |-> NoDevice]
  /\ via = [p \in Prompts |-> 0]
  /\ sentOn = [p \in Prompts |-> NoSocket]
  /\ got = {} /\ pending = {}
  /\ sender = [p \in Prompts |-> "busy"]
  /\ future = [p \in Prompts |-> "none"]
  /\ outcome = [p \in Prompts |-> "none"]

Websocket(d) == IF table[d] = 0 THEN NoSocket ELSE states[table[d]].ws
IsOpen(c) == c # NoSocket /\ open[c]

InLine(x) == \E i \in DOMAIN line : line[i][2] = x
Registering(d) == (\E c \in Sockets : lock = <<c, d>>)
                  \/ \E i \in DOMAIN line : line[i][1] = "register" /\ line[i][3] = d

-----------------------------------------------------------------------------
(* Critical sections, each with what its coroutine goes on to do before it  *)
(* suspends again.  rest is the line behind it.                             *)

\* The handler sends its reply and reads on, or fails because its WebSocket
\* has been closed under it.
ReadOn(c) == stage' = [stage EXCEPT ![c] = IF open[c] THEN "reading" ELSE "leaving"]

\* _fail_pending_for_device.
FailPending(d) ==
  LET hers == {p \in pending : to[p] = d} IN
  /\ future' = [p \in Prompts |-> IF p \in hers /\ future[p] = "pending" THEN "failed"
                                  ELSE future[p]]
  /\ pending' = pending \ hers

\* (mutant of Beat) A heartbeat enters a state built from the device's information.
BeatAnew(d) ==
  IF table[d] = 0 THEN UNCHANGED states
  ELSE states' = [states EXCEPT ![table[d]] = [ws |-> NoSocket, online |-> TRUE]]

\* update_heartbeat: online, whether or not there is a WebSocket.
Beat(d) ==
  IF table[d] = 0 THEN UNCHANGED states
  ELSE states' = [states EXCEPT ![table[d]].online = TRUE]

\* (mutant of Install) The index is taken after the append.
InstallPastTheEnd(c, d) ==
  /\ states' = Append(states, [ws |-> c, online |-> TRUE])
  /\ table' = [table EXCEPT ![d] = Len(states') + 1]
  /\ named' = [named EXCEPT ![c] = d]
  /\ ReadOn(c)

\* A new state object takes the device's entry, and the handler has its name.
Install(c, d) ==
  /\ states' = Append(states, [ws |-> c, online |-> TRUE])
  /\ table' = [table EXCEPT ![d] = Len(states) + 1]
  /\ named' = [named EXCEPT ![c] = d]
  /\ ReadOn(c)

\* register_device: an open predecessor, be it the same connection, is closed first.
RegisterDevice(c, d, rest) ==
  /\ line' = rest
  /\ IF IsOpen(Websocket(d))
     THEN /\ open' = [open EXCEPT ![Websocket(d)] = FALSE]
          /\ lock' = <<c, d>>
          /\ UNCHANGED <<stage, named, states, table>>
     ELSE Install(c, d) /\ UNCHANGED <<open, lock>>
  /\ UNCHANGED <<alive, deleting, promptVars>>

\* (mutant of MarkOffline) Prompts under way are left to their timeout.
MarkOfflineQuietly(c, rest) ==
  LET d == named[c] IN
  /\ line' = rest
  /\ IF table[d] = 0 THEN UNCHANGED states
     ELSE states' = [states EXCEPT ![table[d]] = [ws |-> NoSocket, online |-> FALSE]]
  /\ open' = [open EXCEPT ![c] = @ /\ stage[c] = "reading"]
  /\ stage' = [stage EXCEPT ![c] = "gone"]
  /\ UNCHANGED <<named, alive, table, lock, deleting, promptVars>>

\* mark_offline(device_id): whatever state the device has now.  A handler that
\* failed closes its WebSocket afterwards.
MarkOffline(c, rest) ==
  LET d == named[c] IN
  /\ line' = rest
  /\ IF table[d] = 0 THEN UNCHANGED <<states, future, pending>>
     ELSE /\ states' = [states EXCEPT ![table[d]] = [ws |-> NoSocket, online |-> FALSE]]
          /\ FailPending(d)
  /\ open' = [open EXCEPT ![c] = @ /\ stage[c] = "reading"]
  /\ stage' = [stage EXCEPT ![c] = "gone"]
  /\ UNCHANGED <<named, alive, table, lock, deleting, sendVars, sender, outcome>>

\* ping, pong, prompt_ack.
Heartbeat(c, rest) ==
  /\ line' = rest
  /\ Beat(named[c]) /\ ReadOn(c)
  /\ UNCHANGED <<named, open, alive, table, lock, deleting, promptVars>>

\* update_capabilities fails for a device that was deleted, and with it the handler.
UpdateCapabilities(c, rest) ==
  /\ line' = rest
  /\ IF table[named[c]] = 0 THEN stage' = [stage EXCEPT ![c] = "leaving"] ELSE ReadOn(c)
  /\ UNCHANGED <<named, open, alive, states, table, lock, deleting, promptVars>>

\* handle_prompt_result: a heartbeat, and the future of a prompt that is still known,
\* whichever device answers.
HandleResult(c, p, rest) ==
  /\ line' = rest
  /\ Beat(named[c]) /\ ReadOn(c)
  /\ future' = [future EXCEPT ![p] = IF p \in pending /\ @ = "pending" THEN "answer" ELSE @]
  /\ pending' = pending \ {p}
  /\ UNCHANGED <<named, open, alive, table, lock, deleting, sendVars, sender, outcome>>

\* send_prompt returns or raises, and its finally clause runs.
Ends(p, how) ==
  /\ sender' = [sender EXCEPT ![p] = "done"]
  /\ outcome' = [outcome EXCEPT ![p] = how]
  /\ pending' = pending \ {p}

\* The prompt is entered in the table and sent over the WebSocket its state has by
\* now.  A peer that is gone shows at once or not at all.
Enlist(p, s, rest) ==
  LET ws == states[s].ws IN
  /\ line' = rest
  /\ \/ /\ IsOpen(ws)
        /\ future' = [future EXCEPT ![p] = "pending"]
        /\ sender' = [sender EXCEPT ![p] = "waiting"]
        /\ pending' = pending \cup {p}
        /\ sentOn' = [sentOn EXCEPT ![p] = ws]
        /\ got' = IF alive[ws] THEN got \cup {p} ELSE got
        /\ UNCHANGED <<open, outcome>>
     \/ /\ IsOpen(ws) /\ ~alive[ws]
        /\ open' = [open EXCEPT ![ws] = FALSE]
        /\ Ends(p, "sendFailed")
        /\ UNCHANGED <<future, sentOn, got>>
     \/ /\ ~IsOpen(ws)
        /\ Ends(p, IF ws = NoSocket THEN "attributeError" ELSE "sendFailed")
        /\ UNCHANGED <<open, future, sentOn, got>>
  /\ UNCHANGED <<stage, named, alive, states, table, lock, deleting>>

\* _get_active_state, and then the lock again: at once if nobody is in line.
Lookup(p, d, rest) ==
  LET s == table[d] IN
  IF IsOpen(Websocket(d)) /\ states[s].online
  THEN /\ via' = [via EXCEPT ![p] = s]
       /\ IF rest = <<>> THEN Enlist(p, s, rest)
          ELSE /\ line' = Append(rest, <<"enlist", p, d>>)
               /\ UNCHANGED <<sockVars, states, table, lock, deleting, sentOn, got,
                              sender, future, outcome, pending>>
  ELSE /\ line' = rest
       /\ Ends(p, "unavailable")
       /\ UNCHANGED <<sockVars, states, table, lock, deleting, sendVars, future>>

\* The heartbeat between the answer and the return.
Thanks(p, d, rest) ==
  /\ line' = rest
  /\ Beat(d) /\ Ends(p, "answer")
  /\ UNCHANGED <<sockVars, table, lock, deleting, sendVars, future>>

\* delete_device: the entry goes; an open WebSocket is closed without the lock, and
\* the prompts fail after that.
DeleteDevice(d, rest) ==
  /\ line' = rest
  /\ table' = [table EXCEPT ![d] = 0]
  /\ IF IsOpen(Websocket(d))
     THEN /\ open' = [open EXCEPT ![Websocket(d)] = FALSE]
          /\ deleting' = deleting \cup {d}
          /\ UNCHANGED <<future, pending>>
     ELSE /\ IF table[d] = 0 THEN UNCHANGED <<future, pending>> ELSE FailPending(d)
          /\ UNCHANGED <<open, deleting>>
  /\ UNCHANGED <<stage, named, alive, states, lock, sendVars, sender, outcome>>

Hold(e, rest) ==
  LET op == e[1] by == e[2] arg == e[3] IN
  \/ op = "register" /\ RegisterDevice(by, arg, rest)
  \/ op = "offline" /\ MarkOffline(by, rest)
  \/ op = "heartbeat" /\ Heartbeat(by, rest)
  \/ op = "capabilities" /\ UpdateCapabilities(by, rest)
  \/ op = "result" /\ HandleResult(by, arg, rest)
  \/ op = "lookup" /\ Lookup(by, arg, rest)
  \/ op = "enlist" /\ Enlist(by, via[by], rest) /\ UNCHANGED via
  \/ op = "thanks" /\ Thanks(by, arg, rest)
  \/ op = "delete" /\ DeleteDevice(by, rest)

-----------------------------------------------------------------------------
(* The lock.                                                                *)

\* (mutant of Take) The lock is not asked for.
TakeAtOnce(e) == Hold(e, line)

\* async with self._lock: straight on if it is free, else in line.
Take(e) ==
  IF lock = <<>> /\ line = <<>> THEN Hold(e, line)
  ELSE /\ line' = Append(line, e)
       /\ UNCHANGED <<sockVars, states, table, lock, deleting, promptVars>>

Turn ==
  /\ lock = <<>> /\ line # <<>>
  /\ Hold(Head(line), Tail(line))
  /\ UNCHANGED <<latest, to>>

\* The predecessor's WebSocket is closed and the lock released.
PredecessorClosed ==
  /\ lock # <<>>
  /\ lock' = <<>>
  /\ Install(lock[1], lock[2])
  /\ UNCHANGED <<open, alive, latest, line, deleting, to, promptVars>>

-----------------------------------------------------------------------------
(* The endpoint: a handler processes one message at a time.                  *)

Reads(c) == stage[c] = "reading" /\ ~InLine(c) /\ \A d \in Devices : lock # <<c, d>>

\* bound: a state object per registration.
MayRegister ==
  Len(states) + Cardinality({c \in Sockets : \E d \in Devices :
    lock = <<c, d>> \/ (\E i \in DOMAIN line : line[i] = <<"register", c, d>>)}) < MaxStates

\* A register message: the endpoint takes it whatever device the connection has
\* registered before, and its handler goes by the later one from then on.
Register(c, d) ==
  /\ Reads(c) /\ MayRegister
  /\ latest' = [latest EXCEPT ![d] = c]
  /\ Take(<<"register", c, d>>)
  /\ UNCHANGED to

Message(c) ==
  /\ Reads(c) /\ named[c] # NoDevice
  /\ \/ \E op \in {"heartbeat", "capabilities"} : Take(<<op, c, named[c]>>)
     \/ \E p \in got : Take(<<"result", c, p>>)
  /\ UNCHANGED <<latest, to>>

\* The peer or the network drops the connection.
Drop(c) ==
  /\ stage[c] # "gone" /\ alive[c]
  /\ alive' = [alive EXCEPT ![c] = FALSE]
  /\ UNCHANGED <<stage, named, open, states, table, latest, lock, line, deleting, to, promptVars>>

\* The handler's receive or send fails, and it marks its device offline.
Disconnect(c) ==
  /\ \/ Reads(c) /\ ~(alive[c] /\ open[c])
     \/ stage[c] = "leaving" /\ ~InLine(c)
  /\ IF named[c] = NoDevice
     THEN /\ stage' = [stage EXCEPT ![c] = "gone"]
          /\ UNCHANGED <<named, open, alive, states, table, lock, line, deleting, promptVars>>
     ELSE Take(<<"offline", c, named[c]>>)
  /\ UNCHANGED <<latest, to>>

-----------------------------------------------------------------------------
(* send_prompt and its caller.                                              *)

SendPrompt(p, d) ==
  /\ to[p] = NoDevice
  /\ to' = [to EXCEPT ![p] = d]
  /\ Take(<<"lookup", p, d>>)
  /\ UNCHANGED latest

\* (mutant of Wake) Only an answer wakes the sender.
WakeOnAnswer(p) ==
  /\ sender[p] = "waiting" /\ ~InLine(p)
  /\ future[p] = "answer" /\ Take(<<"thanks", p, to[p]>>)
  /\ UNCHANGED <<latest, to>>

\* wait_for returns the answer or raises the failure.
Wake(p) ==
  /\ sender[p] = "waiting" /\ ~InLine(p)
  /\ \/ future[p] = "answer" /\ Take(<<"thanks", p, to[p]>>)
     \/ /\ future[p] = "failed" /\ Ends(p, "disconnected")
        /\ UNCHANGED <<sockVars, states, table, lock, line, deleting, sendVars, future>>
  /\ UNCHANGED <<latest, to>>

\* (mutant of Timeout) The timer overrules an answer that has come.
TimeoutRegardless(p) ==
  /\ sender[p] = "waiting" /\ ~InLine(p)
  /\ Ends(p, "timeout")
  /\ UNCHANGED <<sockVars, states, table, latest, lock, line, deleting, to, sendVars, future>>

\* wait_for prefers a future that is done to its own timer.
Timeout(p) ==
  /\ sender[p] = "waiting" /\ future[p] = "pending"
  /\ Ends(p, "timeout")
  /\ UNCHANGED <<sockVars, states, table, latest, lock, line, deleting, to, sendVars, future>>

Without(q, i) == [j \in 1 .. Len(q) - 1 |-> q[IF j < i THEN j ELSE j + 1]]

\* The caller is cancelled, at any await; a waiter of the lock leaves the line.
Abandon(p) ==
  /\ to[p] # NoDevice /\ sender[p] # "done"
  /\ Ends(p, "abandoned")
  /\ IF InLine(p) THEN \E i \in DOMAIN line : line[i][2] = p /\ line' = Without(line, i)
     ELSE UNCHANGED line
  /\ UNCHANGED <<sockVars, states, table, latest, lock, deleting, to, sendVars, future>>

-----------------------------------------------------------------------------
(* DELETE /device-links/{device_id}.                                        *)

\* One administrator at a time.
Delete(d) ==
  /\ d \notin deleting /\ ~InLine(d)
  /\ Take(<<"delete", d, d>>)
  /\ UNCHANGED <<latest, to>>

WebsocketClosed(d) ==
  /\ d \in deleting
  /\ deleting' = deleting \ {d}
  /\ FailPending(d)
  /\ UNCHANGED <<sockVars, states, table, latest, lock, line, to, sendVars, sender, outcome>>

-----------------------------------------------------------------------------
Next ==
  \/ Turn \/ PredecessorClosed
  \/ \E c \in Sockets : \/ Message(c) \/ Drop(c) \/ Disconnect(c)
                        \/ \E d \in Devices : Register(c, d)
  \/ \E p \in Prompts : \/ Wake(p) \/ Timeout(p) \/ Abandon(p)
                        \/ \E d \in Devices : SendPrompt(p, d)
  \/ \E d \in Devices : Delete(d) \/ WebsocketClosed(d)

Spec == Init /\ [][Next]_vars

\* The loop runs ready tasks, a close comes back, and a timer fires.
Fairness ==
  /\ WF_vars(Turn) /\ WF_vars(PredecessorClosed)
  /\ \A d \in Devices : WF_vars(WebsocketClosed(d))
  /\ \A p \in Prompts : WF_vars(Wake(p)) /\ WF_vars(Timeout(p))

FairSpec == Spec /\ Fairness

-----------------------------------------------------------------------------
(* Properties.                                                              *)

\* Registrations take effect in the order their messages came, however long the
\* closes between them take: with none under way the table has the connection that
\* registered last, or none at all.
LatestRegistrationWins ==
  \A d \in Devices : ~Registering(d) => Websocket(d) \in {NoSocket, latest[d]}

\* The pending table has no entry without a sender that waits for it, and a sender
\* that nothing has come for has its entry, else no answer could find it.  Nor does it
\* wait for a connection that is gone: the handler that would receive the answer or
\* report the end is there, or a deletion is about to fail the prompt, or the connection
\* has registered another device since and reported only that one's end.
PendingMatchesSenders ==
  /\ \A p \in pending : sender[p] = "waiting"
  /\ \A p \in Prompts : sender[p] = "waiting" /\ future[p] = "pending" =>
       /\ p \in pending
       /\ \/ stage[sentOn[p]] # "gone"
          \/ to[p] \in deleting
          \/ named[sentOn[p]] # to[p]

\* An answer that was accepted is what send_prompt returns, unless its caller was
\* cancelled, even if the timer or a disconnect comes before it resumes.
AnswersAreUsed ==
  \A p \in Prompts : future[p] = "answer" /\ sender[p] = "done" =>
    outcome[p] \in {"answer", "abandoned"}

\* A device's answer is accepted with the future; only a caller that was cancelled
\* has no more use for it.
Decisions == INSTANCE Decision WITH
  Requests <- Prompts,
  Answers  <- {"answer"},
  Defaults <- Outcomes \ {"none", "answer"},
  Withdrawn <- {"abandoned"},
  binding  <- TRUE,
  asked    <- {p \in Prompts : to[p] # NoDevice},
  accepted <- [p \in Prompts |-> IF future[p] = "answer" THEN {"answer"} ELSE {}],
  verdict  <- outcome

\* Whatever timers, disconnects, deletions and cancelled callers do around it, a prompt
\* has one outcome, an answer that comes after it is not accepted, and one that was
\* accepted before is the outcome.
PromptsAreDecisions == Decisions!Spec

\* Whatever devices and administrators do, send_prompt ends.
PromptsEnd == \A p \in Prompts : to[p] # NoDevice ~> sender[p] = "done"

\* What register_device says of itself: a registration is recorded and its WebSocket
\* kept, for as long as the connection is up and the device has not been deleted.
KeepsItsWebSocket ==
  \A c \in Sockets, d \in Devices :
    latest[d] = c /\ Reads(c) /\ open[c] /\ alive[c] /\ table[d] # 0 => Websocket(d) = c

\* It is only ever an earlier connection of the same device, come to its end, that takes
\* the WebSocket of the latest one away: no other device, no heartbeat, no prompt that
\* failed to go out, no deletion under way.
LosesItToAPredecessorOnly ==
  \A c \in Sockets, d \in Devices :
    latest[d] = c /\ Reads(c) /\ table[d] # 0 =>
      Websocket(d) = c \/ \E b \in Sockets \ {c} : named[b] = d /\ stage[b] = "gone"

=============================================================================
