-------------------------- MODULE DeviceLink_proofs --------------------------
(***************************************************************************)
(* Proofs about DeviceLink for any devices, connections and prompts and any *)
(* number of registrations.                                                *)
(***************************************************************************)
EXTENDS DeviceLink, TLAPS

-----------------------------------------------------------------------------
(* The inductive invariant.                                                 *)

\* What a waiter of the lock wants is still right when its turn comes, whatever the
\* sections before it do: its handler or its sender has been waiting for it.
EntryOK(e) ==
  \/ e[1] = "register" /\ e[2] \in Sockets /\ e[3] \in Devices /\ stage[e[2]] = "reading"
  \/ e[1] \in {"offline", "heartbeat", "capabilities"} /\ e[2] \in Sockets
     /\ named[e[2]] \in Devices
  \/ e[1] = "result" /\ e[2] \in Sockets /\ named[e[2]] \in Devices /\ e[3] \in Prompts
  \/ e[1] = "lookup" /\ e[2] \in Prompts /\ e[3] \in Devices /\ sender[e[2]] = "busy"
  \/ /\ e[1] = "enlist" /\ e[2] \in Prompts /\ e[3] \in Devices /\ sender[e[2]] = "busy"
     /\ via[e[2]] \in 1 .. Len(states)
     /\ IsOpen(states[via[e[2]]].ws) => table[e[3]] = via[e[2]]
  \/ e[1] = "thanks" /\ e[2] \in Prompts /\ e[3] \in Devices
     /\ sender[e[2]] = "waiting" /\ future[e[2]] = "answer"
  \/ e[1] = "delete" /\ e[2] \in Devices

\* A sender's entry names the device of its prompt.
Addressed(e, dest) == e[1] \in {"lookup", "enlist", "thanks"} => dest[e[2]] = e[3]

\* A queue of such entries in which nobody waits twice.
QueueOK(q) ==
  \A i \in 1 .. Len(q) :
    /\ EntryOK(q[i])
    /\ Addressed(q[i], to)
    /\ \A j \in 1 .. Len(q) : q[j][2] = q[i][2] => i = j

\* The registration that holds the lock waits for a close that has been ordered.
LockInv ==
  \A c \in Sockets, d \in Devices : lock = <<c, d>> =>
    stage[c] = "reading" /\ ~IsOpen(Websocket(d)) /\ ~InLine(c)

\* Two devices share no state object.
TableInv == \A x, y \in Devices : table[x] = table[y] /\ table[x] # 0 => x = y

\* The handler of c has not reported the end of d, if that is what it goes by.
Stands(c, d) == named[c] = d => stage[c] # "gone"

\* A state object with an open WebSocket is the entry of some device, which the handler
\* of that WebSocket has not reported gone.
LiveInv ==
  \A s \in 1 .. Len(states) :
    IsOpen(states[s].ws) => \E d \in Devices : table[d] = s /\ Stands(states[s].ws, d)

\* A prompt went out on a connection, and as long as that speaks for its device there is
\* still somebody to report the end of it: the connection's handler, or a deletion.
Way(p) ==
  /\ sentOn[p] \in Sockets
  /\ named[sentOn[p]] = to[p] =>
       to[p] \in deleting \/ (table[to[p]] # 0 /\ stage[sentOn[p]] # "gone")

\* A prompt under way is in the pending table; one that is not yet has no future.
PromptOK(p) ==
  /\ p \in pending => sender[p] = "waiting"
  /\ sender[p] = "busy" => future[p] = "none"
  /\ sender[p] # "busy" => to[p] \in Devices
  /\ sender[p] = "waiting" /\ future[p] = "pending" => p \in pending /\ Way(p)
  /\ future[p] = "answer" /\ sender[p] = "done" => outcome[p] \in {"answer", "abandoned"}

PromptInv == \A p \in Prompts : PromptOK(p)

\* The last registration of a device in line, or else the one that holds the lock, or
\* else the one in effect, is the one whose message came last.
NoneFor(q, d) == \A i \in 1 .. Len(q) : ~(q[i][1] = "register" /\ q[i][3] = d)
LastFor(q, c, d) ==
  \E i \in 1 .. Len(q) :
    /\ q[i][1] = "register" /\ q[i][2] = c /\ q[i][3] = d
    /\ \A j \in i + 1 .. Len(q) : ~(q[j][1] = "register" /\ q[j][3] = d)

OrderOK(d) ==
  \/ LastFor(line, latest[d], d)
  \/ NoneFor(line, d) /\ lock = <<latest[d], d>>
  \/ /\ NoneFor(line, d) /\ \A c \in Sockets : lock # <<c, d>>
     /\ Websocket(d) \in {NoSocket, latest[d]}

OrderInv == \A d \in Devices : OrderOK(d)

LinkInv == TypeOK /\ QueueOK(line) /\ LockInv /\ TableInv /\ LiveInv /\ PromptInv
IInv == LinkInv /\ OrderInv

-----------------------------------------------------------------------------
(* Queues.                                                                  *)

LEMMA TailShifts ==
  ASSUME NEW S, NEW q \in Seq(S), q # <<>>
  PROVE  /\ Head(q) = q[1] /\ 1 \in 1 .. Len(q) /\ q[1] \in S
         /\ Tail(q) \in Seq(S) /\ Len(Tail(q)) = Len(q) - 1
         /\ \A i \in 1 .. Len(Tail(q)) : Tail(q)[i] = q[i + 1] /\ i + 1 \in 1 .. Len(q)
  OBVIOUS

LEMMA AppendAddsLast ==
  ASSUME NEW S, NEW q \in Seq(S), NEW x \in S
  PROVE  /\ Append(q, x) \in Seq(S) /\ Len(Append(q, x)) = Len(q) + 1
         /\ \A i \in 1 .. Len(q) : Append(q, x)[i] = q[i]
         /\ Append(q, x)[Len(q) + 1] = x
  OBVIOUS

\* Without an entry a queue is the others in their order.
LEMMA WithoutSkips ==
  ASSUME NEW S, NEW q \in Seq(S), NEW i \in 1 .. Len(q)
  PROVE  /\ Without(q, i) \in Seq(S) /\ Len(Without(q, i)) = Len(q) - 1
         /\ \A j \in 1 .. Len(q) - 1 :
              Without(q, i)[j] = q[IF j < i THEN j ELSE j + 1]
<1>1. Len(q) - 1 \in Nat /\ 1 .. Len(q) - 1 = 1 .. (Len(q) - 1)
  OBVIOUS
<1>2. \A j \in 1 .. Len(q) - 1 : q[IF j < i THEN j ELSE j + 1] \in S
  OBVIOUS
<1>3. Without(q, i) \in [1 .. Len(q) - 1 -> S]
  BY <1>2 DEF Without
<1>4. Without(q, i) \in Seq(S) /\ Len(Without(q, i)) = Len(q) - 1
  BY <1>1, <1>3
<1> QED
  BY <1>4 DEF Without

-----------------------------------------------------------------------------
(* What a critical section finds and what it leaves.                        *)

\* A section of an entry whose turn has come, with the line behind it.
Serves(e, rest) ==
  /\ lock = <<>> /\ EntryOK(e)
  /\ rest \in Seq(Entries) /\ QueueOK(rest)
  /\ \A i \in 1 .. Len(rest) : rest[i][2] # e[2]
  /\ Hold(e, rest)
  /\ latest' \in [Devices -> Sockets \cup {NoSocket}]
  /\ to' \in [Prompts -> Devices \cup {NoDevice}]
  /\ \A p \in Prompts : p # e[2] \/ to[p] # NoDevice => to'[p] = to[p]
  /\ Addressed(e, to')

LEMMA EntriesTyped ==
  ASSUME NEW e, EntryOK(e)
  PROVE  /\ e[1] \in {"register", "offline", "heartbeat", "capabilities", "result"} =>
              e[2] \in Sockets /\ e[2] # NoSocket
         /\ e[1] = "register" => e[3] \in Devices
         /\ e[1] \in {"offline", "heartbeat", "capabilities", "result"} => named[e[2]] \in Devices
         /\ e[1] = "result" => e[3] \in Prompts
         /\ e[1] \in {"lookup", "enlist", "thanks"} => e[2] \in Prompts /\ e[3] \in Devices
         /\ e[1] = "enlist" => via[e[2]] \in 1 .. Len(states)
         /\ e[1] = "delete" => e[2] \in Devices
         /\ e[1] \in Ops
  BY SocketAssumption DEF EntryOK, Ops

-----------------------------------------------------------------------------
(* The state objects.                                                       *)

LEMMA ObjectsTyped ==
  /\ \A c \in Sockets : [ws |-> c, online |-> TRUE] \in StateObjects
  /\ [ws |-> NoSocket, online |-> FALSE] \in StateObjects
  /\ \A o \in StateObjects : /\ [o EXCEPT !.online = TRUE] \in StateObjects
                             /\ [o EXCEPT !.online = TRUE].ws = o.ws
                             /\ o.ws \in Sockets \cup {NoSocket}
  BY DEF StateObjects

LEMMA WebsocketsTyped ==
  ASSUME TypeOK
  PROVE  /\ \A s \in 1 .. Len(states) : states[s].ws \in Sockets \cup {NoSocket}
         /\ \A d \in Devices :
              /\ Websocket(d) \in Sockets \cup {NoSocket}
              /\ table[d] # 0 => table[d] \in 1 .. Len(states) /\ Websocket(d) = states[table[d]].ws
              /\ IsOpen(Websocket(d)) => table[d] # 0 /\ Websocket(d) \in Sockets
<1>1. states \in Seq(StateObjects) /\ table \in [Devices -> 0 .. Len(states)]
  BY DEF TypeOK
<1>2. \A s \in 1 .. Len(states) : states[s] \in StateObjects
  BY <1>1
<1>3. \A o \in StateObjects : o.ws \in Sockets \cup {NoSocket}
  BY DEF StateObjects
<1>4. \A s \in 1 .. Len(states) : states[s].ws \in Sockets \cup {NoSocket}
  BY <1>2, <1>3
<1>5. \A d \in Devices : table[d] # 0 => table[d] \in 1 .. Len(states)
  BY <1>1
<1> QED
  BY <1>4, <1>5 DEF Websocket, IsOpen

\* A heartbeat leaves the WebSockets alone.
LEMMA BeatKeeps ==
  ASSUME TypeOK, NEW d \in Devices, Beat(d)
  PROVE  /\ states' \in Seq(StateObjects) /\ Len(states') = Len(states)
         /\ \A s \in 1 .. Len(states) : states'[s].ws = states[s].ws
<1>1. CASE table[d] = 0
  BY <1>1 DEF Beat, TypeOK
<1>2. CASE table[d] # 0
  <2> DEFINE s0 == table[d]
  <2>1. s0 \in 1 .. Len(states) /\ states \in Seq(StateObjects)
    BY <1>2 DEF TypeOK
  <2>2. states' = [states EXCEPT ![s0] = [states[s0] EXCEPT !.online = TRUE]]
    BY <1>2, <2>1 DEF Beat
  <2>3. states[s0] \in StateObjects
    BY <2>1
  <2> HIDE DEF s0
  <2> DEFINE o == [states[s0] EXCEPT !.online = TRUE]
  <2>4. o \in StateObjects /\ o.ws = states[s0].ws
    BY <2>3, ObjectsTyped
  <2>5. states' = [states EXCEPT ![s0] = o]
    BY <2>2
  <2> HIDE DEF o
  <2> QED
    BY <2>1, <2>4, <2>5
<1> QED
  BY <1>1, <1>2

\* Entries are never taken back to an older object, and an object only loses its WebSocket.
LEMMA HoldObjects ==
  ASSUME TypeOK, NEW e, EntryOK(e), NEW rest, Hold(e, rest)
  PROVE  /\ states' \in Seq(StateObjects) /\ Len(states') >= Len(states)
         /\ \A s \in 1 .. Len(states) : states'[s].ws \in {states[s].ws, NoSocket}
         /\ table' \in [Devices -> 0 .. Len(states')]
         /\ e[1] # "register" => Len(states') = Len(states)
         /\ e[1] \notin {"register", "delete"} => table' = table
         /\ e[1] # "delete" => \A d \in Devices : table[d] # 0 => table'[d] # 0
<1> DEFINE op == e[1] by == e[2] arg == e[3]
<1>1. states \in Seq(StateObjects) /\ table \in [Devices -> 0 .. Len(states)]
  BY DEF TypeOK
<1>2. ASSUME UNCHANGED <<states, table>>
      PROVE  /\ states' \in Seq(StateObjects) /\ Len(states') >= Len(states)
             /\ \A s \in 1 .. Len(states) : states'[s].ws \in {states[s].ws, NoSocket}
             /\ table' \in [Devices -> 0 .. Len(states')]
             /\ Len(states') = Len(states) /\ table' = table
  BY <1>1, <1>2
<1>3. ASSUME NEW d \in Devices, Beat(d), UNCHANGED table
      PROVE  /\ states' \in Seq(StateObjects) /\ Len(states') >= Len(states)
             /\ \A s \in 1 .. Len(states) : states'[s].ws \in {states[s].ws, NoSocket}
             /\ table' \in [Devices -> 0 .. Len(states')]
             /\ Len(states') = Len(states) /\ table' = table
  BY <1>1, <1>3, BeatKeeps
<1>4. CASE op = "register" /\ RegisterDevice(by, arg, rest)
  <2>1. by \in Sockets /\ arg \in Devices
    BY <1>4, EntriesTyped
  <2>2. CASE IsOpen(Websocket(arg))
    BY <1>2, <1>4, <2>2 DEF RegisterDevice
  <2>3. CASE ~IsOpen(Websocket(arg))
    <3>1. /\ states' = Append(states, [ws |-> by, online |-> TRUE])
          /\ table' = [table EXCEPT ![arg] = Len(states) + 1]
      BY <1>4, <2>3 DEF RegisterDevice, Install
    <3>2. [ws |-> by, online |-> TRUE] \in StateObjects
      BY <2>1, ObjectsTyped
    <3> QED
      BY <1>1, <1>4, <2>1, <3>1, <3>2, AppendAddsLast
  <2> QED
    BY <2>2, <2>3
<1>5. CASE op = "offline" /\ MarkOffline(by, rest)
  <2>1. named[by] \in Devices
    BY <1>5, EntriesTyped
  <2>2. CASE table[named[by]] = 0
    BY <1>2, <1>5, <2>2 DEF MarkOffline
  <2>3. CASE table[named[by]] # 0
    <3> DEFINE s0 == table[named[by]] o == [ws |-> NoSocket, online |-> FALSE]
    <3>1. s0 \in 1 .. Len(states)
      BY <1>1, <2>1, <2>3
    <3>2. states' = [states EXCEPT ![s0] = o] /\ table' = table
      BY <1>5, <2>3 DEF MarkOffline
    <3>3. o \in StateObjects /\ o.ws = NoSocket
      BY ObjectsTyped
    <3> HIDE DEF s0, o
    <3> QED
      BY <1>1, <3>1, <3>2, <3>3
  <2> QED
    BY <2>2, <2>3
<1>6. CASE op = "heartbeat" /\ Heartbeat(by, rest)
  BY <1>3, <1>6, EntriesTyped DEF Heartbeat
<1>7. CASE op = "capabilities" /\ UpdateCapabilities(by, rest)
  BY <1>2, <1>7 DEF UpdateCapabilities
<1>8. CASE op = "result" /\ HandleResult(by, arg, rest)
  BY <1>3, <1>8, EntriesTyped DEF HandleResult
<1>9. CASE op = "lookup" /\ Lookup(by, arg, rest)
  BY <1>2, <1>9 DEF Lookup, Enlist
<1>10. CASE op = "enlist" /\ Enlist(by, via[by], rest) /\ UNCHANGED via
  BY <1>2, <1>10 DEF Enlist
<1>11. CASE op = "thanks" /\ Thanks(by, arg, rest)
  BY <1>3, <1>11, EntriesTyped DEF Thanks
<1>12. CASE op = "delete" /\ DeleteDevice(by, rest)
  <2>1. by \in Devices /\ states' = states /\ table' = [table EXCEPT ![by] = 0]
    BY <1>12, EntriesTyped DEF DeleteDevice
  <2> QED
    BY <1>1, <1>12, <2>1
<1> QED
  BY <1>4, <1>5, <1>6, <1>7, <1>8, <1>9, <1>10, <1>11, <1>12 DEF Hold

-----------------------------------------------------------------------------
(* The connections.                                                         *)

SocksTyped ==
  /\ stage \in [Sockets -> {"reading", "leaving", "gone"}]
  /\ named \in [Sockets -> Devices \cup {NoDevice}]
  /\ open \in [Sockets -> BOOLEAN] /\ alive \in [Sockets -> BOOLEAN]

\* A section moves its own handler only; it names, or renames, a connection whose register
\* message it serves, and marks one gone whose end it reports.  No WebSocket reopens.
LEMMA HoldSocks ==
  ASSUME TypeOK, NEW e, EntryOK(e), NEW rest, Hold(e, rest)
  PROVE  /\ SocksTyped'
         /\ \A c \in Sockets :
              /\ open'[c] => open[c]
              /\ c # e[2] \/ e[1] # "register" => named'[c] = named[c]
              /\ named[c] \in Devices => named'[c] \in Devices
              /\ c # e[2] => stage'[c] = stage[c]
              /\ stage'[c] = "gone" => stage[c] = "gone" \/ (c = e[2] /\ e[1] = "offline")
<1> DEFINE op == e[1] by == e[2] arg == e[3]
           Goal == /\ SocksTyped'
                   /\ \A c \in Sockets :
                        /\ open'[c] => open[c]
                        /\ c # by \/ op # "register" => named'[c] = named[c]
                        /\ named[c] \in Devices => named'[c] \in Devices
                        /\ c # by => stage'[c] = stage[c]
                        /\ stage'[c] = "gone" => stage[c] = "gone" \/ (c = by /\ op = "offline")
<1>1. SocksTyped
  BY DEF TypeOK, SocksTyped
<1>2. ASSUME NEW c \in Sockets, c = by, ReadOn(c), UNCHANGED <<named, open, alive>> PROVE Goal
  BY <1>1, <1>2 DEF SocksTyped, ReadOn
<1>3. ASSUME UNCHANGED <<stage, named, alive>>,
             \/ open' = open
             \/ \E c \in Sockets : open' = [open EXCEPT ![c] = FALSE]
      PROVE  Goal
  BY <1>1, <1>3 DEF SocksTyped
<1>4. CASE op = "register" /\ RegisterDevice(by, arg, rest)
  <2>1. by \in Sockets /\ arg \in Devices
    BY <1>4 DEF EntryOK
  <2>2. CASE IsOpen(Websocket(arg))
    <3>1. Websocket(arg) \in Sockets
      BY <2>1, <2>2, WebsocketsTyped
    <3> QED
      BY <1>3, <1>4, <2>2, <3>1 DEF RegisterDevice
  <2>3. CASE ~IsOpen(Websocket(arg))
    <3>1. /\ stage' = [stage EXCEPT ![by] = IF open[by] THEN "reading" ELSE "leaving"]
          /\ named' = [named EXCEPT ![by] = arg] /\ open' = open /\ alive' = alive
      BY <1>4, <2>3 DEF RegisterDevice, Install, ReadOn
    <3> QED
      BY <1>1, <1>4, <2>1, <3>1 DEF SocksTyped
  <2> QED
    BY <2>2, <2>3
<1>5. CASE op = "offline" /\ MarkOffline(by, rest)
  <2>1. /\ stage' = [stage EXCEPT ![by] = "gone"] /\ named' = named /\ alive' = alive
        /\ open' = [open EXCEPT ![by] = open[by] /\ stage[by] = "reading"]
    BY <1>5 DEF MarkOffline
  <2> QED
    BY <1>1, <1>5, <2>1, EntriesTyped DEF SocksTyped
<1>6. CASE op = "heartbeat" /\ Heartbeat(by, rest)
  BY <1>2, <1>6, EntriesTyped DEF Heartbeat
<1>7. CASE op = "capabilities" /\ UpdateCapabilities(by, rest)
  <2>1. CASE table[named[by]] = 0
    BY <1>1, <1>7, <2>1, EntriesTyped DEF UpdateCapabilities, SocksTyped
  <2>2. CASE table[named[by]] # 0
    BY <1>2, <1>7, <2>2, EntriesTyped DEF UpdateCapabilities
  <2> QED
    BY <2>1, <2>2
<1>8. CASE op = "result" /\ HandleResult(by, arg, rest)
  BY <1>2, <1>8, EntriesTyped DEF HandleResult
<1>9. ASSUME NEW p, NEW s \in 1 .. Len(states), Enlist(p, s, rest) PROVE Goal
  <2>1. states[s].ws # NoSocket => states[s].ws \in Sockets
    BY WebsocketsTyped
  <2> QED
    BY <1>3, <1>9, <2>1 DEF Enlist, IsOpen
<1>10. CASE op = "lookup" /\ Lookup(by, arg, rest)
  <2>1. arg \in Devices
    BY <1>10, EntriesTyped
  <2>2. CASE table[arg] = 0
    BY <1>3, <1>10, <2>2 DEF Lookup, Websocket, IsOpen, sockVars
  <2>3. CASE table[arg] # 0
    <3>1. table[arg] \in 1 .. Len(states)
      BY <2>1, <2>3 DEF TypeOK
    <3> QED
      BY <1>3, <1>9, <1>10, <3>1 DEF Lookup, sockVars
  <2> QED
    BY <2>2, <2>3
<1>11. CASE op = "enlist" /\ Enlist(by, via[by], rest) /\ UNCHANGED via
  BY <1>9, <1>11, EntriesTyped
<1>12. CASE op = "thanks" /\ Thanks(by, arg, rest)
  BY <1>3, <1>12 DEF Thanks, sockVars
<1>13. CASE op = "delete" /\ DeleteDevice(by, rest)
  <2>1. IsOpen(Websocket(by)) => Websocket(by) \in Sockets
    BY <1>13, EntriesTyped, WebsocketsTyped
  <2> QED
    BY <1>3, <1>13, <2>1 DEF DeleteDevice
<1> QED
  BY <1>4, <1>5, <1>6, <1>7, <1>8, <1>10, <1>11, <1>12, <1>13 DEF Hold

-----------------------------------------------------------------------------
(* The prompts.                                                             *)

PromptsTyped ==
  /\ via \in [Prompts -> 0 .. Len(states)]
  /\ sentOn \in [Prompts -> Sockets \cup {NoSocket}]
  /\ got \subseteq Prompts
  /\ sender \in [Prompts -> {"busy", "waiting", "done"}]
  /\ future \in [Prompts -> {"none", "pending", "answer", "failed"}]
  /\ outcome \in [Prompts -> Outcomes]
  /\ pending \subseteq Prompts

LEMMA EnlistTypes ==
  ASSUME TypeOK, NEW p \in Prompts, NEW s \in 1 .. Len(states), NEW rest, Enlist(p, s, rest)
  PROVE  /\ sentOn' \in [Prompts -> Sockets \cup {NoSocket}] /\ got' \subseteq Prompts
         /\ sender' \in [Prompts -> {"busy", "waiting", "done"}]
         /\ future' \in [Prompts -> {"none", "pending", "answer", "failed"}]
         /\ outcome' \in [Prompts -> Outcomes] /\ pending' \subseteq Prompts
         /\ \A q \in Prompts \ {p} : sender'[q] = sender[q] /\ future'[q] = future[q]
<1>1. PromptsTyped
  BY DEF TypeOK, PromptsTyped
<1>2. states[s].ws \in Sockets \cup {NoSocket}
  BY WebsocketsTyped
<1> QED
  BY <1>1, <1>2 DEF Enlist, Ends, PromptsTyped, Outcomes

\* A section moves its own sender only, and a future that is done stays as it is.
LEMMA HoldPromptsTyped ==
  ASSUME TypeOK, NEW e, EntryOK(e), NEW rest, Hold(e, rest)
  PROVE  /\ PromptsTyped'
         /\ \A p \in Prompts : p # e[2] =>
              /\ sender'[p] = sender[p] /\ via'[p] = via[p]
              /\ future[p] # "pending" => future'[p] = future[p]
<1> DEFINE op == e[1] by == e[2] arg == e[3]
           Goal == /\ PromptsTyped'
                   /\ \A p \in Prompts : p # by =>
                        /\ sender'[p] = sender[p] /\ via'[p] = via[p]
                        /\ future[p] # "pending" => future'[p] = future[p]
<1>1. PromptsTyped /\ Len(states) \in Nat /\ Len(states') \in Nat /\ Len(states') >= Len(states)
  BY HoldObjects DEF TypeOK, PromptsTyped
<1>2. via \in [Prompts -> 0 .. Len(states')]
  BY <1>1 DEF PromptsTyped
<1>3. ASSUME UNCHANGED promptVars PROVE Goal
  BY <1>1, <1>2, <1>3 DEF PromptsTyped, promptVars, sendVars
<1>4. ASSUME NEW d, FailPending(d), UNCHANGED <<sendVars, sender, outcome>> PROVE Goal
  BY <1>1, <1>2, <1>4 DEF PromptsTyped, FailPending, sendVars
<1>5. ASSUME NEW p \in Prompts, NEW how \in Outcomes, p = by, Ends(p, how),
             UNCHANGED <<sendVars, future>>
      PROVE  Goal
  BY <1>1, <1>2, <1>5 DEF PromptsTyped, Ends, sendVars
<1>6. CASE op = "register" /\ RegisterDevice(by, arg, rest)
  BY <1>3, <1>6 DEF RegisterDevice
<1>7. CASE op = "offline" /\ MarkOffline(by, rest)
  <2>1. CASE table[named[by]] = 0
    BY <1>3, <1>7, <2>1 DEF MarkOffline, promptVars, sendVars
  <2>2. CASE table[named[by]] # 0
    BY <1>4, <1>7, <2>2 DEF MarkOffline
  <2> QED
    BY <2>1, <2>2
<1>8. CASE op = "heartbeat" /\ Heartbeat(by, rest)
  BY <1>3, <1>8 DEF Heartbeat
<1>9. CASE op = "capabilities" /\ UpdateCapabilities(by, rest)
  BY <1>3, <1>9 DEF UpdateCapabilities
<1>10. CASE op = "result" /\ HandleResult(by, arg, rest)
  BY <1>1, <1>2, <1>10, EntriesTyped DEF HandleResult, PromptsTyped, sendVars
<1>11. ASSUME NEW s \in 1 .. Len(states), by \in Prompts, Enlist(by, s, rest),
              via' = via \/ via' = [via EXCEPT ![by] = s]
       PROVE  Goal
  <2>1. via' \in [Prompts -> 0 .. Len(states')] /\ \A p \in Prompts \ {by} : via'[p] = via[p]
    BY <1>1, <1>2, <1>11
  <2> QED
    BY <1>11, <2>1, EnlistTypes DEF PromptsTyped
<1>12. CASE op = "lookup" /\ Lookup(by, arg, rest)
  <2>1. by \in Prompts /\ arg \in Devices
    BY <1>12, EntriesTyped
  <2>2. CASE ~(IsOpen(Websocket(arg)) /\ states[table[arg]].online)
    <3>1. Ends(by, "unavailable") /\ UNCHANGED <<sendVars, future>>
      BY <1>12, <2>2 DEF Lookup
    <3> QED
      BY <1>5, <2>1, <3>1 DEF Outcomes
  <2>3. CASE IsOpen(Websocket(arg)) /\ states[table[arg]].online
    <3>1. table[arg] \in 1 .. Len(states)
      BY <2>1, <2>3 DEF TypeOK, Websocket, IsOpen
    <3>2. CASE rest = <<>>
      BY <1>11, <1>12, <2>1, <2>3, <3>1, <3>2 DEF Lookup
    <3>3. CASE rest # <<>>
      <4>1. /\ via' = [via EXCEPT ![by] = table[arg]]
            /\ UNCHANGED <<sentOn, got, sender, future, outcome, pending>>
        BY <1>12, <2>3, <3>3 DEF Lookup
      <4> QED
        BY <1>1, <1>2, <2>1, <3>1, <4>1 DEF PromptsTyped
    <3> QED
      BY <3>2, <3>3
  <2> QED
    BY <2>2, <2>3
<1>13. CASE op = "enlist" /\ Enlist(by, via[by], rest) /\ UNCHANGED via
  BY <1>11, <1>13, EntriesTyped
<1>14. CASE op = "thanks" /\ Thanks(by, arg, rest)
  BY <1>5, <1>14, EntriesTyped DEF Thanks, Outcomes
<1>15. CASE op = "delete" /\ DeleteDevice(by, rest)
  <2>1. CASE IsOpen(Websocket(by)) \/ table[by] = 0
    BY <1>3, <1>15, <2>1 DEF DeleteDevice, promptVars, sendVars
  <2>2. CASE ~IsOpen(Websocket(by)) /\ table[by] # 0
    BY <1>4, <1>15, <2>2 DEF DeleteDevice
  <2> QED
    BY <2>1, <2>2
<1> QED
  BY <1>6, <1>7, <1>8, <1>9, <1>10, <1>12, <1>13, <1>14, <1>15 DEF Hold

-----------------------------------------------------------------------------
(* The line, the lock and the deletions.                                    *)

\* A section leaves the line behind it as it is, but for a lookup that asks for the
\* lock again; it keeps the lock only to close a predecessor's WebSocket.
LEMMA HoldLine ==
  ASSUME TypeOK, NEW e, EntryOK(e), NEW rest \in Seq(Entries), Hold(e, rest), lock = <<>>
  PROVE  /\ \/ line' = rest
            \/ /\ e[1] = "lookup" /\ line' = Append(rest, <<"enlist", e[2], e[3]>>)
               /\ IsOpen(Websocket(e[3])) /\ UNCHANGED <<sockVars, states, table, sender, future>>
               /\ via' = [via EXCEPT ![e[2]] = table[e[3]]]
         /\ \/ lock' = <<>>
            \/ /\ e[1] = "register" /\ lock' = <<e[2], e[3]>> /\ line' = rest
               /\ UNCHANGED <<stage, named, states, table>> /\ ~IsOpen(Websocket(e[3]))'
         /\ deleting \subseteq deleting' /\ deleting' \subseteq Devices
<1> DEFINE op == e[1] by == e[2] arg == e[3]
<1>1. deleting \subseteq Devices /\ open \in [Sockets -> BOOLEAN]
  BY DEF TypeOK
<1>2. CASE op = "register" /\ RegisterDevice(by, arg, rest)
  <2>1. arg \in Devices
    BY <1>2, EntriesTyped
  <2>2. CASE IsOpen(Websocket(arg))
    <3>1. Websocket(arg) \in Sockets
      BY <2>1, <2>2, WebsocketsTyped
    <3>2. /\ open' = [open EXCEPT ![Websocket(arg)] = FALSE] /\ lock' = <<by, arg>>
          /\ line' = rest /\ UNCHANGED <<stage, named, states, table, deleting>>
      BY <1>2, <2>2 DEF RegisterDevice
    <3>3. Websocket(arg)' = Websocket(arg)
      BY <3>2 DEF Websocket
    <3>4. ~IsOpen(Websocket(arg))'
      BY <1>1, <3>1, <3>2, <3>3 DEF IsOpen
    <3> QED
      BY <1>1, <1>2, <3>2, <3>4
  <2>3. CASE ~IsOpen(Websocket(arg))
    BY <1>1, <1>2, <2>3 DEF RegisterDevice
  <2> QED
    BY <2>2, <2>3
<1>3. CASE op = "offline" /\ MarkOffline(by, rest)
  BY <1>1, <1>3 DEF MarkOffline
<1>4. CASE op = "heartbeat" /\ Heartbeat(by, rest)
  BY <1>1, <1>4 DEF Heartbeat
<1>5. CASE op = "capabilities" /\ UpdateCapabilities(by, rest)
  BY <1>1, <1>5 DEF UpdateCapabilities
<1>6. CASE op = "result" /\ HandleResult(by, arg, rest)
  BY <1>1, <1>6 DEF HandleResult
<1>7. CASE op = "lookup" /\ Lookup(by, arg, rest)
  BY <1>1, <1>7 DEF Lookup, Enlist
<1>8. CASE op = "enlist" /\ Enlist(by, via[by], rest) /\ UNCHANGED via
  BY <1>1, <1>8 DEF Enlist
<1>9. CASE op = "thanks" /\ Thanks(by, arg, rest)
  BY <1>1, <1>9 DEF Thanks
<1>10. CASE op = "delete" /\ DeleteDevice(by, rest)
  BY <1>1, <1>10, EntriesTyped DEF DeleteDevice
<1> QED
  BY <1>2, <1>3, <1>4, <1>5, <1>6, <1>7, <1>8, <1>9, <1>10 DEF Hold

LEMMA HoldTypes == ASSUME TypeOK, NEW e, NEW rest, Serves(e, rest) PROVE TypeOK'
<1>1. EntryOK(e) /\ rest \in Seq(Entries) /\ Hold(e, rest) /\ lock = <<>>
  BY DEF Serves
<1>2. SocksTyped'
  BY <1>1, HoldSocks
<1>3. states' \in Seq(StateObjects) /\ table' \in [Devices -> 0 .. Len(states')]
  BY <1>1, HoldObjects
<1>4. PromptsTyped'
  BY <1>1, HoldPromptsTyped
<1>5. deleting' \subseteq Devices
  BY <1>1, HoldLine
<1>6. lock' \in {<<>>} \cup (Sockets \X Devices)
  <2>1. lock' = <<>> \/ (e[1] = "register" /\ lock' = <<e[2], e[3]>>)
    BY <1>1, HoldLine
  <2> QED
    BY <1>1, <2>1, EntriesTyped
<1>7. line' \in Seq(Entries)
  <2>1. line' = rest \/ (e[1] = "lookup" /\ line' = Append(rest, <<"enlist", e[2], e[3]>>))
    BY <1>1, HoldLine
  <2>2. e[1] = "lookup" => <<"enlist", e[2], e[3]>> \in Entries
    BY <1>1, EntriesTyped DEF Entries, Ops
  <2> QED
    BY <1>1, <2>1, <2>2, AppendAddsLast
<1>8. latest' \in [Devices -> Sockets \cup {NoSocket}] /\ to' \in [Prompts -> Devices \cup {NoDevice}]
  BY DEF Serves
<1> QED
  BY <1>2, <1>3, <1>4, <1>5, <1>6, <1>7, <1>8 DEF TypeOK, SocksTyped, PromptsTyped

\* No section takes the entry of a device away whose WebSocket is open and stays so.
LEMMA OpenEntryStays ==
  ASSUME TypeOK, NEW e, EntryOK(e), NEW rest, Hold(e, rest), NEW d \in Devices,
         IsOpen(Websocket(d)), open'[Websocket(d)]
  PROVE  table'[d] = table[d]
<1> DEFINE op == e[1] by == e[2] arg == e[3]
<1>1. table \in [Devices -> 0 .. Len(states)] /\ open \in [Sockets -> BOOLEAN]
      /\ Websocket(d) \in Sockets
  BY WebsocketsTyped DEF TypeOK
<1>2. CASE op = "register"
  <2>1. RegisterDevice(by, arg, rest) /\ arg \in Devices
    BY <1>2, EntriesTyped DEF Hold
  <2>2. CASE IsOpen(Websocket(arg))
    BY <2>1, <2>2 DEF RegisterDevice
  <2>3. CASE ~IsOpen(Websocket(arg))
    <3>1. table' = [table EXCEPT ![arg] = Len(states) + 1] /\ arg # d
      BY <2>1, <2>3 DEF RegisterDevice, Install
    <3> QED
      BY <1>1, <2>1, <3>1
  <2> QED
    BY <2>2, <2>3
<1>3. CASE op = "delete"
  <2>1. DeleteDevice(by, rest) /\ by \in Devices
    BY <1>3, EntriesTyped DEF Hold
  <2>2. table' = [table EXCEPT ![by] = 0]
    BY <2>1 DEF DeleteDevice
  <2>3. by # d
    <3> SUFFICES ASSUME by = d PROVE FALSE
      OBVIOUS
    <3>1. open' = [open EXCEPT ![Websocket(d)] = FALSE]
      BY <2>1 DEF DeleteDevice
    <3> QED
      BY <1>1, <3>1
  <2> QED
    BY <1>1, <2>1, <2>2, <2>3
<1>4. CASE op \notin {"register", "delete"}
  BY <1>4, HoldObjects
<1> QED
  BY <1>2, <1>3, <1>4

\* What a waiter wants is still right after the section of another.
LEMMA OthersStayOK ==
  ASSUME TypeOK, NEW x, EntryOK(x),
         states' \in Seq(StateObjects), Len(states') >= Len(states),
         \A s \in 1 .. Len(states) : states'[s].ws \in {states[s].ws, NoSocket},
         \A c \in Sockets : open'[c] => open[c],
         \A d \in Devices : IsOpen(Websocket(d)) /\ open'[Websocket(d)] => table'[d] = table[d],
         x[2] \in Sockets => named'[x[2]] = named[x[2]] /\ stage'[x[2]] = stage[x[2]],
         x[2] \in Prompts => sender'[x[2]] = sender[x[2]] /\ via'[x[2]] = via[x[2]],
         x[2] \in Prompts /\ future[x[2]] # "pending" => future'[x[2]] = future[x[2]]
  PROVE  EntryOK(x)'
<1>1. CASE x[1] = "enlist"
  <2> DEFINE p == x[2] s == via[x[2]] d == x[3]
  <2>1. /\ p \in Prompts /\ d \in Devices /\ sender[p] = "busy" /\ s \in 1 .. Len(states)
        /\ IsOpen(states[s].ws) => table[d] = s
    BY <1>1 DEF EntryOK
  <2>2. s \in 1 .. Len(states') /\ via'[p] = s /\ sender'[p] = "busy"
    BY <2>1 DEF TypeOK
  <2>3. ASSUME states'[s].ws # NoSocket, open'[states'[s].ws] PROVE table'[d] = s
    <3>1. states'[s].ws = states[s].ws /\ states[s].ws \in Sockets
      BY <2>1, <2>3, WebsocketsTyped
    <3>2. IsOpen(states[s].ws)
      BY <2>3, <3>1 DEF IsOpen
    <3>3. table[d] = s /\ Websocket(d) = states[s].ws
      BY <2>1, <3>2, WebsocketsTyped
    <3> QED
      BY <2>1, <2>3, <3>1, <3>2, <3>3
  <2> QED
    BY <1>1, <2>1, <2>2, <2>3 DEF EntryOK, IsOpen
<1>2. CASE x[1] # "enlist"
  BY <1>2 DEF EntryOK
<1> QED
  BY <1>1, <1>2

LEMMA HoldQueue ==
  ASSUME TypeOK, NEW e, NEW rest, Serves(e, rest) PROVE QueueOK(line)'
<1>1. EntryOK(e) /\ rest \in Seq(Entries) /\ Hold(e, rest) /\ lock = <<>> /\ QueueOK(rest)
  BY DEF Serves
<1>2. ASSUME NEW i \in 1 .. Len(rest)
      PROVE  EntryOK(rest[i])' /\ Addressed(rest[i], to)'
  <2> DEFINE x == rest[i]
  <2>1. x[2] # e[2] /\ EntryOK(x) /\ Addressed(x, to)
    BY <1>1 DEF Serves, QueueOK
  <2>2. x[1] \in {"lookup", "enlist", "thanks"} => x[2] \in Prompts /\ x[3] \in Devices
    BY <2>1, EntriesTyped
  <2> HIDE DEF x
  <2>3. EntryOK(x)'
    BY <1>1, <2>1, HoldObjects, HoldSocks, HoldPromptsTyped, OpenEntryStays, OthersStayOK
  <2>4. Addressed(x, to)'
    BY <2>1, <2>2, DeviceAssumption DEF Serves, Addressed
  <2> QED
    BY <2>3, <2>4 DEF x
<1>3. CASE line' = rest
  BY <1>1, <1>2, <1>3 DEF QueueOK
<1>4. CASE line' # rest
  <2> DEFINE n == <<"enlist", e[2], e[3]>> p == e[2] s == table[e[3]]
  <2>1. /\ e[1] = "lookup" /\ line' = Append(rest, n) /\ IsOpen(Websocket(e[3]))
        /\ UNCHANGED <<sockVars, states, table, sender>> /\ via' = [via EXCEPT ![p] = s]
    BY <1>1, <1>4, HoldLine
  <2>2. p \in Prompts /\ e[3] \in Devices /\ sender[p] = "busy"
    BY <1>1, <2>1 DEF EntryOK
  <2>3. s \in 1 .. Len(states) /\ states[s].ws = Websocket(e[3]) /\ Websocket(e[3]) \in Sockets
    BY <2>1, <2>2, WebsocketsTyped
  <2>4. UNCHANGED <<states, table, sender>>
    BY <2>1
  <2>5. via'[p] = s
    BY <2>1, <2>2 DEF TypeOK
  <2>6. n[1] = "enlist" /\ n[2] = p /\ n[3] = e[3]
    OBVIOUS
  <2> HIDE DEF n
  <2>7. EntryOK(n)'
    BY <2>2, <2>3, <2>4, <2>5, <2>6 DEF EntryOK
  <2>8. Addressed(n, to)'
    BY <2>1, <2>6 DEF Serves, Addressed
  <2>9. n \in Entries
    BY <2>2 DEF n, Entries, Ops
  <2>10. /\ Len(line') = Len(rest) + 1 /\ line'[Len(rest) + 1] = n
         /\ \A i \in 1 .. Len(rest) : line'[i] = rest[i]
    BY <1>1, <2>1, <2>9, AppendAddsLast
  <2>11. \A i \in 1 .. Len(line') : i \in 1 .. Len(rest) \/ i = Len(rest) + 1
    BY <1>1, <2>10
  <2>12. \A i \in 1 .. Len(line') : EntryOK(line[i])' /\ Addressed(line[i], to)'
    BY <1>2, <2>7, <2>8, <2>10, <2>11
  <2>13. \A i \in 1 .. Len(line'), j \in 1 .. Len(line') :
           line'[j][2] = line'[i][2] => i = j
    BY <1>1, <2>6, <2>10, <2>11 DEF Serves, QueueOK
  <2> QED
    BY <2>12, <2>13 DEF QueueOK
<1> QED
  BY <1>3, <1>4

LEMMA HoldLock ==
  ASSUME TypeOK, NEW e, NEW rest, Serves(e, rest) PROVE LockInv'
<1>1. EntryOK(e) /\ rest \in Seq(Entries) /\ Hold(e, rest) /\ lock = <<>>
  BY DEF Serves
<1>2. CASE lock' = <<>>
  BY <1>2 DEF LockInv
<1>3. CASE lock' # <<>>
  <2>1. /\ e[1] = "register" /\ lock' = <<e[2], e[3]>> /\ line' = rest
        /\ UNCHANGED <<stage, named, states, table>> /\ ~IsOpen(Websocket(e[3]))'
    BY <1>1, <1>3, HoldLine
  <2>2. stage[e[2]] = "reading"
    BY <1>1, <2>1 DEF EntryOK
  <2>3. ~InLine(e[2])'
    BY <1>1, <2>1 DEF Serves, InLine
  <2> QED
    BY <2>1, <2>2, <2>3 DEF LockInv
<1> QED
  BY <1>2, <1>3

-----------------------------------------------------------------------------
(* Objects, entries and open WebSockets.                                    *)

\* A registration that takes effect, whether or not it had to wait for a close.
LEMMA InstallKeeps ==
  ASSUME TypeOK, TableInv, LiveInv, NEW c \in Sockets, NEW d \in Devices,
         ~IsOpen(Websocket(d)), Install(c, d), UNCHANGED open
  PROVE  /\ states' \in Seq(StateObjects) /\ Len(states') = Len(states) + 1
         /\ \A s \in 1 .. Len(states) : states'[s] = states[s]
         /\ states'[Len(states) + 1].ws = c
         /\ table' = [table EXCEPT ![d] = Len(states) + 1]
         /\ table' \in [Devices -> 0 .. Len(states')]
         /\ TableInv' /\ LiveInv'
<1> DEFINE n == Len(states) + 1 o == [ws |-> c, online |-> TRUE]
<1>1. /\ states \in Seq(StateObjects) /\ table \in [Devices -> 0 .. Len(states)]
      /\ named \in [Sockets -> Devices \cup {NoDevice}]
      /\ stage \in [Sockets -> {"reading", "leaving", "gone"}]
  BY DEF TypeOK
<1>2. /\ states' = Append(states, o) /\ table' = [table EXCEPT ![d] = n]
      /\ named' = [named EXCEPT ![c] = d]
      /\ stage' = [stage EXCEPT ![c] = IF open[c] THEN "reading" ELSE "leaving"]
  BY DEF Install, ReadOn
<1>3. o \in StateObjects /\ o.ws = c
  BY ObjectsTyped
<1> HIDE DEF o
<1>4. /\ states' \in Seq(StateObjects) /\ Len(states') = n /\ states'[n].ws = c
      /\ \A s \in 1 .. Len(states) : states'[s] = states[s]
  BY <1>1, <1>2, <1>3, AppendAddsLast
<1>5. table' \in [Devices -> 0 .. Len(states')]
  BY <1>1, <1>2, <1>4
<1>6. TableInv'
  BY <1>1, <1>2 DEF TableInv
<1>7. ASSUME NEW s \in 1 .. Len(states'), IsOpen(states'[s].ws)
      PROVE  \E x \in Devices : table'[x] = s /\ Stands(states[s].ws, x)'
  <2>1. CASE s = n
    <3>1. table'[d] = s /\ states'[s].ws = c /\ stage'[c] # "gone"
      BY <1>1, <1>2, <1>4, <2>1
    <3> QED
      BY <3>1 DEF Stands
  <2>2. CASE s # n
    <3> DEFINE k == states[s].ws
    <3>1. s \in 1 .. Len(states) /\ states'[s].ws = k
      BY <1>1, <1>4, <2>2
    <3>2. k \in Sockets /\ IsOpen(k)
      BY <1>7, <3>1, WebsocketsTyped DEF IsOpen
    <3>3. PICK x \in Devices : table[x] = s /\ Stands(k, x)
      BY <3>1, <3>2 DEF LiveInv
    <3>4. x # d
      BY <3>1, <3>2, <3>3 DEF Websocket
    <3>5. table'[x] = s
      BY <1>1, <1>2, <3>3, <3>4
    <3>6. named'[k] = x => stage'[k] # "gone"
      BY <1>1, <1>2, <3>2, <3>3, <3>4 DEF Stands
    <3> QED
      BY <3>1, <3>5, <3>6 DEF Stands
  <2> QED
    BY <2>1, <2>2
<1>8. LiveInv'
  BY <1>7 DEF LiveInv, IsOpen
<1> QED
  BY <1>2, <1>4, <1>5, <1>6, <1>8

\* What may happen to a live object, and does not harm it.
LEMMA LiveStays ==
  ASSUME TypeOK, LiveInv, Len(states') = Len(states),
         \A s \in 1 .. Len(states) : states'[s].ws \in {states[s].ws, NoSocket},
         \A c \in Sockets : open'[c] => open[c],
         \A s \in 1 .. Len(states), d \in Devices :
           /\ states'[s].ws # NoSocket /\ IsOpen(states[s].ws) /\ open'[states[s].ws]
           /\ table[d] = s /\ Stands(states[s].ws, d)
           => /\ table'[d] = s
              /\ named'[states[s].ws] = d => stage'[states[s].ws] # "gone"
  PROVE  LiveInv'
<1> SUFFICES ASSUME NEW s \in 1 .. Len(states), IsOpen(states[s].ws)'
             PROVE  \E d \in Devices : table'[d] = s /\ Stands(states[s].ws, d)'
  BY DEF LiveInv
<1> DEFINE c == states[s].ws
<1>1. states'[s].ws = c /\ c # NoSocket /\ open'[c] /\ c \in Sockets
  BY WebsocketsTyped DEF IsOpen
<1>2. IsOpen(c)
  BY <1>1 DEF IsOpen
<1>3. PICK d \in Devices : table[d] = s /\ Stands(c, d)
  BY <1>2 DEF LiveInv
<1>4. table'[d] = s /\ (named'[c] = d => stage'[c] # "gone")
  BY <1>1, <1>2, <1>3
<1> QED
  BY <1>1, <1>4 DEF Stands

LEMMA HoldLive ==
  ASSUME TypeOK, TableInv, LiveInv, NEW e, EntryOK(e), NEW rest, Hold(e, rest)
  PROVE  TableInv' /\ LiveInv'
<1> DEFINE op == e[1] by == e[2] arg == e[3]
<1>1. /\ table \in [Devices -> 0 .. Len(states)] /\ open \in [Sockets -> BOOLEAN]
      /\ states \in Seq(StateObjects)
  BY DEF TypeOK
<1>2. /\ \A s \in 1 .. Len(states) : states'[s].ws \in {states[s].ws, NoSocket}
      /\ \A c \in Sockets : open'[c] => open[c]
  BY HoldObjects, HoldSocks
<1>3. ASSUME NEW s \in 1 .. Len(states), NEW d \in Devices, IsOpen(states[s].ws),
             open'[states[s].ws], table[d] = s
      PROVE  table'[d] = s /\ states[s].ws \in Sockets
  <2>1. Websocket(d) = states[s].ws /\ states[s].ws \in Sockets
    BY <1>3, WebsocketsTyped DEF IsOpen
  <2> QED
    BY <1>3, <2>1, OpenEntryStays
<1>4. ASSUME Len(states') = Len(states), UNCHANGED named,
             \A c \in Sockets : stage'[c] = "gone" => stage[c] = "gone"
      PROVE  LiveInv'
  <2>1. \A s \in 1 .. Len(states), d \in Devices :
          /\ states'[s].ws # NoSocket /\ IsOpen(states[s].ws) /\ open'[states[s].ws]
          /\ table[d] = s /\ Stands(states[s].ws, d)
          => /\ table'[d] = s
             /\ named'[states[s].ws] = d => stage'[states[s].ws] # "gone"
    BY <1>3, <1>4 DEF Stands
  <2> QED
    BY <1>2, <1>4, <2>1, LiveStays
<1>5. CASE op \notin {"register", "offline", "delete"}
  <2>1. table' = table /\ Len(states') = Len(states)
    BY <1>5, HoldObjects
  <2>2. TableInv'
    BY <2>1 DEF TableInv
  <2>3. named' = named
    <3>1. \A c \in Sockets : named'[c] = named[c]
      BY <1>5, HoldSocks
    <3>2. named \in [Sockets -> Devices \cup {NoDevice}] /\ named' \in [Sockets -> Devices \cup {NoDevice}]
      BY HoldSocks DEF TypeOK, SocksTyped
    <3> QED
      BY <3>1, <3>2
  <2>4. LiveInv'
    BY <1>4, <1>5, <2>1, <2>3, HoldSocks
  <2> QED
    BY <2>2, <2>4
<1>6. CASE op = "register"
  <2>1. RegisterDevice(by, arg, rest)
    BY <1>6 DEF Hold
  <2>2. by \in Sockets /\ arg \in Devices
    BY <1>6 DEF EntryOK
  <2>3. CASE IsOpen(Websocket(arg))
    <3>1. UNCHANGED <<stage, named, states, table>>
      BY <2>1, <2>3 DEF RegisterDevice
    <3>2. TableInv'
      BY <3>1 DEF TableInv
    <3>3. LiveInv'
      BY <1>4, <3>1
    <3> QED
      BY <3>2, <3>3
  <2>4. CASE ~IsOpen(Websocket(arg))
    BY <2>1, <2>2, <2>4, InstallKeeps DEF RegisterDevice
  <2> QED
    BY <2>3, <2>4
<1>7. CASE op = "offline"
  <2> DEFINE k == named[by]
  <2>1. MarkOffline(by, rest) /\ by \in Sockets /\ k \in Devices
    BY <1>7, EntriesTyped DEF Hold
  <2>2. table' = table /\ Len(states') = Len(states) /\ named' = named
    BY <1>7, <2>1, HoldObjects DEF MarkOffline
  <2>3. TableInv'
    BY <2>2 DEF TableInv
  <2>4. ASSUME NEW s \in 1 .. Len(states), NEW d \in Devices, states'[s].ws # NoSocket,
               IsOpen(states[s].ws), open'[states[s].ws], table[d] = s, Stands(states[s].ws, d),
               named'[states[s].ws] = d
        PROVE  stage'[states[s].ws] # "gone"
    <3>1. CASE states[s].ws = by
      <4>1. table[k] = s
        BY <2>2, <2>4, <3>1
      <4>2. states' = [states EXCEPT ![s] = [ws |-> NoSocket, online |-> FALSE]]
        BY <2>1, <4>1 DEF MarkOffline
      <4> QED
        BY <1>1, <2>4, <4>2
    <3>2. CASE states[s].ws # by
      <4>1. states[s].ws \in Sockets
        BY <1>3, <2>4
      <4> QED
        BY <2>2, <2>4, <3>2, <4>1, HoldSocks DEF Stands
    <3> QED
      BY <3>1, <3>2
  <2>5. \A s \in 1 .. Len(states), d \in Devices :
          /\ states'[s].ws # NoSocket /\ IsOpen(states[s].ws) /\ open'[states[s].ws]
          /\ table[d] = s /\ Stands(states[s].ws, d)
          => /\ table'[d] = s
             /\ named'[states[s].ws] = d => stage'[states[s].ws] # "gone"
    BY <2>2, <2>4
  <2>6. LiveInv'
    BY <1>2, <2>2, <2>5, LiveStays
  <2> QED
    BY <2>3, <2>6
<1>8. CASE op = "delete"
  <2>1. DeleteDevice(by, rest) /\ by \in Devices
    BY <1>8, EntriesTyped DEF Hold
  <2>2. table' = [table EXCEPT ![by] = 0] /\ UNCHANGED <<states, stage, named>>
    BY <2>1 DEF DeleteDevice
  <2>3. TableInv'
    BY <1>1, <2>2 DEF TableInv
  <2>4. LiveInv'
    BY <1>4, <2>2
  <2> QED
    BY <2>3, <2>4
<1> QED
  BY <1>5, <1>6, <1>7, <1>8

-----------------------------------------------------------------------------
(* The prompts under way.                                                   *)

\* No section but a report of a connection's end or a deletion cuts a prompt off.
LEMMA WayStays ==
  ASSUME LinkInv, NEW e, EntryOK(e), NEW rest \in Seq(Entries), Hold(e, rest), lock = <<>>,
         e[1] \notin {"offline", "delete"},
         NEW p \in Prompts, to[p] \in Devices, to'[p] = to[p], sentOn'[p] = sentOn[p], Way(p)
  PROVE  Way(p)'
<1> DEFINE c == sentOn[p] d == to[p]
<1>1. c \in Sockets /\ TypeOK
  BY DEF Way, LinkInv
<1>2. to[p] \in deleting => to[p] \in deleting'
  BY HoldLine DEF LinkInv
<1>3. table[to[p]] # 0 => table'[to[p]] # 0
  BY HoldObjects DEF LinkInv
<1>4. stage[c] # "gone" => stage'[c] # "gone"
  BY <1>1, HoldSocks
<1>5. CASE named'[c] = named[c]
  BY <1>1, <1>2, <1>3, <1>4, <1>5 DEF Way
<1>6. CASE named'[c] # named[c] /\ named'[c] = d
  <2>1. e[1] = "register" /\ e[2] = c /\ e[3] \in Devices
    BY <1>1, <1>6, HoldSocks, EntriesTyped
  <2>2. RegisterDevice(c, e[3], rest)
    BY <2>1 DEF Hold
  <2>3. Install(c, e[3])
    BY <1>6, <2>2 DEF RegisterDevice
  <2>4. e[3] = d
    BY <1>1, <1>6, <2>3 DEF Install, TypeOK
  <2>5. table'[d] # 0 /\ stage'[c] # "gone"
    BY <1>1, <2>3, <2>4 DEF Install, ReadOn, TypeOK
  <2> QED
    BY <1>1, <2>5 DEF Way
<1>7. CASE named'[c] # named[c] /\ named'[c] # d
  BY <1>1, <1>7 DEF Way
<1> QED
  BY <1>5, <1>6, <1>7

\* A prompt goes out on a live connection of its device.
LEMMA EnlistPrompts ==
  ASSUME LinkInv, NEW p \in Prompts, NEW d \in Devices, NEW s \in 1 .. Len(states), NEW rest,
         sender[p] = "busy", Enlist(p, s, rest), to'[p] = d,
         IsOpen(states[s].ws) => table[d] = s,
         \A q \in Prompts \ {p} : sender[q] # "busy" => to'[q] = to[q]
  PROVE  PromptInv'
<1> DEFINE ws == states[s].ws
<1>1. /\ future \in [Prompts -> {"none", "pending", "answer", "failed"}]
      /\ sender \in [Prompts -> {"busy", "waiting", "done"}]
      /\ sentOn \in [Prompts -> Sockets \cup {NoSocket}] /\ outcome \in [Prompts -> Outcomes]
  BY DEF LinkInv, TypeOK
<1>2. UNCHANGED <<stage, named, table, deleting>>
  BY DEF Enlist
<1>3. ASSUME NEW q \in Prompts, q # p PROVE PromptOK(q)'
  <2>1. PromptOK(q)
    BY DEF LinkInv, PromptInv
  <2>2. /\ sender'[q] = sender[q] /\ future'[q] = future[q] /\ outcome'[q] = outcome[q]
        /\ sentOn'[q] = sentOn[q] /\ (q \in pending' <=> q \in pending)
    BY <1>1, <1>3 DEF Enlist, Ends
  <2>3. sender[q] # "busy" => to'[q] = to[q]
    BY <1>3
  <2> QED
    BY <1>2, <2>1, <2>2, <2>3 DEF PromptOK, Way
<1>4. PromptOK(p)'
  <2>1. CASE IsOpen(ws) /\ sender'[p] = "waiting"
    <3>1. ws \in Sockets /\ table[d] = s /\ s # 0
      BY <2>1, WebsocketsTyped DEF LinkInv, IsOpen
    <3>2. PICK x \in Devices : table[x] = s /\ Stands(ws, x)
      BY <2>1 DEF LinkInv, LiveInv
    <3>3. named[ws] = d => table[d] # 0 /\ stage[ws] # "gone"
      BY <3>1, <3>2 DEF LinkInv, TableInv, Stands
    <3>4. sentOn'[p] = ws /\ p \in pending' /\ sender'[p] = "waiting"
      BY <1>1, <2>1 DEF Enlist, Ends
    <3> QED
      BY <1>2, <3>1, <3>3, <3>4 DEF PromptOK, Way
  <2>2. CASE ~(IsOpen(ws) /\ sender'[p] = "waiting")
    <3>1. sender'[p] = "done" /\ p \notin pending' /\ future'[p] = future[p]
      BY <1>1, <2>2 DEF Enlist, Ends
    <3>2. future[p] = "none"
      BY DEF LinkInv, PromptInv, PromptOK
    <3> QED
      BY <3>1, <3>2 DEF PromptOK
  <2> QED
    BY <2>1, <2>2
<1> QED
  BY <1>3, <1>4 DEF PromptInv

LEMMA HoldPrompts == ASSUME LinkInv, NEW e, NEW rest, Serves(e, rest) PROVE PromptInv'
<1> DEFINE op == e[1] by == e[2] arg == e[3]
<1>1. /\ EntryOK(e) /\ rest \in Seq(Entries) /\ Hold(e, rest) /\ lock = <<>> /\ TypeOK
      /\ \A p \in Prompts : PromptOK(p)
  BY DEF Serves, LinkInv, PromptInv
<1>2. /\ future \in [Prompts -> {"none", "pending", "answer", "failed"}]
      /\ sender \in [Prompts -> {"busy", "waiting", "done"}]
      /\ sentOn \in [Prompts -> Sockets \cup {NoSocket}] /\ outcome \in [Prompts -> Outcomes]
      /\ pending \subseteq Prompts
  BY <1>1 DEF TypeOK
<1>3. \A p \in Prompts : sender[p] # "busy" => to[p] \in Devices /\ to'[p] = to[p]
  BY <1>1, DeviceAssumption DEF Serves, PromptOK
<1>4. ASSUME op \notin {"offline", "delete"}, NEW p \in Prompts, sender[p] = "waiting",
             future[p] = "pending", sentOn'[p] = sentOn[p]
      PROVE  p \in pending /\ Way(p)'
  BY <1>1, <1>3, <1>4, WayStays DEF PromptOK
<1>5. ASSUME op \notin {"offline", "delete"}, UNCHANGED promptVars PROVE PromptInv'
  BY <1>1, <1>3, <1>4, <1>5 DEF promptVars, sendVars, PromptInv, PromptOK
<1>6. CASE op \in {"register", "heartbeat", "capabilities"}
  BY <1>1, <1>5, <1>6 DEF Hold, RegisterDevice, Heartbeat, UpdateCapabilities
<1>7. CASE op = "offline"
  <2> DEFINE d == named[by]
  <2>1. MarkOffline(by, rest) /\ by \in Sockets /\ d \in Devices
    BY <1>1, <1>7, EntriesTyped DEF Hold
  <2>2. /\ stage' = [stage EXCEPT ![by] = "gone"]
        /\ UNCHANGED <<named, table, deleting, sentOn, sender, outcome>>
    BY <2>1 DEF MarkOffline, sendVars
  <2>3. stage \in [Sockets -> {"reading", "leaving", "gone"}]
    BY <1>1 DEF TypeOK
  <2>4. ASSUME NEW p \in Prompts PROVE PromptOK(p)'
    <3>1. CASE table[d] = 0
      <4>1. UNCHANGED <<future, pending>>
        BY <2>1, <3>1 DEF MarkOffline
      <4>2. ASSUME sender[p] = "waiting", future[p] = "pending" PROVE Way(p)'
        <5>1. Way(p) /\ to'[p] = to[p]
          BY <1>1, <1>3, <4>2 DEF PromptOK
        <5> QED
          BY <2>2, <2>3, <3>1, <5>1 DEF Way
      <4> QED
        BY <1>1, <1>3, <2>2, <4>1, <4>2 DEF PromptOK
    <3>2. CASE table[d] # 0
      <4>1. FailPending(d)
        BY <2>1, <3>2 DEF MarkOffline
      <4>2. /\ future'[p] = IF p \in pending /\ to[p] = d /\ future[p] = "pending"
                            THEN "failed" ELSE future[p]
            /\ p \in pending' <=> p \in pending /\ to[p] # d
        BY <1>2, <4>1 DEF FailPending
      <4>3. ASSUME sender[p] = "waiting", future'[p] = "pending" PROVE p \in pending' /\ Way(p)'
        <5>1. p \in pending /\ Way(p) /\ to'[p] = to[p] /\ to[p] # d
          BY <1>1, <1>3, <4>2, <4>3 DEF PromptOK
        <5> QED
          BY <2>2, <2>3, <4>2, <5>1 DEF Way
      <4> QED
        BY <1>1, <1>3, <2>2, <4>2, <4>3 DEF PromptOK
    <3> QED
      BY <3>1, <3>2
  <2> QED
    BY <2>4 DEF PromptInv
<1>8. CASE op = "result"
  <2>1. HandleResult(by, arg, rest) /\ arg \in Prompts
    BY <1>1, <1>8, EntriesTyped DEF Hold
  <2>2. UNCHANGED <<sentOn, sender, outcome>> /\ pending' = pending \ {arg}
    BY <2>1 DEF HandleResult, sendVars
  <2>3. \A p \in Prompts :
          future'[p] = IF p = arg /\ p \in pending /\ future[p] = "pending" THEN "answer"
                       ELSE future[p]
    BY <1>2, <2>1 DEF HandleResult
  <2>4. ASSUME NEW p \in Prompts PROVE PromptOK(p)'
    BY <1>1, <1>3, <1>4, <1>8, <2>2, <2>3 DEF PromptOK
  <2> QED
    BY <2>4 DEF PromptInv
<1>9. ASSUME op \notin {"offline", "delete"}, by \in Prompts, to'[by] \in Devices,
             NEW how \in Outcomes, Ends(by, how),
             future[by] = "answer" => how = "answer", UNCHANGED <<sendVars, future>>
      PROVE  PromptInv'
  <2>1. /\ sender' = [sender EXCEPT ![by] = "done"] /\ outcome' = [outcome EXCEPT ![by] = how]
        /\ pending' = pending \ {by} /\ UNCHANGED <<sentOn, future>>
    BY <1>9 DEF Ends, sendVars
  <2>2. ASSUME NEW p \in Prompts PROVE PromptOK(p)'
    <3>1. CASE p = by
      BY <1>2, <1>9, <2>1, <3>1 DEF PromptOK
    <3>2. CASE p # by
      BY <1>1, <1>2, <1>3, <1>4, <1>9, <2>1, <3>2 DEF PromptOK
    <3> QED
      BY <3>1, <3>2
  <2> QED
    BY <2>2 DEF PromptInv
<1>10. CASE op = "lookup"
  <2>1. /\ Lookup(by, arg, rest) /\ by \in Prompts /\ arg \in Devices /\ sender[by] = "busy"
        /\ to'[by] = arg
    BY <1>1, <1>10 DEF Hold, EntryOK, Serves, Addressed
  <2>2. CASE ~(IsOpen(Websocket(arg)) /\ states[table[arg]].online)
    <3>1. Ends(by, "unavailable") /\ UNCHANGED <<sendVars, future>>
      BY <2>1, <2>2 DEF Lookup
    <3>2. future[by] = "none"
      BY <1>1, <2>1 DEF PromptOK
    <3> QED
      BY <1>9, <1>10, <2>1, <3>1, <3>2 DEF Outcomes
  <2>3. CASE IsOpen(Websocket(arg)) /\ states[table[arg]].online
    <3>1. /\ table[arg] \in 1 .. Len(states) /\ states[table[arg]].ws = Websocket(arg)
          /\ Websocket(arg) \in Sockets
      BY <1>1, <2>1, <2>3, WebsocketsTyped
    <3>3. CASE rest = <<>>
      BY <1>3, <2>1, <2>3, <3>1, <3>3, EnlistPrompts DEF Lookup
    <3>4. CASE rest # <<>>
      <4>1. UNCHANGED <<sentOn, sender, future, outcome, pending>>
        BY <2>1, <2>3, <3>4 DEF Lookup
      <4>2. ASSUME NEW p \in Prompts PROVE PromptOK(p)'
        BY <1>1, <1>3, <1>4, <1>10, <4>1 DEF PromptOK
      <4> QED
        BY <4>2 DEF PromptInv
    <3> QED
      BY <3>3, <3>4
  <2> QED
    BY <2>2, <2>3
<1>11. CASE op = "enlist"
  <2>1. /\ Enlist(by, via[by], rest) /\ by \in Prompts /\ arg \in Devices /\ sender[by] = "busy"
        /\ to'[by] = arg /\ via[by] \in 1 .. Len(states)
        /\ IsOpen(states[via[by]].ws) => table[arg] = via[by]
    BY <1>1, <1>11 DEF Hold, EntryOK, Serves, Addressed
  <2> QED
    BY <1>3, <2>1, EnlistPrompts
<1>12. CASE op = "thanks"
  <2>1. Thanks(by, arg, rest) /\ by \in Prompts /\ arg \in Devices /\ to'[by] = arg
    BY <1>1, <1>12 DEF Hold, EntryOK, Serves, Addressed
  <2> QED
    BY <1>9, <1>12, <2>1 DEF Thanks, Outcomes
<1>13. CASE op = "delete"
  <2>1. DeleteDevice(by, rest) /\ by \in Devices
    BY <1>1, <1>13, EntriesTyped DEF Hold
  <2>2. /\ table' = [table EXCEPT ![by] = 0]
        /\ UNCHANGED <<stage, named, sentOn, sender, outcome>>
    BY <2>1 DEF DeleteDevice, sendVars
  <2>3. table \in [Devices -> 0 .. Len(states)]
    BY <1>1 DEF TypeOK
  <2>4. ASSUME NEW p \in Prompts PROVE PromptOK(p)'
    <3>1. CASE IsOpen(Websocket(by))
      <4>1. UNCHANGED <<future, pending>> /\ deleting' = deleting \cup {by}
        BY <2>1, <3>1 DEF DeleteDevice
      <4>2. ASSUME sender[p] = "waiting", future[p] = "pending" PROVE Way(p)'
        <5>1. Way(p) /\ to'[p] = to[p] /\ to[p] \in Devices
          BY <1>1, <1>3, <4>2 DEF PromptOK
        <5> QED
          BY <2>2, <2>3, <4>1, <5>1 DEF Way
      <4> QED
        BY <1>1, <1>3, <2>2, <4>1, <4>2 DEF PromptOK
    <3>2. CASE ~IsOpen(Websocket(by)) /\ table[by] = 0
      <4>1. UNCHANGED <<future, pending, deleting>>
        BY <2>1, <3>2 DEF DeleteDevice
      <4>2. ASSUME sender[p] = "waiting", future[p] = "pending" PROVE Way(p)'
        <5>1. Way(p) /\ to'[p] = to[p] /\ to[p] \in Devices
          BY <1>1, <1>3, <4>2 DEF PromptOK
        <5> QED
          BY <2>2, <2>3, <3>2, <4>1, <5>1 DEF Way
      <4> QED
        BY <1>1, <1>3, <2>2, <4>1, <4>2 DEF PromptOK
    <3>3. CASE ~IsOpen(Websocket(by)) /\ table[by] # 0
      <4>1. FailPending(by) /\ deleting' = deleting
        BY <2>1, <3>3 DEF DeleteDevice
      <4>2. /\ future'[p] = IF p \in pending /\ to[p] = by /\ future[p] = "pending"
                            THEN "failed" ELSE future[p]
            /\ p \in pending' <=> p \in pending /\ to[p] # by
        BY <1>2, <4>1 DEF FailPending
      <4>3. ASSUME sender[p] = "waiting", future'[p] = "pending" PROVE p \in pending' /\ Way(p)'
        <5>1. p \in pending /\ Way(p) /\ to'[p] = to[p] /\ to[p] # by /\ to[p] \in Devices
          BY <1>1, <1>3, <4>2, <4>3 DEF PromptOK
        <5> QED
          BY <2>2, <2>3, <4>1, <4>2, <5>1 DEF Way
      <4> QED
        BY <1>1, <1>3, <2>2, <4>2, <4>3 DEF PromptOK
    <3> QED
      BY <3>1, <3>2, <3>3
  <2> QED
    BY <2>4 DEF PromptInv
<1>14. op \in Ops
  BY <1>1, EntriesTyped
<1> QED
  BY <1>6, <1>7, <1>8, <1>10, <1>11, <1>12, <1>13, <1>14 DEF Ops

\* Whatever section runs, the invariant survives it.
LEMMA HoldKeeps == ASSUME LinkInv, NEW e, NEW rest, Serves(e, rest) PROVE LinkInv'
<1>1. EntryOK(e) /\ Hold(e, rest)
  BY DEF Serves
<1> QED
  BY <1>1, HoldTypes, HoldQueue, HoldLock, HoldLive, HoldPrompts DEF LinkInv

-----------------------------------------------------------------------------
(* The order of registrations.                                              *)

\* A section gives its device the WebSocket it registers, now or after the close, and
\* no device any other.
LEMMA HoldWebsocket ==
  ASSUME TypeOK, NEW e, EntryOK(e), NEW rest \in Seq(Entries), Hold(e, rest), lock = <<>>,
         NEW d \in Devices
  PROVE  /\ e[1] = "register" /\ e[3] = d =>
              lock' = <<e[2], d>> \/ (lock' = <<>> /\ Websocket(d)' = e[2])
         /\ ~(e[1] = "register" /\ e[3] = d) =>
              /\ \A c \in Sockets : lock' # <<c, d>>
              /\ Websocket(d)' \in {NoSocket, Websocket(d)}
<1> DEFINE op == e[1] by == e[2] arg == e[3]
<1>1. /\ table \in [Devices -> 0 .. Len(states)] /\ states \in Seq(StateObjects)
  BY DEF TypeOK
<1>2. ASSUME table'[d] = table[d], table[d] # 0 => table[d] \in 1 .. Len(states)
      PROVE  Websocket(d)' \in {NoSocket, Websocket(d)}
  BY <1>2, HoldObjects DEF Websocket
<1>3. CASE op = "register"
  <2>1. RegisterDevice(by, arg, rest) /\ by \in Sockets /\ arg \in Devices
    BY <1>3, EntriesTyped DEF Hold
  <2>2. CASE IsOpen(Websocket(arg))
    <3>1. lock' = <<by, arg>> /\ UNCHANGED <<states, table>>
      BY <2>1, <2>2 DEF RegisterDevice
    <3>2. \A c \in Sockets : lock' = <<c, d>> => arg = d
      BY <3>1
    <3> QED
      BY <1>1, <1>2, <1>3, <3>1, <3>2
  <2>3. CASE ~IsOpen(Websocket(arg))
    <3> DEFINE o == [ws |-> by, online |-> TRUE]
    <3>1. /\ lock' = <<>> /\ states' = Append(states, o)
          /\ table' = [table EXCEPT ![arg] = Len(states) + 1]
      BY <2>1, <2>3 DEF RegisterDevice, Install
    <3>2. o \in StateObjects /\ o.ws = by
      BY <2>1, ObjectsTyped
    <3> HIDE DEF o
    <3>3. states'[Len(states) + 1] = o
      BY <1>1, <3>1, <3>2, AppendAddsLast
    <3>4. CASE arg = d
      BY <1>1, <1>3, <2>1, <3>1, <3>2, <3>3, <3>4 DEF Websocket
    <3>5. CASE arg # d
      BY <1>1, <1>2, <3>1, <3>5
    <3> QED
      BY <3>4, <3>5
  <2> QED
    BY <2>2, <2>3
<1>4. CASE op # "register"
  <2>1. lock' = <<>>
    BY <1>4, HoldLine
  <2>2. CASE op = "delete"
    <3>1. table' = [table EXCEPT ![by] = 0] /\ states' = states
      BY <2>2 DEF Hold, DeleteDevice
    <3>2. Websocket(d)' \in {NoSocket, Websocket(d)}
      BY <1>1, <3>1 DEF Websocket
    <3> QED
      BY <1>4, <2>1, <3>2
  <2>3. CASE op # "delete"
    <3>1. table' = table
      BY <1>4, <2>3, HoldObjects
    <3> QED
      BY <1>1, <1>2, <1>4, <2>1, <3>1
  <2> QED
    BY <2>2, <2>3
<1> QED
  BY <1>3, <1>4

\* What an entry that is no registration of d adds to a queue, or takes from it,
\* is nothing to the registrations of d.
LEMMA AppendOther ==
  ASSUME NEW q \in Seq(Entries), NEW x \in Entries, NEW d, ~(x[1] = "register" /\ x[3] = d), NEW c
  PROVE  /\ NoneFor(q, d) => NoneFor(Append(q, x), d)
         /\ LastFor(q, c, d) => LastFor(Append(q, x), c, d)
<1> DEFINE r == Append(q, x)
<1>1. /\ r \in Seq(Entries) /\ Len(r) = Len(q) + 1 /\ r[Len(q) + 1] = x
      /\ \A i \in 1 .. Len(q) : r[i] = q[i]
  BY AppendAddsLast
<1>2. Len(q) \in Nat
  OBVIOUS
<1> HIDE DEF r
<1>3. NoneFor(q, d) => NoneFor(r, d)
  BY <1>1, <1>2 DEF NoneFor
<1>4. ASSUME LastFor(q, c, d) PROVE LastFor(r, c, d)
  <2>1. PICK i \in 1 .. Len(q) :
          /\ q[i][1] = "register" /\ q[i][2] = c /\ q[i][3] = d
          /\ \A j \in i + 1 .. Len(q) : ~(q[j][1] = "register" /\ q[j][3] = d)
    BY <1>4 DEF LastFor
  <2>2. i \in 1 .. Len(r) /\ r[i] = q[i]
    BY <1>1, <1>2
  <2>3. \A j \in i + 1 .. Len(r) : ~(r[j][1] = "register" /\ r[j][3] = d)
    BY <1>1, <1>2, <2>1
  <2> QED
    BY <2>1, <2>2, <2>3 DEF LastFor
<1> QED
  BY <1>3, <1>4 DEF r

LEMMA AppendRegistration ==
  ASSUME NEW q \in Seq(Entries), NEW x \in Entries, x[1] = "register"
  PROVE  LastFor(Append(q, x), x[2], x[3])
<1> DEFINE r == Append(q, x)
<1>1. Len(r) = Len(q) + 1 /\ r[Len(q) + 1] = x /\ Len(q) \in Nat
  BY AppendAddsLast
<1> HIDE DEF r
<1>2. LastFor(r, x[2], x[3])
  BY <1>1 DEF LastFor
<1> QED
  BY <1>2 DEF r

\* After a section the order of d's registrations is right if it was right of the line
\* behind it or the section was the last of them.
LEMMA SectionOrder ==
  ASSUME TypeOK, NEW e, EntryOK(e), NEW rest \in Seq(Entries), Hold(e, rest), lock = <<>>,
         NEW d \in Devices, latest' \in [Devices -> Sockets \cup {NoSocket}],
         \/ LastFor(rest, latest'[d], d)
         \/ NoneFor(rest, d) /\ e[1] = "register" /\ e[3] = d /\ e[2] = latest'[d]
         \/ /\ NoneFor(rest, d) /\ ~(e[1] = "register" /\ e[3] = d)
            /\ Websocket(d) \in {NoSocket, latest'[d]}
  PROVE  OrderOK(d)'
<1>1. PICK c : c = latest'[d]
  OBVIOUS
<1>2. /\ NoneFor(rest, d) => NoneFor(line, d)'
      /\ LastFor(rest, c, d) => LastFor(line', c, d)
  <2>1. CASE line' = rest
    BY <2>1 DEF NoneFor
  <2>2. CASE line' # rest
    <3> DEFINE x == <<"enlist", e[2], e[3]>>
    <3>1. e[1] = "lookup" /\ line' = Append(rest, x)
      BY <2>2, HoldLine
    <3>2. x \in Entries /\ x[1] # "register"
      BY <3>1, EntriesTyped DEF Entries, Ops
    <3> HIDE DEF x
    <3>3. /\ NoneFor(rest, d) => NoneFor(Append(rest, x), d)
          /\ LastFor(rest, c, d) => LastFor(Append(rest, x), c, d)
      BY <3>2, AppendOther
    <3> QED
      BY <3>1, <3>3 DEF NoneFor
  <2> QED
    BY <2>1, <2>2
<1>3. LastFor(line', c, d) => LastFor(line, latest[d], d)'
  BY <1>1 DEF LastFor
<1>4. CASE LastFor(rest, c, d)
  BY <1>2, <1>3, <1>4 DEF OrderOK
<1>5. CASE NoneFor(rest, d) /\ e[1] = "register" /\ e[3] = d /\ e[2] = c
  <2>1. lock' = <<c, d>> \/ (lock' = <<>> /\ Websocket(d)' = c)
    BY <1>5, HoldWebsocket
  <2>2. lock' = <<>> => \A k \in Sockets : lock' # <<k, d>>
    OBVIOUS
  <2>3. NoneFor(line, d)'
    BY <1>2, <1>5
  <2> QED
    BY <1>1, <2>1, <2>2, <2>3 DEF OrderOK
<1>6. CASE NoneFor(rest, d) /\ ~(e[1] = "register" /\ e[3] = d) /\ Websocket(d) \in {NoSocket, c}
  <2>1. (\A k \in Sockets : lock' # <<k, d>>) /\ Websocket(d)' \in {NoSocket, Websocket(d)}
    BY <1>6, HoldWebsocket
  <2> QED
    BY <1>1, <1>2, <1>6, <2>1 DEF OrderOK
<1> QED
  BY <1>1, <1>4, <1>5, <1>6

-----------------------------------------------------------------------------
(* The lock: asked for, handed on, released.                                *)

LEMMA LockIsSocket == ASSUME TypeOK, NEW x, NEW y, lock = <<x, y>> PROVE x \in Sockets /\ y \in Devices
<1>1. lock \in {<<>>} \cup (Sockets \X Devices)
  BY DEF TypeOK
<1>2. lock # <<>>
  OBVIOUS
<1>3. <<x, y>> \in Sockets \X Devices
  BY <1>1, <1>2
<1> QED
  BY <1>3

\* A step that leaves objects, connections and futures alone keeps what a queue wants.
LEMMA IdleStaysOK ==
  ASSUME TypeOK, NEW x, EntryOK(x), UNCHANGED <<named, open, states, table, via, future>>,
         x[2] \in Prompts => sender'[x[2]] = sender[x[2]],
         x[2] \in Sockets => stage'[x[2]] = stage[x[2]]
  PROVE  EntryOK(x)'
<1>1. states' \in Seq(StateObjects) /\ Len(states') >= Len(states)
  BY DEF TypeOK
<1> QED
  BY <1>1, OthersStayOK

\* Asking for the lock, in line or at once.
LEMMA TakeKeeps ==
  ASSUME LinkInv, NEW e \in Entries, EntryOK(e), ~InLine(e[2]), Take(e),
         \A d \in Devices : lock # <<e[2], d>>,
         latest' \in [Devices -> Sockets \cup {NoSocket}],
         to' \in [Prompts -> Devices \cup {NoDevice}],
         \A p \in Prompts : p # e[2] \/ to[p] # NoDevice => to'[p] = to[p],
         Addressed(e, to')
  PROVE  LinkInv'
<1>1. /\ TypeOK /\ line \in Seq(Entries) /\ QueueOK(line) /\ Len(line) \in Nat
      /\ \A i \in 1 .. Len(line) : line[i][2] # e[2]
  BY DEF LinkInv, TypeOK, InLine
<1>2. CASE lock = <<>> /\ line = <<>>
  <2>1. Hold(e, line)
    BY <1>2 DEF Take
  <2>2. PICK rest : rest = line
    OBVIOUS
  <2>3. Hold(e, rest) /\ rest \in Seq(Entries) /\ QueueOK(rest)
    BY <1>1, <2>1, <2>2
  <2>4. Serves(e, rest)
    BY <1>1, <1>2, <2>2, <2>3 DEF Serves
  <2> QED
    BY <2>4, HoldKeeps
<1>3. CASE ~(lock = <<>> /\ line = <<>>)
  <2>1. /\ line' = Append(line, e)
        /\ UNCHANGED <<sockVars, states, table, lock, deleting, promptVars>>
    BY <1>3 DEF Take
  <2>2. /\ line' \in Seq(Entries) /\ Len(line') = Len(line) + 1 /\ line'[Len(line) + 1] = e
        /\ \A i \in 1 .. Len(line) : line'[i] = line[i]
    BY <1>1, <2>1, AppendAddsLast
  <2>3. \A i \in 1 .. Len(line') : i \in 1 .. Len(line) \/ i = Len(line) + 1
    BY <1>1, <2>2
  <2>4. TypeOK'
    BY <1>1, <2>1, <2>2 DEF TypeOK, sockVars, promptVars, sendVars
  <2>5. ASSUME NEW x, EntryOK(x) PROVE EntryOK(x)'
    BY <1>1, <2>1, <2>5, IdleStaysOK DEF sockVars, promptVars, sendVars
  <2>6. ASSUME NEW i \in 1 .. Len(line) PROVE Addressed(line[i], to')
    <3>1. EntryOK(line[i]) /\ Addressed(line[i], to) /\ line[i][2] # e[2]
      BY <1>1 DEF QueueOK
    <3>2. PICK x : x = line[i]
      OBVIOUS
    <3>3. x[1] \in {"lookup", "enlist", "thanks"} => x[2] \in Prompts
      BY <3>1, <3>2, EntriesTyped
    <3> QED
      BY <3>1, <3>2, <3>3 DEF Addressed
  <2>7. ASSUME NEW i \in 1 .. Len(line') PROVE EntryOK(line[i])' /\ Addressed(line[i], to)'
    <3>1. PICK x : x = line'[i]
      OBVIOUS
    <3>2. EntryOK(x)
      BY <1>1, <2>2, <2>3, <3>1 DEF QueueOK
    <3>3. EntryOK(x)'
      BY <2>5, <3>2
    <3>4. Addressed(x, to')
      BY <2>2, <2>3, <2>6, <3>1
    <3> QED
      BY <3>1, <3>3, <3>4
  <2>8. \A i, j \in 1 .. Len(line') : line'[j][2] = line'[i][2] => i = j
    BY <1>1, <2>2, <2>3 DEF QueueOK
  <2>9. QueueOK(line)'
    BY <2>7, <2>8 DEF QueueOK
  <2>10. LockInv'
    <3>1. \A c \in Sockets : c # e[2] /\ ~InLine(c) => ~InLine(c)'
      BY <2>2, <2>3 DEF InLine
    <3> QED
      BY <2>1, <3>1 DEF LinkInv, LockInv, IsOpen, Websocket, sockVars
  <2>11. TableInv' /\ LiveInv'
    BY <2>1 DEF LinkInv, TableInv, LiveInv, Stands, IsOpen, sockVars
  <2>12. PromptInv'
    <3>1. \A p \in Prompts : sender[p] # "busy" => to[p] \in Devices /\ to'[p] = to[p]
      BY DeviceAssumption DEF LinkInv, PromptInv, PromptOK
    <3> QED
      BY <2>1, <3>1 DEF LinkInv, PromptInv, PromptOK, Way, sockVars, promptVars, sendVars
  <2> QED
    BY <2>4, <2>9, <2>10, <2>11, <2>12 DEF LinkInv
<1> QED
  BY <1>2, <1>3

LEMMA TurnKeeps == ASSUME LinkInv, Turn PROVE LinkInv'
<1>1. /\ TypeOK /\ line \in Seq(Entries) /\ QueueOK(line) /\ lock = <<>> /\ line # <<>>
      /\ UNCHANGED <<latest, to>> /\ Hold(Head(line), Tail(line))
  BY DEF LinkInv, TypeOK, Turn
<1>2. PICK e : e = Head(line)
  OBVIOUS
<1>3. PICK rest : rest = Tail(line)
  OBVIOUS
<1>4. Hold(e, rest)
  BY <1>1, <1>2, <1>3
<1>5. /\ e = line[1] /\ 1 \in 1 .. Len(line) /\ rest \in Seq(Entries) /\ Len(rest) = Len(line) - 1
      /\ \A i \in 1 .. Len(rest) : rest[i] = line[i + 1] /\ i + 1 \in 1 .. Len(line)
  BY <1>1, <1>2, <1>3, TailShifts
<1>6. EntryOK(e) /\ Addressed(e, to)
  BY <1>1, <1>5 DEF QueueOK
<1>7. ASSUME NEW i \in 1 .. Len(rest)
      PROVE  /\ EntryOK(rest[i]) /\ Addressed(rest[i], to) /\ rest[i][2] # e[2]
             /\ \A j \in 1 .. Len(rest) : rest[j][2] = rest[i][2] => i = j
  <2>1. /\ rest[i] = line[i + 1] /\ i + 1 \in 1 .. Len(line) /\ i + 1 # 1 /\ i \in Nat
        /\ \A j \in 1 .. Len(line) : line[j][2] = line[i + 1][2] => i + 1 = j
    BY <1>1, <1>5 DEF QueueOK
  <2>2. EntryOK(rest[i]) /\ Addressed(rest[i], to)
    BY <1>1, <2>1 DEF QueueOK
  <2>3. rest[i][2] # e[2]
    BY <1>5, <2>1
  <2>4. ASSUME NEW j \in 1 .. Len(rest), rest[j][2] = rest[i][2] PROVE i = j
    <3>1. rest[j] = line[j + 1] /\ j + 1 \in 1 .. Len(line) /\ j \in Nat
      BY <1>5
    <3> QED
      BY <2>1, <2>4, <3>1
  <2> QED
    BY <2>2, <2>3, <2>4
<1>8. Addressed(e, to')
  BY <1>1, <1>6
<1>9. QueueOK(rest)
  BY <1>7 DEF QueueOK
<1>10. Serves(e, rest)
  BY <1>1, <1>4, <1>5, <1>6, <1>7, <1>8, <1>9 DEF Serves, TypeOK
<1> QED
  BY <1>10, HoldKeeps

LEMMA PredecessorClosedKeeps == ASSUME LinkInv, PredecessorClosed PROVE LinkInv'
<1>1. TypeOK /\ lock \in Sockets \X Devices
  BY DEF LinkInv, TypeOK, PredecessorClosed
<1>2. PICK c \in Sockets, d \in Devices : lock = <<c, d>>
  BY <1>1
<1>3. /\ lock' = <<>> /\ Install(c, d)
      /\ UNCHANGED <<open, alive, latest, line, deleting, to, promptVars>>
  BY <1>2 DEF PredecessorClosed
<1>4. ~IsOpen(Websocket(d)) /\ ~InLine(c)
  BY <1>2 DEF LinkInv, LockInv
<1>5. /\ states' \in Seq(StateObjects) /\ Len(states') = Len(states) + 1
      /\ \A s \in 1 .. Len(states) : states'[s] = states[s]
      /\ table' = [table EXCEPT ![d] = Len(states) + 1]
      /\ table' \in [Devices -> 0 .. Len(states')]
      /\ TableInv' /\ LiveInv'
  BY <1>3, <1>4, InstallKeeps DEF LinkInv
<1>6. /\ stage' = [stage EXCEPT ![c] = IF open[c] THEN "reading" ELSE "leaving"]
      /\ named' = [named EXCEPT ![c] = d]
  BY <1>3 DEF Install, ReadOn
<1>7. via' \in [Prompts -> 0 .. Len(states')]
  BY <1>1, <1>3, <1>5 DEF TypeOK, promptVars, sendVars
<1>8. TypeOK'
  BY <1>1, <1>3, <1>5, <1>6, <1>7 DEF TypeOK, promptVars, sendVars
<1>9. \A x \in Devices : IsOpen(Websocket(x)) => table'[x] = table[x]
  BY <1>1, <1>4, <1>5 DEF TypeOK
<1>10. \A s \in 1 .. Len(states) : states'[s].ws \in {states[s].ws, NoSocket}
  BY <1>5
<1>11. Len(states) \in Nat /\ Len(states') >= Len(states)
  BY <1>1, <1>5 DEF TypeOK
<1>12. ASSUME NEW i \in 1 .. Len(line) PROVE EntryOK(line[i])' /\ Addressed(line[i], to)'
  <2>1. PICK x : x = line[i]
    OBVIOUS
  <2>2. EntryOK(x) /\ Addressed(x, to) /\ x[2] # c
    BY <1>4, <2>1 DEF LinkInv, QueueOK, InLine, TypeOK
  <2>3. x[2] \in Sockets => named'[x[2]] = named[x[2]] /\ stage'[x[2]] = stage[x[2]]
    BY <1>1, <1>6, <2>2 DEF TypeOK
  <2>4. EntryOK(x)'
    BY <1>1, <1>3, <1>5, <1>9, <1>10, <1>11, <2>2, <2>3, OthersStayOK DEF promptVars, sendVars
  <2>5. Addressed(x, to')
    BY <1>3, <2>2
  <2> QED
    BY <1>3, <2>1, <2>4, <2>5
<1>13. QueueOK(line)'
  BY <1>3, <1>12 DEF LinkInv, QueueOK
<1>14. LockInv'
  BY <1>3 DEF LockInv
<1>15. ASSUME NEW p \in Prompts PROVE PromptOK(p)'
  <2>1. PromptOK(p)
    BY DEF LinkInv, PromptInv
  <2>2. UNCHANGED <<pending, sender, future, outcome, to, sentOn, deleting>>
    BY <1>3 DEF promptVars, sendVars
  <2>3. ASSUME sender[p] = "waiting", Way(p) PROVE Way(p)'
    <3>1. to[p] \in Devices /\ sentOn[p] \in Sockets
      BY <2>1, <2>3 DEF PromptOK, Way
    <3>2. table[to[p]] # 0 \/ to[p] = d => table'[to[p]] # 0
      BY <1>1, <1>5, <1>11, <3>1 DEF TypeOK
    <3>3. stage[sentOn[p]] # "gone" \/ sentOn[p] = c => stage'[sentOn[p]] # "gone"
      BY <1>1, <1>6, <3>1 DEF TypeOK
    <3>4. /\ sentOn[p] = c => named'[sentOn[p]] = d
          /\ sentOn[p] # c => named'[sentOn[p]] = named[sentOn[p]]
      BY <1>1, <1>6, <3>1 DEF TypeOK
    <3> QED
      BY <2>2, <2>3, <3>1, <3>2, <3>3, <3>4 DEF Way
  <2> QED
    BY <2>1, <2>2, <2>3 DEF PromptOK
<1>16. PromptInv'
  BY <1>15 DEF PromptInv
<1> QED
  BY <1>5, <1>8, <1>13, <1>14, <1>16 DEF LinkInv

-----------------------------------------------------------------------------
(* The other steps.                                                         *)

\* Without the entry of a sender who leaves, the line is still in order.
LEMMA WithoutKeeps ==
  ASSUME NEW q \in Seq(Entries), QueueOK(q), NEW i \in 1 .. Len(q)
  PROVE  /\ Without(q, i) \in Seq(Entries) /\ QueueOK(Without(q, i))
         /\ \A j \in 1 .. Len(Without(q, i)) : Without(q, i)[j][2] # q[i][2]
         /\ \A j \in 1 .. Len(Without(q, i)) : \E k \in 1 .. Len(q) : Without(q, i)[j] = q[k]
<1> DEFINE r == Without(q, i)
           at(j) == IF j < i THEN j ELSE j + 1
<1>1. r \in Seq(Entries) /\ Len(r) = Len(q) - 1 /\ Len(q) \in Nat
  BY WithoutSkips
<1>2. ASSUME NEW j \in 1 .. Len(r) PROVE at(j) \in 1 .. Len(q) /\ at(j) # i /\ r[j] = q[at(j)]
  BY <1>1, WithoutSkips
<1>3. ASSUME NEW j \in 1 .. Len(r), NEW k \in 1 .. Len(r), at(j) = at(k) PROVE j = k
  BY <1>1, <1>3
<1> HIDE DEF r, at
<1>4. ASSUME NEW j \in 1 .. Len(r)
      PROVE  /\ EntryOK(r[j]) /\ Addressed(r[j], to) /\ r[j][2] # q[i][2]
             /\ \A k \in 1 .. Len(r) : r[k][2] = r[j][2] => j = k
  <2>1. at(j) \in 1 .. Len(q) /\ at(j) # i /\ r[j] = q[at(j)]
    BY <1>2
  <2>2. EntryOK(r[j]) /\ Addressed(r[j], to)
    BY <2>1 DEF QueueOK
  <2>3. r[j][2] # q[i][2]
    BY <2>1 DEF QueueOK
  <2>4. ASSUME NEW k \in 1 .. Len(r), r[k][2] = r[j][2] PROVE j = k
    <3>1. at(k) \in 1 .. Len(q) /\ r[k] = q[at(k)]
      BY <1>2
    <3>2. at(j) = at(k)
      BY <2>1, <2>4, <3>1 DEF QueueOK
    <3> QED
      BY <1>3, <3>2
  <2> QED
    BY <2>2, <2>3, <2>4
<1>5. QueueOK(r)
  BY <1>4 DEF QueueOK
<1> QED
  BY <1>1, <1>2, <1>4, <1>5 DEF r

\* A sender ends, and is not in line (any more).
LEMMA EndsKeeps ==
  ASSUME LinkInv, NEW p \in Prompts, to[p] \in Devices, NEW how \in Outcomes, Ends(p, how),
         future[p] = "answer" => how \in {"answer", "abandoned"},
         UNCHANGED <<sockVars, states, table, latest, lock, deleting, to, sendVars, future>>,
         NEW q \in Seq(Entries), QueueOK(q), line' = q,
         \A i \in 1 .. Len(q) : q[i][2] # p,
         \A i \in 1 .. Len(q) : \E j \in 1 .. Len(line) : q[i] = line[j]
  PROVE  LinkInv'
<1>1. /\ TypeOK /\ line \in Seq(Entries)
      /\ sender' = [sender EXCEPT ![p] = "done"] /\ outcome' = [outcome EXCEPT ![p] = how]
      /\ pending' = pending \ {p}
  BY DEF LinkInv, TypeOK, Ends
<1>2. TypeOK'
  BY <1>1 DEF TypeOK, sockVars, sendVars
<1>3. ASSUME NEW i \in 1 .. Len(q) PROVE EntryOK(q[i])' /\ Addressed(q[i], to)'
  <2>1. PICK x : x = q[i]
    OBVIOUS
  <2>2. EntryOK(x) /\ Addressed(x, to) /\ x[2] # p
    BY <2>1 DEF QueueOK
  <2>3. x[2] \in Prompts => sender'[x[2]] = sender[x[2]]
    BY <1>1, <2>2 DEF TypeOK
  <2>4. EntryOK(x)'
    BY <1>1, <2>2, <2>3, IdleStaysOK DEF sockVars, sendVars
  <2> QED
    BY <2>1, <2>2, <2>4
<1>4. QueueOK(line)'
  BY <1>3 DEF QueueOK
<1>5. LockInv'
  <2>1. \A c \in Sockets : ~InLine(c) => ~InLine(c)'
    BY <1>1 DEF InLine
  <2> QED
    BY <2>1 DEF LinkInv, LockInv, IsOpen, Websocket, sockVars
<1>6. TableInv' /\ LiveInv'
  BY DEF LinkInv, TableInv, LiveInv, Stands, IsOpen, sockVars
<1>7. ASSUME NEW r \in Prompts PROVE PromptOK(r)'
  <2>1. PromptOK(r)
    BY DEF LinkInv, PromptInv
  <2>2. CASE r = p
    BY <1>1, <2>1, <2>2 DEF PromptOK, TypeOK
  <2>3. CASE r # p
    BY <1>1, <2>1, <2>3 DEF PromptOK, Way, TypeOK, sockVars, sendVars
  <2> QED
    BY <2>2, <2>3
<1> QED
  BY <1>2, <1>4, <1>5, <1>6, <1>7 DEF LinkInv, PromptInv

\* The same for a sender who has not asked for the lock.
LEMMA EndsOutOfLine ==
  ASSUME LinkInv, NEW p \in Prompts, to[p] \in Devices, NEW how \in Outcomes, Ends(p, how),
         future[p] = "answer" => how \in {"answer", "abandoned"},
         UNCHANGED <<sockVars, states, table, latest, lock, line, deleting, to, sendVars, future>>,
         ~InLine(p)
  PROVE  LinkInv'
<1>1. line \in Seq(Entries) /\ QueueOK(line) /\ \A i \in 1 .. Len(line) : line[i][2] # p
  BY DEF LinkInv, TypeOK, InLine
<1>2. PICK q : q = line
  OBVIOUS
<1> QED
  BY <1>1, <1>2, EndsKeeps

LEMMA TimeoutKeeps == ASSUME LinkInv, NEW p \in Prompts, Timeout(p) PROVE LinkInv'
<1>1. PromptOK(p) /\ sender[p] = "waiting" /\ future[p] = "pending" /\ Ends(p, "timeout")
  BY DEF LinkInv, PromptInv, Timeout
<1>2. ASSUME NEW i \in 1 .. Len(line) PROVE line[i][2] # p
  <2>1. EntryOK(line[i])
    BY DEF LinkInv, QueueOK
  <2> QED
    BY <1>1, <2>1, KindsAssumption DEF EntryOK
<1>3. ~InLine(p)
  BY <1>2 DEF InLine, LinkInv, TypeOK
<1> QED
  BY <1>1, <1>3, EndsOutOfLine DEF Timeout, PromptOK, Outcomes

LEMMA AbandonKeeps == ASSUME LinkInv, NEW p \in Prompts, Abandon(p) PROVE LinkInv'
<1>1. /\ to[p] \in Devices /\ Ends(p, "abandoned") /\ "abandoned" \in Outcomes
      /\ UNCHANGED <<sockVars, states, table, latest, lock, deleting, to, sendVars, future>>
  BY DEF LinkInv, TypeOK, Abandon, Outcomes
<1>2. line \in Seq(Entries) /\ QueueOK(line)
  BY DEF LinkInv, TypeOK
<1>3. CASE InLine(p)
  <2>1. PICK i \in 1 .. Len(line) : line[i][2] = p /\ line' = Without(line, i)
    BY <1>2, <1>3 DEF Abandon
  <2>2. PICK q : q = Without(line, i)
    OBVIOUS
  <2>3. /\ q \in Seq(Entries) /\ QueueOK(q) /\ line' = q
        /\ \A j \in 1 .. Len(q) : q[j][2] # p
        /\ \A j \in 1 .. Len(q) : \E k \in 1 .. Len(line) : q[j] = line[k]
    BY <1>2, <2>1, <2>2, WithoutKeeps
  <2> QED
    BY <1>1, <2>3, EndsKeeps
<1>4. CASE ~InLine(p)
  BY <1>1, <1>4, EndsOutOfLine DEF Abandon
<1> QED
  BY <1>3, <1>4

LEMMA WakeKeeps == ASSUME LinkInv, NEW p \in Prompts, Wake(p) PROVE LinkInv'
<1>1. PromptOK(p) /\ sender[p] = "waiting" /\ ~InLine(p) /\ UNCHANGED <<latest, to>> /\ to[p] \in Devices
  BY DEF LinkInv, PromptInv, PromptOK, Wake
<1>2. CASE future[p] = "answer" /\ Take(<<"thanks", p, to[p]>>)
  <2>1. PICK d \in Devices : d = to[p]
    BY <1>1
  <2> DEFINE e == <<"thanks", p, d>>
  <2>2. e[1] = "thanks" /\ e[2] = p /\ e[3] = d /\ e \in Entries
    BY DEF Entries, Ops
  <2>3. Take(e)
    BY <1>2, <2>1
  <2> HIDE DEF e
  <2>4. EntryOK(e)
    BY <1>1, <1>2, <2>2 DEF EntryOK
  <2>5. ~InLine(e[2]) /\ Addressed(e, to')
    BY <1>1, <2>1, <2>2 DEF Addressed
  <2>6. \A k \in Devices : lock # <<e[2], k>>
    BY <2>2, KindsAssumption, LockIsSocket DEF LinkInv
  <2> QED
    BY <1>1, <2>2, <2>3, <2>4, <2>5, <2>6, TakeKeeps DEF LinkInv, TypeOK
<1>3. CASE ~(future[p] = "answer" /\ Take(<<"thanks", p, to[p]>>))
  BY <1>1, <1>3, EndsOutOfLine DEF Wake, Outcomes
<1> QED
  BY <1>2, <1>3

LEMMA WebsocketClosedKeeps == ASSUME LinkInv, NEW d \in Devices, WebsocketClosed(d) PROVE LinkInv'
<1>1. /\ TypeOK /\ deleting' = deleting \ {d} /\ FailPending(d)
      /\ UNCHANGED <<sockVars, states, table, latest, lock, line, to, sendVars, sender, outcome>>
  BY DEF LinkInv, WebsocketClosed
<1>2. \A p \in Prompts :
        /\ future'[p] = IF p \in pending /\ to[p] = d /\ future[p] = "pending"
                        THEN "failed" ELSE future[p]
        /\ p \in pending' <=> p \in pending /\ to[p] # d
  BY <1>1 DEF FailPending
<1>3. TypeOK'
  BY <1>1 DEF FailPending, TypeOK, sockVars, sendVars
<1>4. ASSUME NEW x, EntryOK(x) PROVE EntryOK(x)'
  <2>1. /\ states' \in Seq(StateObjects) /\ Len(states') >= Len(states)
        /\ \A s \in 1 .. Len(states) : states'[s].ws = states[s].ws
        /\ UNCHANGED <<stage, named, open, table, via, sender>>
    BY <1>1 DEF TypeOK, sockVars, sendVars
  <2>2. x[2] \in Prompts /\ future[x[2]] # "pending" => future'[x[2]] = future[x[2]]
    BY <1>2
  <2> QED
    BY <1>1, <1>4, <2>1, <2>2, OthersStayOK
<1>5. QueueOK(line)'
  BY <1>1, <1>4 DEF LinkInv, QueueOK
<1>6. LockInv'
  BY <1>1 DEF LinkInv, LockInv, IsOpen, Websocket, InLine, sockVars
<1>7. TableInv' /\ LiveInv'
  BY <1>1 DEF LinkInv, TableInv, LiveInv, Stands, IsOpen, sockVars
<1>8. ASSUME NEW p \in Prompts PROVE PromptOK(p)'
  <2>1. PromptOK(p)
    BY DEF LinkInv, PromptInv
  <2> QED
    BY <1>1, <1>2, <2>1 DEF PromptOK, Way, sockVars, sendVars
<1> QED
  BY <1>3, <1>5, <1>6, <1>7, <1>8 DEF LinkInv, PromptInv

LEMMA RegisterKeeps ==
  ASSUME LinkInv, NEW c \in Sockets, NEW d \in Devices, Register(c, d) PROVE LinkInv'
<1> DEFINE e == <<"register", c, d>>
<1>1. e[1] = "register" /\ e[2] = c /\ e[3] = d /\ e \in Entries
  BY DEF Entries, Ops
<1>2. /\ Take(e) /\ stage[c] = "reading" /\ ~InLine(c)
      /\ \A k \in Devices : lock # <<c, k>>
      /\ latest' = [latest EXCEPT ![d] = c] /\ to' = to
  BY DEF Register, Reads
<1> HIDE DEF e
<1>3. EntryOK(e) /\ Addressed(e, to')
  BY <1>1, <1>2 DEF EntryOK, Addressed
<1>4. /\ latest' \in [Devices -> Sockets \cup {NoSocket}] /\ to' \in [Prompts -> Devices \cup {NoDevice}]
  BY <1>2 DEF LinkInv, TypeOK
<1> QED
  BY <1>1, <1>2, <1>3, <1>4, TakeKeeps

\* A message of a connection that has named its device, or the report of its end.
LEMMA HandlerTakes ==
  ASSUME LinkInv, NEW c \in Sockets, named[c] \in Devices, ~InLine(c), UNCHANGED <<latest, to>>,
         \A k \in Devices : lock # <<c, k>>,
         NEW e \in Entries, Take(e), e[2] = c,
         \/ e[1] \in {"offline", "heartbeat", "capabilities"}
         \/ e[1] = "result" /\ e[3] \in Prompts
  PROVE  LinkInv'
<1>1. EntryOK(e) /\ Addressed(e, to')
  BY DEF EntryOK, Addressed
<1>2. /\ latest' \in [Devices -> Sockets \cup {NoSocket}] /\ to' \in [Prompts -> Devices \cup {NoDevice}]
  BY DEF LinkInv, TypeOK
<1> QED
  BY <1>1, <1>2, TakeKeeps

LEMMA MessageKeeps == ASSUME LinkInv, NEW c \in Sockets, Message(c) PROVE LinkInv'
<1>1. /\ named[c] \in Devices /\ ~InLine(c) /\ UNCHANGED <<latest, to>>
      /\ \A k \in Devices : lock # <<c, k>>
  BY DEF LinkInv, TypeOK, Message, Reads
<1>2. ASSUME NEW op \in {"heartbeat", "capabilities"}, Take(<<op, c, named[c]>>) PROVE LinkInv'
  <2>1. PICK d \in Devices : d = named[c]
    BY <1>1
  <2> DEFINE e == <<op, c, d>>
  <2>2. Take(e)
    BY <1>2, <2>1
  <2>3. e[1] = op /\ e[2] = c /\ e \in Entries
    BY DEF Entries, Ops
  <2> HIDE DEF e
  <2> QED
    BY <1>1, <2>2, <2>3, HandlerTakes
<1>3. ASSUME NEW p \in got, Take(<<"result", c, p>>) PROVE LinkInv'
  <2> DEFINE e == <<"result", c, p>>
  <2>1. p \in Prompts
    BY DEF LinkInv, TypeOK
  <2>2. Take(e)
    BY <1>3
  <2>3. e[1] = "result" /\ e[2] = c /\ e[3] = p /\ e \in Entries
    BY <2>1 DEF Entries, Ops
  <2> HIDE DEF e
  <2> QED
    BY <1>1, <2>1, <2>2, <2>3, HandlerTakes
<1> QED
  BY <1>2, <1>3 DEF Message

LEMMA DropKeeps == ASSUME LinkInv, NEW c \in Sockets, Drop(c) PROVE LinkInv'
<1>1. /\ alive' = [alive EXCEPT ![c] = FALSE]
      /\ UNCHANGED <<stage, named, open, states, table, latest, lock, line, deleting, to, promptVars>>
  BY DEF Drop
<1>2. TypeOK'
  BY <1>1 DEF LinkInv, TypeOK, promptVars, sendVars
<1>3. ASSUME NEW x, EntryOK(x) PROVE EntryOK(x)'
  BY <1>1, <1>3, IdleStaysOK DEF LinkInv, promptVars, sendVars
<1>4. QueueOK(line)'
  BY <1>1, <1>3 DEF LinkInv, QueueOK
<1>5. LockInv' /\ TableInv' /\ LiveInv'
  BY <1>1 DEF LinkInv, LockInv, TableInv, LiveInv, Stands, IsOpen, Websocket, InLine
<1>6. PromptInv'
  BY <1>1 DEF LinkInv, PromptInv, PromptOK, Way, promptVars, sendVars
<1> QED
  BY <1>2, <1>4, <1>5, <1>6 DEF LinkInv

LEMMA DisconnectKeeps == ASSUME LinkInv, NEW c \in Sockets, Disconnect(c) PROVE LinkInv'
<1>1. TypeOK /\ ~InLine(c) /\ UNCHANGED <<latest, to>>
  BY DEF LinkInv, Disconnect, Reads
<1>2. CASE named[c] # NoDevice
  <2>1. PICK d \in Devices : d = named[c]
    BY <1>1, <1>2 DEF TypeOK
  <2> DEFINE e == <<"offline", c, d>>
  <2>2. Take(e)
    BY <1>2, <2>1 DEF Disconnect
  <2>3. e[1] = "offline" /\ e[2] = c /\ e \in Entries
    BY DEF Entries, Ops
  <2> HIDE DEF e
  <2>4. \A k \in Devices : lock # <<c, k>>
    BY DEF LinkInv, LockInv, Disconnect, Reads
  <2> QED
    BY <1>1, <2>1, <2>2, <2>3, <2>4, HandlerTakes
<1>3. CASE named[c] = NoDevice
  <2>1. /\ stage' = [stage EXCEPT ![c] = "gone"]
        /\ UNCHANGED <<named, open, alive, states, table, lock, line, deleting, promptVars>>
    BY <1>3 DEF Disconnect
  <2>2. TypeOK'
    BY <1>1, <2>1 DEF TypeOK, promptVars, sendVars
  <2>3. ASSUME NEW x, EntryOK(x), x[2] # c PROVE EntryOK(x)'
    BY <1>1, <2>1, <2>3, IdleStaysOK DEF TypeOK, promptVars, sendVars
  <2>4. QueueOK(line)'
    BY <1>1, <2>1, <2>3 DEF LinkInv, QueueOK, InLine, TypeOK
  <2>5. LockInv' /\ TableInv'
    <3>1. \A k \in Sockets, d \in Devices : lock = <<k, d>> => k # c
      BY DEF LinkInv, LockInv, Disconnect, Reads
    <3> QED
      BY <1>1, <2>1, <3>1 DEF LinkInv, LockInv, TableInv, IsOpen, Websocket, InLine, TypeOK
  <2>6. \A k \in Sockets : named[k] \in Devices => stage'[k] = stage[k]
    BY <1>1, <1>3, <2>1, DeviceAssumption DEF TypeOK
  <2>7. LiveInv'
    BY <1>1, <2>1, <2>6, WebsocketsTyped DEF LinkInv, LiveInv, Stands, IsOpen
  <2>8. PromptInv'
    BY <1>1, <2>1, <2>6 DEF LinkInv, PromptInv, PromptOK, Way, promptVars, sendVars
  <2> QED
    BY <2>2, <2>4, <2>5, <2>7, <2>8 DEF LinkInv
<1> QED
  BY <1>2, <1>3

LEMMA SendPromptKeeps ==
  ASSUME LinkInv, NEW p \in Prompts, NEW d \in Devices, SendPrompt(p, d) PROVE LinkInv'
<1> DEFINE e == <<"lookup", p, d>>
<1>1. e[1] = "lookup" /\ e[2] = p /\ e[3] = d /\ e \in Entries
  BY DEF Entries, Ops
<1>2. Take(e) /\ to[p] = NoDevice /\ to' = [to EXCEPT ![p] = d] /\ latest' = latest /\ TypeOK
  BY DEF LinkInv, SendPrompt
<1> HIDE DEF e
<1>3. sender[p] = "busy"
  BY <1>2, DeviceAssumption DEF LinkInv, PromptInv, PromptOK
<1>4. EntryOK(e)
  BY <1>1, <1>3 DEF EntryOK
<1>5. /\ to' \in [Prompts -> Devices \cup {NoDevice}] /\ Addressed(e, to')
      /\ \A r \in Prompts : r # p \/ to[r] # NoDevice => to'[r] = to[r]
  BY <1>1, <1>2 DEF TypeOK, Addressed
<1>6. ASSUME NEW i \in 1 .. Len(line) PROVE line[i][2] # p
  <2>1. EntryOK(line[i]) /\ Addressed(line[i], to)
    BY DEF LinkInv, QueueOK
  <2> QED
    BY <1>2, <2>1, KindsAssumption, DeviceAssumption DEF EntryOK, Addressed
<1>7. ~InLine(p)
  BY <1>2, <1>6 DEF InLine, TypeOK
<1>8. \A k \in Devices : lock # <<p, k>>
  BY <1>2, KindsAssumption, LockIsSocket
<1> QED
  BY <1>1, <1>2, <1>4, <1>5, <1>7, <1>8, TakeKeeps DEF TypeOK

LEMMA DeleteKeeps == ASSUME LinkInv, NEW d \in Devices, Delete(d) PROVE LinkInv'
<1> DEFINE e == <<"delete", d, d>>
<1>1. e[1] = "delete" /\ e[2] = d /\ e \in Entries
  BY DEF Entries, Ops
<1>2. Take(e) /\ ~InLine(d) /\ UNCHANGED <<latest, to>> /\ TypeOK
  BY DEF LinkInv, Delete
<1> HIDE DEF e
<1>3. EntryOK(e) /\ Addressed(e, to')
  BY <1>1 DEF EntryOK, Addressed
<1>4. \A k \in Devices : lock # <<d, k>>
  BY <1>2, KindsAssumption, LockIsSocket
<1> QED
  BY <1>1, <1>2, <1>3, <1>4, TakeKeeps DEF TypeOK

LEMMA LinkStarts == Init => LinkInv
<1> SUFFICES ASSUME Init PROVE LinkInv
  OBVIOUS
<1>1. /\ states \in Seq(StateObjects) /\ Len(states) \in {0, 1}
      /\ table \in [Devices -> 0 .. Len(states)]
      /\ \A s \in 1 .. Len(states) : states[s].ws = NoSocket
      /\ \A d1, d2 \in Devices : table[d1] # 0 /\ table[d2] # 0 => d1 = d2
  <2> DEFINE o == [ws |-> NoSocket, online |-> FALSE]
  <2>1. o \in StateObjects /\ o.ws = NoSocket
    BY ObjectsTyped
  <2>2. PICK cached \in BOOLEAN, d \in Devices :
          /\ states = IF cached THEN <<o>> ELSE <<>>
          /\ table = [x \in Devices |-> IF cached /\ x = d THEN 1 ELSE 0]
    BY DEF Init
  <2> HIDE DEF o
  <2>3. CASE cached
    BY <2>1, <2>2, <2>3
  <2>4. CASE ~cached
    BY <2>2, <2>4
  <2> QED
    BY <2>3, <2>4
<1>2. TypeOK
  BY <1>1 DEF Init, TypeOK, Outcomes
<1>3. QueueOK(line) /\ LockInv
  BY DEF Init, QueueOK, LockInv
<1>4. TableInv /\ LiveInv
  BY <1>1 DEF TableInv, LiveInv, IsOpen
<1>5. PromptInv
  BY DEF Init, PromptInv, PromptOK
<1> QED
  BY <1>2, <1>3, <1>4, <1>5 DEF LinkInv

LEMMA LinkInductive == LinkInv /\ [Next]_vars => LinkInv'
<1> SUFFICES ASSUME LinkInv, [Next]_vars PROVE LinkInv'
  OBVIOUS
<1>1. CASE UNCHANGED vars
  <2>1. UNCHANGED <<stage, named, open, alive, states, table, latest, lock, line, deleting, to,
                    via, sentOn, got, sender, future, outcome, pending>>
    BY <1>1 DEF vars, sockVars, promptVars, sendVars
  <2>2. TypeOK'
    BY <2>1 DEF LinkInv, TypeOK
  <2>3. QueueOK(line)'
    BY <2>1 DEF LinkInv, QueueOK, EntryOK, IsOpen, Addressed
  <2>4. LockInv' /\ TableInv' /\ LiveInv'
    BY <2>1 DEF LinkInv, LockInv, TableInv, LiveInv, Stands, IsOpen, Websocket, InLine
  <2>5. PromptInv'
    BY <2>1 DEF LinkInv, PromptInv, PromptOK, Way
  <2> QED
    BY <2>2, <2>3, <2>4, <2>5 DEF LinkInv
<1>2. CASE Turn
  BY <1>2, TurnKeeps
<1>3. CASE PredecessorClosed
  BY <1>3, PredecessorClosedKeeps
<1>4. ASSUME NEW c \in Sockets,
             Message(c) \/ Drop(c) \/ Disconnect(c) \/ \E d \in Devices : Register(c, d)
      PROVE  LinkInv'
  BY <1>4, MessageKeeps, DropKeeps, DisconnectKeeps, RegisterKeeps
<1>5. ASSUME NEW p \in Prompts,
             Wake(p) \/ Timeout(p) \/ Abandon(p) \/ \E d \in Devices : SendPrompt(p, d)
      PROVE  LinkInv'
  BY <1>5, WakeKeeps, TimeoutKeeps, AbandonKeeps, SendPromptKeeps
<1>6. ASSUME NEW d \in Devices, Delete(d) \/ WebsocketClosed(d) PROVE LinkInv'
  BY <1>6, DeleteKeeps, WebsocketClosedKeeps
<1> QED
  BY <1>1, <1>2, <1>3, <1>4, <1>5, <1>6 DEF Next

-----------------------------------------------------------------------------
(* The order of registrations, step by step.                                *)

\* A step that leaves line, lock and objects alone.
LEMMA OrderStays ==
  ASSUME OrderInv, UNCHANGED <<states, table, latest, lock, line>> PROVE OrderInv'
  BY DEF OrderInv, OrderOK, Websocket, NoneFor, LastFor

\* The message of a registration makes it the last; no other message changes the order.
LEMMA TakeOrder ==
  ASSUME IInv, NEW e \in Entries, EntryOK(e), Take(e),
         latest' = IF e[1] = "register" THEN [latest EXCEPT ![e[3]] = e[2]] ELSE latest
  PROVE  OrderInv'
<1>1. TypeOK /\ line \in Seq(Entries) /\ Len(line) \in Nat
  BY DEF IInv, LinkInv, TypeOK
<1>2. e[1] = "register" => e[2] \in Sockets /\ e[3] \in Devices
  BY EntriesTyped
<1>3. latest' \in [Devices -> Sockets \cup {NoSocket}]
  BY <1>1, <1>2 DEF TypeOK
<1> SUFFICES ASSUME NEW d \in Devices PROVE OrderOK(d)'
  BY DEF OrderInv
<1>4. CASE lock = <<>> /\ line = <<>>
  <2>1. PICK rest : rest = line
    OBVIOUS
  <2>2. Hold(e, rest) /\ rest \in Seq(Entries) /\ NoneFor(rest, d)
    BY <1>1, <1>4, <2>1 DEF Take, NoneFor
  <2>3. CASE e[1] = "register" /\ e[3] = d
    <3>1. e[2] = latest'[d]
      BY <1>1, <2>3 DEF TypeOK
    <3> QED
      BY <1>1, <1>3, <1>4, <2>2, <2>3, <3>1, SectionOrder
  <2>4. CASE ~(e[1] = "register" /\ e[3] = d)
    <3>1. latest'[d] = latest[d]
      BY <1>1, <2>4 DEF TypeOK
    <3>2. ~LastFor(line, latest[d], d)
      BY <1>4 DEF LastFor
    <3>3. Websocket(d) \in {NoSocket, latest[d]}
      BY <1>4, <3>2 DEF IInv, OrderInv, OrderOK
    <3> QED
      BY <1>1, <1>3, <1>4, <2>2, <2>4, <3>1, <3>3, SectionOrder
  <2> QED
    BY <2>3, <2>4
<1>5. CASE ~(lock = <<>> /\ line = <<>>)
  <2>1. line' = Append(line, e) /\ UNCHANGED <<states, table, lock>>
    BY <1>5 DEF Take
  <2>2. Websocket(d)' = Websocket(d)
    BY <2>1 DEF Websocket
  <2>3. PICK c : c = latest'[d]
    OBVIOUS
  <2>4. LastFor(Append(line, e), c, d) => LastFor(line, latest[d], d)'
    BY <2>1, <2>3 DEF LastFor
  <2>5. NoneFor(Append(line, e), d) => NoneFor(line, d)'
    BY <2>1 DEF NoneFor
  <2>6. CASE e[1] = "register" /\ e[3] = d
    <3>1. e[2] = c
      BY <1>1, <2>3, <2>6 DEF TypeOK
    <3>2. LastFor(Append(line, e), c, d)
      BY <1>1, <2>6, <3>1, AppendRegistration
    <3> QED
      BY <2>4, <3>2 DEF OrderOK
  <2>7. CASE ~(e[1] = "register" /\ e[3] = d)
    <3>1. latest'[d] = latest[d]
      BY <1>1, <2>7 DEF TypeOK
    <3>2. /\ NoneFor(line, d) => NoneFor(Append(line, e), d)
          /\ LastFor(line, c, d) => LastFor(Append(line, e), c, d)
      BY <1>1, <2>7, AppendOther
    <3>3. OrderOK(d)
      BY DEF IInv, OrderInv
    <3>4. CASE LastFor(line, c, d)
      BY <2>4, <3>2, <3>4 DEF OrderOK
    <3>5. CASE ~LastFor(line, c, d)
      BY <2>1, <2>2, <2>3, <2>5, <3>1, <3>2, <3>3, <3>5 DEF OrderOK
    <3> QED
      BY <3>4, <3>5
  <2> QED
    BY <2>6, <2>7
<1> QED
  BY <1>4, <1>5

LEMMA TurnOrder == ASSUME IInv, Turn PROVE OrderInv'
<1>1. /\ TypeOK /\ line \in Seq(Entries) /\ QueueOK(line) /\ lock = <<>> /\ line # <<>>
      /\ latest' = latest /\ Hold(Head(line), Tail(line)) /\ Len(line) \in Nat
  BY DEF IInv, LinkInv, TypeOK, Turn
<1> SUFFICES ASSUME NEW d \in Devices PROVE OrderOK(d)'
  BY DEF OrderInv
<1>2. PICK e : e = Head(line)
  OBVIOUS
<1>3. PICK rest : rest = Tail(line)
  OBVIOUS
<1>4. Hold(e, rest)
  BY <1>1, <1>2, <1>3
<1>5. /\ e = line[1] /\ 1 \in 1 .. Len(line) /\ rest \in Seq(Entries) /\ Len(rest) = Len(line) - 1
      /\ \A i \in 1 .. Len(rest) : rest[i] = line[i + 1] /\ i + 1 \in 1 .. Len(line)
  BY <1>1, <1>2, <1>3, TailShifts
<1>6. EntryOK(e)
  BY <1>1, <1>5 DEF QueueOK
<1>7. PICK c : c = latest[d]
  OBVIOUS
<1>8. ASSUME NEW i \in 1 .. Len(line), i # 1
      PROVE  i - 1 \in 1 .. Len(rest) /\ rest[i - 1] = line[i]
  <2>1. i - 1 \in 1 .. Len(rest) /\ (i - 1) + 1 = i
    BY <1>1, <1>5, <1>8
  <2> QED
    BY <1>5, <2>1
<1>9. CASE LastFor(line, c, d)
  <2>1. PICK i \in 1 .. Len(line) :
          /\ line[i][1] = "register" /\ line[i][2] = c /\ line[i][3] = d
          /\ \A j \in i + 1 .. Len(line) : ~(line[j][1] = "register" /\ line[j][3] = d)
    BY <1>9 DEF LastFor
  <2>2. \A k \in 1 .. Len(rest) : k >= i => ~(rest[k][1] = "register" /\ rest[k][3] = d)
    <3> SUFFICES ASSUME NEW k \in 1 .. Len(rest), k >= i
                 PROVE  ~(rest[k][1] = "register" /\ rest[k][3] = d)
      OBVIOUS
    <3>1. k + 1 \in i + 1 .. Len(line) /\ rest[k] = line[k + 1]
      BY <1>1, <1>5
    <3> QED
      BY <2>1, <3>1
  <2>3. CASE i = 1
    <3>1. NoneFor(rest, d)
      BY <2>2, <2>3 DEF NoneFor
    <3> QED
      BY <1>1, <1>4, <1>5, <1>6, <1>7, <2>1, <2>3, <3>1, SectionOrder DEF TypeOK
  <2>4. CASE i # 1
    <3>1. i - 1 \in 1 .. Len(rest) /\ rest[i - 1] = line[i]
      BY <1>8, <2>4
    <3>2. \A k \in (i - 1) + 1 .. Len(rest) : k \in 1 .. Len(rest) /\ k >= i
      BY <1>1, <2>4
    <3>3. LastFor(rest, c, d)
      BY <2>1, <2>2, <3>1, <3>2 DEF LastFor
    <3> QED
      BY <1>1, <1>4, <1>5, <1>6, <1>7, <3>3, SectionOrder DEF TypeOK
  <2> QED
    BY <2>3, <2>4
<1>10. CASE ~LastFor(line, c, d)
  <2>1. NoneFor(line, d) /\ Websocket(d) \in {NoSocket, c}
    BY <1>1, <1>7, <1>10 DEF IInv, OrderInv, OrderOK
  <2>2. NoneFor(rest, d) /\ ~(e[1] = "register" /\ e[3] = d)
    BY <1>5, <2>1 DEF NoneFor
  <2> QED
    BY <1>1, <1>4, <1>5, <1>6, <1>7, <2>1, <2>2, SectionOrder DEF TypeOK
<1> QED
  BY <1>9, <1>10

LEMMA PredecessorClosedOrder == ASSUME IInv, PredecessorClosed PROVE OrderInv'
<1>1. TypeOK /\ lock \in Sockets \X Devices
  BY DEF IInv, LinkInv, TypeOK, PredecessorClosed
<1>2. PICK c \in Sockets, d \in Devices : lock = <<c, d>>
  BY <1>1
<1>3. lock' = <<>> /\ Install(c, d) /\ UNCHANGED <<open, latest, line>>
  BY <1>2 DEF PredecessorClosed
<1>4. ~IsOpen(Websocket(d))
  BY <1>2 DEF IInv, LinkInv, LockInv
<1>5. /\ \A s \in 1 .. Len(states) : states'[s] = states[s]
      /\ states'[Len(states) + 1].ws = c
      /\ table' = [table EXCEPT ![d] = Len(states) + 1]
  BY <1>3, <1>4, InstallKeeps DEF IInv, LinkInv
<1>6. Websocket(d)' = c
  BY <1>1, <1>5 DEF Websocket, TypeOK
<1>7. \A x \in Devices \ {d} : Websocket(x)' = Websocket(x)
  BY <1>1, <1>5 DEF Websocket, TypeOK
<1>8. \A x \in Devices : \A k \in Sockets : lock' # <<k, x>>
  BY <1>3
<1>9. \A x \in Devices : /\ NoneFor(line, x) => NoneFor(line, x)'
                         /\ LastFor(line, latest[x], x) => LastFor(line, latest[x], x)'
  BY <1>3 DEF NoneFor, LastFor
<1> SUFFICES ASSUME NEW x \in Devices PROVE OrderOK(x)'
  BY DEF OrderInv
<1>10. OrderOK(x)
  BY DEF IInv, OrderInv
<1>11. CASE LastFor(line, latest[x], x)
  BY <1>9, <1>11 DEF OrderOK
<1>12. CASE ~LastFor(line, latest[x], x) /\ x = d
  <2>1. NoneFor(line, d) /\ lock = <<latest[d], d>>
    BY <1>2, <1>10, <1>12 DEF OrderOK
  <2>2. c = latest'[d]
    BY <1>2, <1>3, <2>1
  <2> QED
    BY <1>6, <1>8, <1>9, <1>12, <2>1, <2>2 DEF OrderOK
<1>13. CASE ~LastFor(line, latest[x], x) /\ x # d
  <2>1. lock # <<latest[x], x>>
    BY <1>2, <1>13
  <2>2. NoneFor(line, x) /\ Websocket(x) \in {NoSocket, latest[x]}
    BY <1>10, <1>13, <2>1 DEF OrderOK
  <2> QED
    BY <1>3, <1>7, <1>8, <1>9, <1>13, <2>2 DEF OrderOK
<1> QED
  BY <1>11, <1>12, <1>13

\* The entry of a sender who leaves is no registration.
LEMMA AbandonOrder == ASSUME IInv, NEW p \in Prompts, Abandon(p) PROVE OrderInv'
<1>1. /\ line \in Seq(Entries) /\ QueueOK(line) /\ Len(line) \in Nat
      /\ UNCHANGED <<states, table, latest, lock>>
  BY DEF IInv, LinkInv, TypeOK, Abandon
<1>2. CASE ~InLine(p)
  BY <1>1, <1>2, OrderStays DEF Abandon, IInv
<1>3. CASE InLine(p)
  <2>1. PICK i \in 1 .. Len(line) : line[i][2] = p /\ line' = Without(line, i)
    BY <1>1, <1>3 DEF Abandon
  <2> DEFINE at(j) == IF j < i THEN j ELSE j + 1
  <2>2. line[i][1] # "register"
    <3>1. EntryOK(line[i])
      BY <1>1 DEF QueueOK
    <3> QED
      BY <2>1, <3>1, KindsAssumption DEF EntryOK
  <2>3. /\ Len(line') = Len(line) - 1
        /\ \A j \in 1 .. Len(line') : line'[j] = line[at(j)] /\ at(j) \in 1 .. Len(line)
    <3>1. /\ Len(Without(line, i)) = Len(line) - 1
          /\ \A j \in 1 .. Len(line) - 1 : Without(line, i)[j] = line[at(j)]
      BY <1>1, WithoutSkips
    <3>2. \A j \in 1 .. Len(line) - 1 : at(j) \in 1 .. Len(line)
      BY <1>1
    <3> HIDE DEF at
    <3> QED
      BY <2>1, <3>1, <3>2
  <2>4. ASSUME NEW d \in Devices PROVE OrderOK(d)'
    <3>1. PICK c : c = latest[d]
      OBVIOUS
    <3>2. NoneFor(line, d) => NoneFor(line, d)'
      BY <2>3 DEF NoneFor
    <3>3. ASSUME LastFor(line, c, d) PROVE LastFor(line', c, d)
      <4>1. PICK k \in 1 .. Len(line) :
              /\ line[k][1] = "register" /\ line[k][2] = c /\ line[k][3] = d
              /\ \A j \in k + 1 .. Len(line) : ~(line[j][1] = "register" /\ line[j][3] = d)
        BY <3>3 DEF LastFor
      <4> DEFINE m == IF k < i THEN k ELSE k - 1
      <4>2. k # i
        BY <2>2, <4>1
      <4>3. m \in 1 .. Len(line') /\ at(m) = k
        BY <1>1, <2>3, <4>2
      <4>4. \A j \in m + 1 .. Len(line') : j \in 1 .. Len(line') /\ at(j) \in k + 1 .. Len(line)
        BY <1>1, <2>3, <4>2
      <4> HIDE DEF m, at
      <4>5. line'[m] = line[k] /\ \A j \in m + 1 .. Len(line') : line'[j] = line[at(j)]
        BY <2>3, <4>3, <4>4
      <4> QED
        BY <4>1, <4>3, <4>4, <4>5 DEF LastFor
    <3>4. LastFor(line', c, d) => LastFor(line, latest[d], d)'
      BY <1>1, <3>1 DEF LastFor
    <3>5. OrderOK(d)
      BY DEF IInv, OrderInv
    <3>6. CASE LastFor(line, c, d)
      BY <3>3, <3>4, <3>6 DEF OrderOK
    <3>7. CASE ~LastFor(line, c, d)
      BY <1>1, <3>1, <3>2, <3>5, <3>7 DEF OrderOK, Websocket
    <3> QED
      BY <3>6, <3>7
  <2> QED
    BY <2>4 DEF OrderInv
<1> QED
  BY <1>2, <1>3

LEMMA ConnectionOrder ==
  ASSUME IInv, NEW c \in Sockets,
         Message(c) \/ Drop(c) \/ Disconnect(c) \/ \E d \in Devices : Register(c, d)
  PROVE  OrderInv'
<1>1. OrderInv /\ TypeOK
  BY DEF IInv, LinkInv
<1>2. ASSUME NEW e \in Entries, EntryOK(e), e[1] # "register", Take(e), latest' = latest
      PROVE  OrderInv'
  BY <1>2, TakeOrder
<1>3. ASSUME NEW d \in Devices, Register(c, d) PROVE OrderInv'
  <2> DEFINE e == <<"register", c, d>>
  <2>1. e[1] = "register" /\ e[2] = c /\ e[3] = d /\ e \in Entries
    BY DEF Entries, Ops
  <2>2. Take(e) /\ stage[c] = "reading" /\ latest' = [latest EXCEPT ![d] = c]
    BY <1>3 DEF Register, Reads
  <2> HIDE DEF e
  <2>3. EntryOK(e)
    BY <2>1, <2>2 DEF EntryOK
  <2> QED
    BY <2>1, <2>2, <2>3, TakeOrder
<1>4. CASE Message(c)
  <2>1. PICK d \in Devices : d = named[c]
    BY <1>1, <1>4 DEF Message, TypeOK
  <2>2. ASSUME NEW op \in {"heartbeat", "capabilities"}, Take(<<op, c, d>>) PROVE OrderInv'
    <3> DEFINE e == <<op, c, d>>
    <3>1. e[1] = op /\ e[2] = c /\ e \in Entries /\ Take(e) /\ latest' = latest
      BY <1>4, <2>2 DEF Entries, Ops, Message
    <3> HIDE DEF e
    <3>2. EntryOK(e)
      BY <2>1, <3>1 DEF EntryOK
    <3> QED
      BY <1>2, <3>1, <3>2
  <2>3. ASSUME NEW p \in got, Take(<<"result", c, p>>) PROVE OrderInv'
    <3> DEFINE e == <<"result", c, p>>
    <3>1. p \in Prompts
      BY <1>1 DEF TypeOK
    <3>2. e[1] = "result" /\ e[2] = c /\ e[3] = p /\ e \in Entries /\ Take(e) /\ latest' = latest
      BY <1>4, <2>3, <3>1 DEF Entries, Ops, Message
    <3> HIDE DEF e
    <3>3. EntryOK(e)
      BY <2>1, <3>1, <3>2 DEF EntryOK
    <3> QED
      BY <1>2, <3>2, <3>3
  <2> QED
    BY <1>4, <2>1, <2>2, <2>3 DEF Message
<1>5. CASE Disconnect(c)
  <2>1. CASE named[c] = NoDevice
    BY <1>1, <1>5, <2>1, OrderStays DEF Disconnect
  <2>2. CASE named[c] # NoDevice
    <3>1. PICK d \in Devices : d = named[c]
      BY <1>1, <2>2 DEF TypeOK
    <3> DEFINE e == <<"offline", c, d>>
    <3>2. e[1] = "offline" /\ e[2] = c /\ e \in Entries /\ Take(e) /\ latest' = latest
      BY <1>5, <2>2, <3>1 DEF Entries, Ops, Disconnect
    <3> HIDE DEF e
    <3>3. EntryOK(e)
      BY <3>1, <3>2 DEF EntryOK
    <3> QED
      BY <1>2, <3>2, <3>3
  <2> QED
    BY <2>1, <2>2
<1>6. CASE Drop(c)
  BY <1>1, <1>6, OrderStays DEF Drop
<1> QED
  BY <1>3, <1>4, <1>5, <1>6

LEMMA SenderOrder ==
  ASSUME IInv, NEW p \in Prompts,
         Wake(p) \/ Timeout(p) \/ Abandon(p) \/ \E d \in Devices : SendPrompt(p, d)
  PROVE  OrderInv'
<1>1. OrderInv /\ TypeOK /\ PromptOK(p)
  BY DEF IInv, LinkInv, PromptInv
<1>2. ASSUME NEW op \in {"lookup", "thanks"}, NEW d \in Devices, Take(<<op, p, d>>),
             EntryOK(<<op, p, d>>), latest' = latest
      PROVE  OrderInv'
  <2> DEFINE e == <<op, p, d>>
  <2>1. e[1] = op /\ e \in Entries /\ Take(e) /\ EntryOK(e)
    BY <1>2 DEF Entries, Ops
  <2> HIDE DEF e
  <2> QED
    BY <1>2, <2>1, TakeOrder
<1>3. CASE Wake(p)
  <2>1. PICK d \in Devices : d = to[p]
    BY <1>1, <1>3 DEF Wake, PromptOK
  <2>2. CASE future[p] = "answer" /\ Take(<<"thanks", p, d>>)
    BY <1>2, <1>3, <2>2 DEF Wake, EntryOK
  <2>3. CASE ~(future[p] = "answer" /\ Take(<<"thanks", p, d>>))
    BY <1>1, <1>3, <2>1, <2>3, OrderStays DEF Wake
  <2> QED
    BY <2>2, <2>3
<1>4. CASE Timeout(p)
  BY <1>1, <1>4, OrderStays DEF Timeout
<1>5. CASE Abandon(p)
  BY <1>5, AbandonOrder
<1>6. ASSUME NEW d \in Devices, SendPrompt(p, d) PROVE OrderInv'
  <2>1. sender[p] = "busy" /\ latest' = latest /\ Take(<<"lookup", p, d>>)
    BY <1>1, <1>6, DeviceAssumption DEF SendPrompt, PromptOK
  <2>2. EntryOK(<<"lookup", p, d>>)
    BY <2>1 DEF EntryOK
  <2> QED
    BY <1>2, <2>1, <2>2
<1> QED
  BY <1>3, <1>4, <1>5, <1>6

LEMMA DeletionOrder ==
  ASSUME IInv, NEW d \in Devices, Delete(d) \/ WebsocketClosed(d) PROVE OrderInv'
<1>1. CASE Delete(d)
  <2> DEFINE e == <<"delete", d, d>>
  <2>1. e[1] = "delete" /\ e[2] = d /\ e \in Entries /\ Take(e) /\ latest' = latest
    BY <1>1 DEF Entries, Ops, Delete
  <2> HIDE DEF e
  <2>2. EntryOK(e)
    BY <2>1 DEF EntryOK
  <2> QED
    BY <2>1, <2>2, TakeOrder
<1>2. CASE WebsocketClosed(d)
  BY <1>2, OrderStays DEF WebsocketClosed, IInv
<1> QED
  BY <1>1, <1>2

-----------------------------------------------------------------------------
(* The theorems.                                                            *)

LEMMA LinkInvariant == Spec => []IInv
<1>1. Init => IInv
  <2>1. Init => OrderInv
    <3> SUFFICES ASSUME Init, NEW d \in Devices PROVE OrderOK(d)
      BY DEF OrderInv
    <3>1. line = <<>> /\ lock = <<>>
      BY DEF Init
    <3>2. Websocket(d) = NoSocket
      BY DEF Init, Websocket
    <3> QED
      BY <3>1, <3>2 DEF OrderOK, NoneFor
  <2> QED
    BY <2>1, LinkStarts DEF IInv
<1>2. IInv /\ [Next]_vars => IInv'
  <2> SUFFICES ASSUME IInv, [Next]_vars PROVE IInv'
    OBVIOUS
  <2>1. LinkInv'
    BY LinkInductive DEF IInv
  <2>2. ASSUME UNCHANGED vars PROVE OrderInv'
    BY <2>2, OrderStays DEF vars, IInv
  <2>3. ASSUME Next PROVE OrderInv'
    BY <2>3, TurnOrder, PredecessorClosedOrder, ConnectionOrder, SenderOrder, DeletionOrder DEF Next
  <2>4. OrderInv'
    BY <2>2, <2>3
  <2> QED
    BY <2>1, <2>4 DEF IInv
<1> QED
  BY <1>1, <1>2, PTL DEF Spec

\* Every variable of the device link has its type.
THEOREM TypeCorrect == Spec => []TypeOK
<1>1. IInv => TypeOK
  BY DEF IInv, LinkInv
<1> QED
  BY <1>1, LinkInvariant, PTL

\* With no registration of a device under way, its WebSocket is the one of the
\* registration whose message came last, or it has none (register_device).
THEOREM LastRegistrationStands == Spec => []LatestRegistrationWins
<1>1. IInv => LatestRegistrationWins
  <2> SUFFICES ASSUME IInv, NEW d \in Devices, ~Registering(d)
               PROVE  Websocket(d) \in {NoSocket, latest[d]}
    BY DEF LatestRegistrationWins
  <2>1. OrderOK(d) /\ TypeOK /\ line \in Seq(Entries)
    BY DEF IInv, LinkInv, OrderInv, TypeOK
  <2>2. ~LastFor(line, latest[d], d)
    BY <2>1 DEF Registering, LastFor
  <2>3. lock # <<latest[d], d>>
    BY <2>1, LockIsSocket DEF Registering
  <2> QED
    BY <2>1, <2>2, <2>3 DEF OrderOK
<1> QED
  BY <1>1, LinkInvariant, PTL

\* The table of pending prompts and the senders that wait agree, and nobody waits for a
\* connection whose end has been reported, unless it has registered another device since
\* and reported that one's end (send_prompt, _fail_pending_for_device).
THEOREM PendingAreAwaited == Spec => []PendingMatchesSenders
<1>1. IInv => PendingMatchesSenders
  <2> SUFFICES ASSUME IInv PROVE PendingMatchesSenders
    OBVIOUS
  <2>1. pending \subseteq Prompts /\ \A p \in Prompts : PromptOK(p)
    BY DEF IInv, LinkInv, TypeOK, PromptInv
  <2> QED
    BY <2>1 DEF PendingMatchesSenders, PromptOK, Way
<1> QED
  BY <1>1, LinkInvariant, PTL

\* An answer that was accepted is what send_prompt returns, unless it was cancelled.
THEOREM AcceptedAnswersAreUsed == Spec => []AnswersAreUsed
<1>1. IInv => AnswersAreUsed
  BY DEF IInv, LinkInv, PromptInv, PromptOK, AnswersAreUsed
<1> QED
  BY <1>1, LinkInvariant, PTL

-----------------------------------------------------------------------------
(* The device link implements Decision.                                     *)

\* A sender has an outcome once it is done, and not before.
OutcomeInv == \A p \in Prompts : sender[p] # "done" => outcome[p] = "none"

\* What Decision sees of a step: nothing, an answer that is accepted, or a sender that is done.
Answered == {p \in Prompts : future[p] = "answer"}
Finished == {p \in Prompts : sender[p] = "done"}
Silent == UNCHANGED outcome /\ Answered' = Answered /\ Finished' = Finished
Answers(p) ==
  /\ p \in Prompts \ Answered /\ sender[p] = "waiting"
  /\ Answered' = Answered \cup {p}
  /\ UNCHANGED outcome /\ Finished' = Finished
Concludes(p) ==
  \E how \in Outcomes \ {"none"} :
    /\ p \in Prompts \ Finished /\ Finished' = Finished \cup {p}
    /\ how = "answer" => p \in Answered
    /\ p \in Answered => how \in {"answer", "abandoned"}
    /\ outcome' = [outcome EXCEPT ![p] = how] /\ Answered' = Answered

LEMMA EndsConcludes ==
  ASSUME TypeOK, NEW p \in Prompts, NEW how \in Outcomes \ {"none"}, Ends(p, how),
         sender[p] # "done", UNCHANGED future,
         how = "answer" => future[p] = "answer",
         future[p] = "answer" => how \in {"answer", "abandoned"}
  PROVE  Concludes(p)
<1>1. p \in Prompts \ Finished /\ Finished' = Finished \cup {p}
  BY DEF TypeOK, Ends, Finished
<1>2. Answered' = Answered /\ (p \in Answered <=> future[p] = "answer")
  BY DEF Answered
<1> QED
  BY <1>1, <1>2 DEF Ends, Concludes

LEMMA FailingIsSilent ==
  ASSUME TypeOK, NEW d, FailPending(d), UNCHANGED <<sender, outcome>> PROVE Silent
<1>1. \A p \in Prompts : future'[p] = "answer" <=> future[p] = "answer"
  BY DEF TypeOK, FailPending
<1> QED
  BY <1>1 DEF Silent, Answered, Finished

\* The prompt goes out, or its sender is told that it cannot.
LEMMA EnlistDecides ==
  ASSUME TypeOK, NEW p \in Prompts, NEW s, NEW rest, Enlist(p, s, rest),
         sender[p] = "busy", future[p] = "none"
  PROVE  Silent \/ Concludes(p)
<1> DEFINE ws == states[s].ws
<1>1. CASE IsOpen(ws) /\ future' = [future EXCEPT ![p] = "pending"]
           /\ sender' = [sender EXCEPT ![p] = "waiting"] /\ outcome' = outcome
  <2>1. Answered' = Answered
    BY <1>1 DEF TypeOK, Answered
  <2>2. Finished' = Finished
    BY <1>1 DEF TypeOK, Finished
  <2> QED
    BY <1>1, <2>1, <2>2 DEF Silent
<1>2. CASE Ends(p, "sendFailed") /\ UNCHANGED future
  BY <1>2, EndsConcludes DEF Outcomes
<1>3. CASE Ends(p, "attributeError") /\ UNCHANGED future
  BY <1>3, EndsConcludes DEF Outcomes
<1> QED
  BY <1>1, <1>2, <1>3 DEF Enlist

\* A section accepts an answer or ends its own sender, one at a time.
LEMMA SectionDecides ==
  ASSUME LinkInv, NEW e, EntryOK(e), NEW rest, Hold(e, rest)
  PROVE  \/ Silent
         \/ e[1] = "result" /\ Answers(e[3])
         \/ e[1] \in {"lookup", "enlist", "thanks"} /\ e[2] \in Prompts /\ Concludes(e[2])
<1> DEFINE op == e[1] by == e[2] arg == e[3]
<1>1. TypeOK /\ \A p \in Prompts : PromptOK(p)
  BY DEF LinkInv, PromptInv
<1>2. ASSUME UNCHANGED <<sender, future, outcome>> PROVE Silent
  BY <1>2 DEF Silent, Answered, Finished
<1>3. CASE op \in {"register", "heartbeat", "capabilities"}
  BY <1>2, <1>3 DEF Hold, RegisterDevice, Heartbeat, UpdateCapabilities, promptVars
<1>4. CASE op = "offline"
  <2>1. MarkOffline(by, rest)
    BY <1>4 DEF Hold
  <2>2. UNCHANGED <<sender, outcome>> /\ (UNCHANGED future \/ FailPending(named[by]))
    BY <2>1 DEF MarkOffline
  <2> QED
    BY <1>1, <1>2, <2>2, FailingIsSilent
<1>5. CASE op = "delete"
  <2>1. DeleteDevice(by, rest)
    BY <1>5 DEF Hold
  <2>2. UNCHANGED <<sender, outcome>> /\ (UNCHANGED future \/ FailPending(by))
    BY <2>1 DEF DeleteDevice
  <2> QED
    BY <1>1, <1>2, <2>2, FailingIsSilent
<1>6. CASE op = "result"
  <2>1. HandleResult(by, arg, rest) /\ arg \in Prompts
    BY <1>6 DEF Hold, EntryOK
  <2>2. UNCHANGED <<sender, outcome>> /\ Finished' = Finished
    BY <2>1 DEF HandleResult, Finished
  <2>3. CASE arg \in pending /\ future[arg] = "pending"
    <3>1. \A p \in Prompts : future'[p] = "answer" <=> future[p] = "answer" \/ p = arg
      BY <1>1, <2>1, <2>3 DEF HandleResult, TypeOK
    <3>2. arg \in Prompts \ Answered /\ sender[arg] = "waiting" /\ Answered' = Answered \cup {arg}
      BY <1>1, <2>1, <2>3, <3>1 DEF PromptOK, Answered
    <3> QED
      BY <1>6, <2>2, <3>2 DEF Answers
  <2>4. CASE ~(arg \in pending /\ future[arg] = "pending")
    <3>1. future' = future
      BY <1>1, <2>1, <2>4 DEF HandleResult, TypeOK
    <3> QED
      BY <1>2, <2>2, <3>1
  <2> QED
    BY <2>3, <2>4
<1>7. CASE op = "lookup"
  <2>1. Lookup(by, arg, rest) /\ by \in Prompts /\ sender[by] = "busy"
    BY <1>7 DEF Hold, EntryOK
  <2>2. future[by] = "none"
    BY <1>1, <2>1 DEF PromptOK
  <2>3. \/ Enlist(by, table[arg], rest)
        \/ UNCHANGED <<sender, future, outcome>>
        \/ Ends(by, "unavailable") /\ UNCHANGED future
    BY <2>1 DEF Lookup
  <2>4. CASE Ends(by, "unavailable") /\ UNCHANGED future
    BY <1>1, <1>7, <2>1, <2>2, <2>4, EndsConcludes DEF Outcomes
  <2> QED
    BY <1>1, <1>2, <1>7, <2>1, <2>2, <2>3, <2>4, EnlistDecides
<1>8. CASE op = "enlist"
  <2>1. Enlist(by, via[by], rest) /\ by \in Prompts /\ sender[by] = "busy"
    BY <1>8 DEF Hold, EntryOK
  <2>2. future[by] = "none"
    BY <1>1, <2>1 DEF PromptOK
  <2> QED
    BY <1>1, <1>8, <2>1, <2>2, EnlistDecides
<1>9. CASE op = "thanks"
  <2>1. /\ Ends(by, "answer") /\ UNCHANGED future
        /\ by \in Prompts /\ sender[by] = "waiting" /\ future[by] = "answer"
    BY <1>9 DEF Hold, EntryOK, Thanks
  <2> QED
    BY <1>1, <1>9, <2>1, EndsConcludes DEF Outcomes
<1>10. op \in Ops
  BY <1>1, EntriesTyped
<1> QED
  BY <1>3, <1>4, <1>5, <1>6, <1>7, <1>8, <1>9, <1>10 DEF Ops

\* Asking for the lock, with what is done if it is free.
LEMMA TakeDecides ==
  ASSUME LinkInv, NEW e, EntryOK(e), Take(e)
  PROVE  \/ Silent
         \/ e[1] = "result" /\ Answers(e[3])
         \/ e[1] \in {"lookup", "enlist", "thanks"} /\ e[2] \in Prompts /\ Concludes(e[2])
<1>1. CASE Hold(e, line)
  <2>1. PICK rest : rest = line
    OBVIOUS
  <2>2. Hold(e, rest)
    BY <1>1, <2>1
  <2> QED
    BY <2>2, SectionDecides
<1>2. CASE UNCHANGED promptVars
  BY <1>2 DEF promptVars, Silent, Answered, Finished
<1> QED
  BY <1>1, <1>2 DEF Take

\* Of the prompts that were sent, one at most gets an answer or an end in a step.
SentPromptsMove ==
  /\ to' = to
  /\ Silent \/ \E p \in Prompts : to[p] # NoDevice /\ (Answers(p) \/ Concludes(p))

LEMMA SentPrompts ==
  ASSUME LinkInv, NEW e, EntryOK(e), Addressed(e, to), to' = to,
         \/ Silent
         \/ e[1] = "result" /\ Answers(e[3])
         \/ e[1] \in {"lookup", "enlist", "thanks"} /\ e[2] \in Prompts /\ Concludes(e[2])
  PROVE  SentPromptsMove
<1>1. \A p \in Prompts : sender[p] = "waiting" => to[p] # NoDevice
  BY DeviceAssumption DEF LinkInv, PromptInv, PromptOK
<1>2. e[1] \in {"lookup", "enlist", "thanks"} => to[e[2]] # NoDevice
  BY EntriesTyped, DeviceAssumption DEF Addressed
<1> QED
  BY <1>1, <1>2 DEF SentPromptsMove, Answers

LEMMA UnsentPromptMoves ==
  ASSUME LinkInv, NEW p \in Prompts, NEW d \in Devices, SendPrompt(p, d)
  PROVE  to[p] = NoDevice /\ to' = [to EXCEPT ![p] = d] /\ p \notin Answered /\ (Silent \/ Concludes(p))
<1> DEFINE e == <<"lookup", p, d>>
<1>1. e[1] = "lookup" /\ e[2] = p /\ e[3] = d /\ Take(e)
  BY DEF SendPrompt
<1> HIDE DEF e
<1>2. to[p] = NoDevice /\ to' = [to EXCEPT ![p] = d] /\ sender[p] = "busy" /\ future[p] = "none"
  BY DeviceAssumption DEF SendPrompt, LinkInv, TypeOK, PromptInv, PromptOK
<1>3. EntryOK(e)
  BY <1>1, <1>2 DEF EntryOK
<1>4. Silent \/ Concludes(p)
  BY <1>1, <1>3, TakeDecides
<1> QED
  BY <1>2, <1>4 DEF Answered

LEMMA PromptsMove ==
  ASSUME LinkInv, [Next]_vars
  PROVE  SentPromptsMove \/ \E p \in Prompts, d \in Devices : SendPrompt(p, d)
<1>1. TypeOK /\ \A p \in Prompts : PromptOK(p)
  BY DEF LinkInv, PromptInv
<1>2. ASSUME NEW e, EntryOK(e), e[1] \notin {"lookup", "enlist", "thanks"}, Take(e), to' = to
      PROVE  SentPromptsMove
  BY <1>2, TakeDecides, SentPrompts DEF Addressed
<1>3. ASSUME UNCHANGED <<to, promptVars>> PROVE SentPromptsMove
  BY <1>3 DEF promptVars, SentPromptsMove, Silent, Answered, Finished
<1>4. ASSUME NEW p \in Prompts, NEW how \in Outcomes \ {"none", "answer"}, Ends(p, how),
             to[p] # NoDevice, sender[p] # "done", UNCHANGED <<to, future>>,
             future[p] = "answer" => how = "abandoned"
      PROVE  SentPromptsMove
  BY <1>1, <1>4, EndsConcludes DEF SentPromptsMove
<1>5. CASE Turn
  <2>1. PICK e : e = Head(line)
    OBVIOUS
  <2>2. PICK rest : rest = Tail(line)
    OBVIOUS
  <2>3. Hold(e, rest) /\ to' = to /\ line \in Seq(Entries) /\ line # <<>>
    BY <1>1, <1>5, <2>1, <2>2 DEF Turn, TypeOK
  <2>4. EntryOK(e) /\ Addressed(e, to)
    BY <2>1, <2>3, TailShifts DEF LinkInv, QueueOK
  <2> QED
    BY <2>3, <2>4, SectionDecides, SentPrompts
<1>6. CASE PredecessorClosed
  BY <1>3, <1>6 DEF PredecessorClosed
<1>7. ASSUME NEW c \in Sockets, Message(c) PROVE SentPromptsMove
  <2>1. named[c] \in Devices /\ to' = to
    BY <1>1, <1>7 DEF Message, TypeOK
  <2>2. ASSUME NEW op \in {"heartbeat", "capabilities"}, Take(<<op, c, named[c]>>)
        PROVE  SentPromptsMove
    <3> DEFINE e == <<op, c, named[c]>>
    <3>1. e[1] = op /\ e[2] = c /\ Take(e)
      BY <2>2
    <3> HIDE DEF e
    <3> QED
      BY <1>2, <2>1, <3>1 DEF EntryOK
  <2>3. ASSUME NEW p \in got, Take(<<"result", c, p>>) PROVE SentPromptsMove
    <3> DEFINE e == <<"result", c, p>>
    <3>1. e[1] = "result" /\ e[2] = c /\ e[3] \in Prompts /\ Take(e)
      BY <1>1, <2>3 DEF TypeOK
    <3> HIDE DEF e
    <3> QED
      BY <1>2, <2>1, <3>1 DEF EntryOK
  <2> QED
    BY <1>7, <2>2, <2>3 DEF Message
<1>8. ASSUME NEW c \in Sockets, NEW d \in Devices, Register(c, d) PROVE SentPromptsMove
  <2> DEFINE e == <<"register", c, d>>
  <2>1. e[1] = "register" /\ e[2] = c /\ e[3] = d /\ Take(e)
    BY <1>8 DEF Register
  <2> HIDE DEF e
  <2>2. to' = to /\ EntryOK(e)
    BY <1>8, <2>1 DEF Register, Reads, EntryOK
  <2> QED
    BY <1>2, <2>1, <2>2
<1>9. ASSUME NEW c \in Sockets, Disconnect(c) PROVE SentPromptsMove
  <2>1. CASE named[c] = NoDevice
    BY <1>3, <1>9, <2>1 DEF Disconnect
  <2>2. CASE named[c] # NoDevice
    <3> DEFINE e == <<"offline", c, named[c]>>
    <3>1. e[1] = "offline" /\ e[2] = c /\ Take(e)
      BY <1>9, <2>2 DEF Disconnect
    <3> HIDE DEF e
    <3>2. to' = to /\ named[c] \in Devices
      BY <1>1, <1>9, <2>2 DEF Disconnect, TypeOK
    <3> QED
      BY <1>2, <3>1, <3>2 DEF EntryOK
  <2> QED
    BY <2>1, <2>2
<1>10. ASSUME NEW c \in Sockets, Drop(c) PROVE SentPromptsMove
  BY <1>3, <1>10 DEF Drop
<1>11. ASSUME NEW p \in Prompts, Wake(p) PROVE SentPromptsMove
  <2>1. to' = to /\ to[p] \in Devices /\ sender[p] = "waiting"
    BY <1>1, <1>11 DEF Wake, PromptOK
  <2>2. CASE future[p] = "answer" /\ Take(<<"thanks", p, to[p]>>)
    <3> DEFINE e == <<"thanks", p, to[p]>>
    <3>1. e[1] = "thanks" /\ e[2] = p /\ e[3] = to[p] /\ Take(e)
      BY <2>2
    <3> HIDE DEF e
    <3>2. EntryOK(e) /\ Addressed(e, to)
      BY <2>1, <2>2, <3>1 DEF EntryOK, Addressed
    <3> QED
      BY <2>1, <3>1, <3>2, TakeDecides, SentPrompts
  <2>3. CASE future[p] = "failed" /\ Ends(p, "disconnected") /\ UNCHANGED future
    BY <1>4, <2>1, <2>3, DeviceAssumption DEF Outcomes
  <2> QED
    BY <1>11, <2>2, <2>3 DEF Wake
<1>12. ASSUME NEW p \in Prompts, Timeout(p) PROVE SentPromptsMove
  <2>1. to[p] \in Devices
    BY <1>1, <1>12 DEF Timeout, PromptOK
  <2> QED
    BY <1>4, <1>12, <2>1, DeviceAssumption DEF Timeout, Outcomes
<1>13. ASSUME NEW p \in Prompts, Abandon(p) PROVE SentPromptsMove
  BY <1>4, <1>13 DEF Abandon, Outcomes
<1>14. ASSUME NEW d \in Devices, Delete(d) PROVE SentPromptsMove
  <2> DEFINE e == <<"delete", d, d>>
  <2>1. e[1] = "delete" /\ e[2] = d /\ Take(e) /\ to' = to
    BY <1>14 DEF Delete
  <2> HIDE DEF e
  <2> QED
    BY <1>2, <2>1 DEF EntryOK
<1>15. ASSUME NEW d \in Devices, WebsocketClosed(d) PROVE SentPromptsMove
  BY <1>1, <1>15, FailingIsSilent DEF WebsocketClosed, SentPromptsMove
<1>16. CASE UNCHANGED vars
  BY <1>3, <1>16 DEF vars
<1> QED
  BY <1>5, <1>6, <1>7, <1>8, <1>9, <1>10, <1>11, <1>12, <1>13, <1>14, <1>15, <1>16 DEF Next

LEMMA OutcomesStay == ASSUME LinkInv, OutcomeInv, [Next]_vars PROVE OutcomeInv'
<1>1. outcome \in [Prompts -> Outcomes] /\ \A p \in Prompts : p \notin Finished => outcome[p] = "none"
  BY DEF LinkInv, TypeOK, OutcomeInv, Finished
<1>2. CASE Silent
  BY <1>1, <1>2 DEF Silent, OutcomeInv, Finished
<1>3. ASSUME NEW p \in Prompts, Answers(p) PROVE OutcomeInv'
  BY <1>1, <1>3 DEF Answers, OutcomeInv, Finished
<1>4. ASSUME NEW p \in Prompts, Concludes(p) PROVE OutcomeInv'
  <2>1. \A q \in Prompts : q \notin Finished' => outcome'[q] = "none"
    BY <1>1, <1>4 DEF Concludes
  <2> QED
    BY <2>1 DEF OutcomeInv, Finished
<1> QED
  BY <1>2, <1>3, <1>4, PromptsMove, UnsentPromptMoves DEF SentPromptsMove

\* The state of Decision that stands for one of the device link.
Asked == {p \in Prompts : to[p] # NoDevice}
Accepted == [p \in Prompts |-> IF future[p] = "answer" THEN {"answer"} ELSE {}]

LEMMA DecisionsBegin == Init => Decisions!Init
<1> SUFFICES ASSUME Init PROVE Decisions!Init
  OBVIOUS
<1>1. Asked = {} /\ Accepted = [p \in Prompts |-> {}]
  BY DEF Init, Asked, Accepted
<1> QED
  BY <1>1 DEF Init, Decisions!Init, Asked, Accepted

LEMMA AcceptedStays == ASSUME Answered' = Answered PROVE Accepted' = Accepted
<1>1. \A p \in Prompts : future'[p] = "answer" <=> future[p] = "answer"
  BY DEF Answered
<1> QED
  BY <1>1 DEF Accepted

LEMMA DecisionsStep ==
  ASSUME LinkInv, OutcomeInv, [Next]_vars PROVE [Decisions!Next]_(Decisions!vars)
<1>1. /\ outcome \in [Prompts -> Outcomes] /\ \A p \in Prompts : p \notin Finished => outcome[p] = "none"
      /\ \A p \in Prompts : Accepted[p] = IF p \in Answered THEN {"answer"} ELSE {}
      /\ to' = to => Asked' = Asked
  BY DEF LinkInv, TypeOK, OutcomeInv, Finished, Accepted, Answered, Asked
<1>2. CASE to' = to /\ Silent
  BY <1>1, <1>2, AcceptedStays DEF Silent, Decisions!vars, Asked, Accepted
<1>3. ASSUME NEW p \in Prompts, to' = to, to[p] # NoDevice, Answers(p)
      PROVE  Decisions!Accept(p, "answer")
  <2>1. \A q \in Prompts : future'[q] = "answer" <=> future[q] = "answer" \/ q = p
    BY <1>3 DEF Answers, Answered
  <2>2. Accepted' = [Accepted EXCEPT ![p] = {"answer"}]
    BY <2>1 DEF Accepted
  <2>3. outcome[p] = "none" /\ Accepted[p] = {} /\ outcome' = outcome /\ p \in Asked
    BY <1>1, <1>3 DEF Answers, Finished, Asked
  <2> QED
    BY <1>1, <1>3, <2>2, <2>3 DEF Decisions!Accept, Asked, Accepted
<1>4. ASSUME NEW p \in Prompts, to' = to, to[p] # NoDevice, Concludes(p)
      PROVE  \E how \in Outcomes \ {"none"} : Decisions!Decide(p, how)
  <2>1. PICK how \in Outcomes \ {"none"} :
          /\ p \in Prompts \ Finished
          /\ how = "answer" => p \in Answered
          /\ p \in Answered => how \in {"answer", "abandoned"}
          /\ outcome' = [outcome EXCEPT ![p] = how] /\ Answered' = Answered
    BY <1>4 DEF Concludes
  <2>2. p \in Asked /\ Asked' = Asked /\ Accepted' = Accepted /\ outcome[p] = "none"
    BY <1>1, <1>4, <2>1, AcceptedStays DEF Asked
  <2>3. how \in {"answer"} => how \in Accepted[p]
    BY <1>1, <2>1
  <2>4. Accepted[p] # {} => how \in Accepted[p] \cup {"abandoned"}
    BY <1>1, <2>1
  <2>5. Decisions!Decide(p, how)
    BY <2>1, <2>2, <2>3, <2>4 DEF Decisions!Decide, Asked, Accepted
  <2> QED
    BY <2>5
<1>5. ASSUME NEW p \in Prompts, NEW d \in Devices, SendPrompt(p, d)
      PROVE  Decisions!Ask(p) \/ \E v \in Outcomes \ {"none", "answer"} : Decisions!Refuse(p, v)
  <2>1. to[p] = NoDevice /\ to' = [to EXCEPT ![p] = d] /\ p \notin Answered /\ (Silent \/ Concludes(p))
    BY <1>5, UnsentPromptMoves
  <2>2. p \notin Asked /\ Asked' = Asked \cup {p}
    BY <2>1, DeviceAssumption DEF LinkInv, TypeOK, Asked
  <2>3. CASE Silent
    BY <2>2, <2>3, AcceptedStays DEF Silent, Decisions!Ask, Asked, Accepted
  <2>4. CASE Concludes(p)
    <3>1. PICK how \in Outcomes \ {"none", "answer"} :
            p \notin Finished /\ outcome' = [outcome EXCEPT ![p] = how] /\ Answered' = Answered
      BY <2>1, <2>4 DEF Concludes
    <3>2. Decisions!Refuse(p, how)
      BY <1>1, <2>2, <3>1, AcceptedStays DEF Decisions!Refuse, Asked, Accepted
    <3> QED
      BY <3>2
  <2> QED
    BY <2>1, <2>3, <2>4
<1> QED
  BY <1>2, <1>3, <1>4, <1>5, PromptsMove DEF SentPromptsMove, Decisions!Next, Outcomes

\* A prompt has one outcome; an answer that was accepted before is the outcome unless the
\* caller was cancelled, and one that comes after it is not accepted (send_prompt,
\* handle_prompt_result).
THEOREM PromptsAreDecided == Spec => PromptsAreDecisions
<1>1. Init => OutcomeInv
  BY DEF Init, OutcomeInv
<1>2. IInv => LinkInv
  BY DEF IInv
<1>3. Spec => []LinkInv
  BY <1>2, LinkInvariant, PTL
<1>4. Spec => []OutcomeInv
  BY <1>1, <1>3, OutcomesStay, PTL DEF Spec
<1> QED
  BY <1>3, <1>4, DecisionsBegin, DecisionsStep, PTL DEF Spec, PromptsAreDecisions, Decisions!Spec

-----------------------------------------------------------------------------
(* Who takes a WebSocket away.                                              *)

\* A handler that is gone has nothing in line and keeps its name.
QuietInv == \A i \in 1 .. Len(line), c \in Sockets : line[i][2] = c => stage[c] # "gone"

Ended(d) == \E b \in Sockets : named[b] = d /\ stage[b] = "gone"
Awaited(d) == ~NoneFor(line, d) \/ \E c \in Sockets : lock = <<c, d>>

\* A device that has registered and has no WebSocket has a registration under way, or one
\* of its connections has come to its end.
CauseOK(d) ==
  table[d] # 0 /\ Websocket(d) = NoSocket /\ latest[d] # NoSocket => Awaited(d) \/ Ended(d)

CauseInv == QuietInv /\ \A d \in Devices : CauseOK(d)

\* A section leaves the WebSocket of a device alone, but for its registration, its deletion
\* and the report of the end of one of its connections.
LEMMA HoldLoses ==
  ASSUME TypeOK, TableInv, NEW e, EntryOK(e), NEW rest, Hold(e, rest),
         NEW d \in Devices, ~(e[1] = "register" /\ e[3] = d), table'[d] # 0
  PROVE  /\ table[d] # 0
         /\ \/ Websocket(d)' = Websocket(d)
            \/ /\ e[2] \in Sockets /\ named[e[2]] = d
               /\ named'[e[2]] = d /\ stage'[e[2]] = "gone"
<1> DEFINE op == e[1] by == e[2] arg == e[3]
<1>1. /\ table \in [Devices -> 0 .. Len(states)] /\ states \in Seq(StateObjects)
      /\ stage \in [Sockets -> {"reading", "leaving", "gone"}]
  BY DEF TypeOK
<1>2. ASSUME UNCHANGED <<states, table>>
      PROVE  table[d] # 0 /\ Websocket(d)' = Websocket(d)
  BY <1>2 DEF Websocket
<1>3. ASSUME NEW k \in Devices, Beat(k), UNCHANGED table
      PROVE  table[d] # 0 /\ Websocket(d)' = Websocket(d)
  BY <1>1, <1>3, BeatKeeps DEF Websocket
<1>4. CASE op = "register"
  <2>1. RegisterDevice(by, arg, rest) /\ by \in Sockets /\ arg \in Devices /\ arg # d
    BY <1>4, EntriesTyped DEF Hold
  <2>2. CASE IsOpen(Websocket(arg))
    BY <1>2, <2>1, <2>2 DEF RegisterDevice
  <2>3. CASE ~IsOpen(Websocket(arg))
    <3> DEFINE o == [ws |-> by, online |-> TRUE]
    <3>1. states' = Append(states, o) /\ table' = [table EXCEPT ![arg] = Len(states) + 1]
      BY <2>1, <2>3 DEF RegisterDevice, Install
    <3>2. o \in StateObjects
      BY <2>1, ObjectsTyped
    <3> HIDE DEF o
    <3>3. table'[d] = table[d] /\ table[d] \in 1 .. Len(states)
      BY <1>1, <2>1, <3>1
    <3>4. states'[table[d]] = states[table[d]]
      BY <1>1, <3>1, <3>2, <3>3, AppendAddsLast
    <3> QED
      BY <3>3, <3>4 DEF Websocket
  <2> QED
    BY <2>2, <2>3
<1>5. CASE op = "offline"
  <2>1. MarkOffline(by, rest) /\ by \in Sockets /\ named[by] \in Devices
    BY <1>5, EntriesTyped DEF Hold
  <2>2. table' = table /\ named' = named /\ stage' = [stage EXCEPT ![by] = "gone"]
    BY <2>1 DEF MarkOffline
  <2>3. CASE named[by] = d
    BY <1>1, <2>1, <2>2, <2>3
  <2>4. CASE table[named[by]] = 0
    BY <1>2, <2>1, <2>2, <2>4 DEF MarkOffline
  <2>5. CASE named[by] # d /\ table[named[by]] # 0
    <3>1. PICK s \in 1 .. Len(states) : s = table[named[by]]
      BY <1>1, <2>1, <2>5
    <3>2. states' = [states EXCEPT ![s] = [ws |-> NoSocket, online |-> FALSE]]
      BY <2>1, <2>5, <3>1 DEF MarkOffline
    <3>3. table[d] # s
      BY <2>1, <2>5, <3>1 DEF TableInv
    <3>4. table[d] \in 1 .. Len(states)
      BY <1>1, <2>2
    <3> QED
      BY <1>1, <2>2, <3>2, <3>3, <3>4 DEF Websocket
  <2> QED
    BY <2>3, <2>4, <2>5
<1>6. CASE op \in {"heartbeat", "result"}
  BY <1>3, <1>6, EntriesTyped DEF Hold, Heartbeat, HandleResult
<1>7. CASE op = "thanks"
  BY <1>3, <1>7, EntriesTyped DEF Hold, Thanks
<1>8. CASE op = "capabilities"
  BY <1>2, <1>8 DEF Hold, UpdateCapabilities
<1>9. CASE op = "lookup"
  BY <1>2, <1>9 DEF Hold, Lookup, Enlist
<1>10. CASE op = "enlist"
  BY <1>2, <1>10 DEF Hold, Enlist
<1>11. CASE op = "delete"
  <2>1. by \in Devices /\ states' = states /\ table' = [table EXCEPT ![by] = 0]
    BY <1>11, EntriesTyped DEF Hold, DeleteDevice
  <2>2. table'[d] = table[d]
    BY <1>1, <2>1
  <2> QED
    BY <1>1, <2>1, <2>2 DEF Websocket
<1>12. op \in Ops
  BY EntriesTyped
<1> QED
  BY <1>4, <1>5, <1>6, <1>7, <1>8, <1>9, <1>10, <1>11, <1>12 DEF Ops

\* A section that finds causes right of the line behind it, or is itself the registration
\* that is under way, leaves them right.
LEMMA SectionCauses ==
  ASSUME LinkInv, NEW e, EntryOK(e), NEW rest \in Seq(Entries), Hold(e, rest), lock = <<>>,
         \A c \in Sockets : e[2] = c => stage[c] # "gone",
         \A i \in 1 .. Len(rest), c \in Sockets : rest[i][2] = c => stage[c] # "gone" /\ c # e[2],
         \A d \in Devices : table[d] # 0 /\ Websocket(d) = NoSocket /\ latest'[d] # NoSocket =>
           ~NoneFor(rest, d) \/ (e[1] = "register" /\ e[3] = d) \/ Ended(d)
  PROVE  CauseInv'
<1>1. TypeOK /\ TableInv
  BY DEF LinkInv
<1>2. \A i \in 1 .. Len(rest) : \E j \in 1 .. Len(line') : line'[j] = rest[i]
  <2>1. CASE line' = rest
    BY <2>1
  <2>2. CASE line' # rest
    <3> DEFINE x == <<"enlist", e[2], e[3]>>
    <3>1. e[1] = "lookup" /\ line' = Append(rest, x)
      BY <1>1, <2>2, HoldLine
    <3>2. x \in Entries
      BY <3>1, EntriesTyped DEF Entries, Ops
    <3> HIDE DEF x
    <3>3. /\ Len(line') = Len(rest) + 1 /\ Len(rest) \in Nat
          /\ \A i \in 1 .. Len(rest) : line'[i] = rest[i]
      BY <3>1, <3>2, AppendAddsLast
    <3> QED
      BY <3>3
  <2> QED
    BY <2>1, <2>2
<1>3. \A j \in 1 .. Len(line') : line'[j][2] \in Prompts \/ \E i \in 1 .. Len(rest) : line'[j] = rest[i]
  <2>1. CASE line' = rest
    BY <2>1
  <2>2. CASE line' # rest
    <3> DEFINE x == <<"enlist", e[2], e[3]>>
    <3>1. e[1] = "lookup" /\ line' = Append(rest, x)
      BY <1>1, <2>2, HoldLine
    <3>2. x \in Entries /\ x[2] \in Prompts
      BY <3>1, EntriesTyped DEF Entries, Ops
    <3> HIDE DEF x
    <3>3. /\ Len(line') = Len(rest) + 1 /\ Len(rest) \in Nat /\ line'[Len(rest) + 1] = x
          /\ \A i \in 1 .. Len(rest) : line'[i] = rest[i]
      BY <3>1, <3>2, AppendAddsLast
    <3> QED
      BY <3>2, <3>3
  <2> QED
    BY <2>1, <2>2
<1>4. \A c \in Sockets : c # e[2] => stage'[c] = stage[c]
  BY <1>1, HoldSocks
<1>5. QuietInv'
  BY <1>3, <1>4, KindsAssumption DEF QuietInv
<1>6. ASSUME NEW d \in Devices PROVE CauseOK(d)'
  <2>1. Ended(d) => Ended(d)'
    <3>1. \A b \in Sockets : b # e[2] => named'[b] = named[b]
      BY <1>1, HoldSocks
    <3> QED
      BY <1>4, <3>1 DEF Ended
  <2>2. ~NoneFor(rest, d) => ~NoneFor(line, d)'
    BY <1>2 DEF NoneFor
  <2>3. CASE e[1] = "register" /\ e[3] = d
    <3>1. lock' = <<e[2], d>> \/ Websocket(d)' = e[2]
      BY <1>1, <2>3, HoldWebsocket
    <3>2. e[2] \in Sockets /\ e[2] # NoSocket
      BY <2>3, EntriesTyped
    <3> QED
      BY <3>1, <3>2 DEF CauseOK, Awaited
  <2>4. CASE ~(e[1] = "register" /\ e[3] = d) /\ table'[d] # 0
    <3>1. /\ table[d] # 0
          /\ \/ Websocket(d)' = Websocket(d)
             \/ e[2] \in Sockets /\ named'[e[2]] = d /\ stage'[e[2]] = "gone"
      BY <1>1, <2>4, HoldLoses
    <3>2. CASE e[2] \in Sockets /\ named'[e[2]] = d /\ stage'[e[2]] = "gone"
      BY <3>2 DEF CauseOK, Ended
    <3>3. CASE Websocket(d)' = Websocket(d)
      BY <2>1, <2>2, <2>4, <3>1, <3>3 DEF CauseOK, Awaited
    <3> QED
      BY <3>1, <3>2, <3>3
  <2> QED
    BY <2>3, <2>4 DEF CauseOK
<1> QED
  BY <1>5, <1>6 DEF CauseInv

\* A step that leaves line, lock, objects and handlers alone.
LEMMA CausesStay ==
  ASSUME CauseInv, UNCHANGED <<stage, named, states, table, latest, lock, line>>
  PROVE  CauseInv'
  BY DEF CauseInv, QuietInv, CauseOK, Awaited, Ended, NoneFor, Websocket

LEMMA TakeCauses ==
  ASSUME LinkInv, CauseInv, NEW e \in Entries, EntryOK(e), Take(e),
         \A c \in Sockets : e[2] = c => stage[c] # "gone",
         latest' = IF e[1] = "register" THEN [latest EXCEPT ![e[3]] = e[2]] ELSE latest
  PROVE  CauseInv'
<1>1. /\ line \in Seq(Entries) /\ Len(line) \in Nat
      /\ latest \in [Devices -> Sockets \cup {NoSocket}]
  BY DEF LinkInv, TypeOK
<1>2. e[1] = "register" => e[2] \in Sockets /\ e[3] \in Devices
  BY EntriesTyped
<1>3. \A d \in Devices : ~(e[1] = "register" /\ e[3] = d) => latest'[d] = latest[d]
  BY <1>1, <1>2
<1>4. CASE lock = <<>> /\ line = <<>>
  <2>1. PICK rest : rest = line
    OBVIOUS
  <2>2. Hold(e, rest) /\ rest \in Seq(Entries) /\ Len(rest) = 0
    BY <1>1, <1>4, <2>1 DEF Take
  <2>3. \A d \in Devices : table[d] # 0 /\ Websocket(d) = NoSocket /\ latest'[d] # NoSocket =>
          ~NoneFor(rest, d) \/ (e[1] = "register" /\ e[3] = d) \/ Ended(d)
    BY <1>3, <1>4, <2>1 DEF CauseInv, CauseOK, Awaited
  <2>4. \A i \in 1 .. Len(rest), c \in Sockets : rest[i][2] = c => stage[c] # "gone" /\ c # e[2]
    BY <2>2
  <2> QED
    BY <1>4, <2>2, <2>3, <2>4, SectionCauses
<1>5. CASE ~(lock = <<>> /\ line = <<>>)
  <2>1. line' = Append(line, e) /\ UNCHANGED <<stage, named, states, table, lock>>
    BY <1>5 DEF Take, sockVars
  <2>2. /\ Len(line') = Len(line) + 1 /\ line'[Len(line) + 1] = e
        /\ \A i \in 1 .. Len(line) : line'[i] = line[i]
    BY <1>1, <2>1, AppendAddsLast
  <2>3. QuietInv'
    BY <1>1, <2>1, <2>2 DEF CauseInv, QuietInv
  <2>4. ASSUME NEW d \in Devices PROVE CauseOK(d)'
    <3>1. Ended(d) => Ended(d)'
      BY <2>1 DEF Ended
    <3>2. ~NoneFor(line, d) \/ (e[1] = "register" /\ e[3] = d) => ~NoneFor(line, d)'
      BY <1>1, <2>2 DEF NoneFor
    <3>3. Websocket(d)' = Websocket(d)
      BY <2>1 DEF Websocket
    <3> QED
      BY <1>3, <2>1, <3>1, <3>2, <3>3 DEF CauseInv, CauseOK, Awaited
  <2> QED
    BY <2>3, <2>4 DEF CauseInv
<1> QED
  BY <1>4, <1>5

LEMMA TurnCauses == ASSUME LinkInv, CauseInv, Turn PROVE CauseInv'
<1>1. /\ line \in Seq(Entries) /\ QueueOK(line) /\ lock = <<>> /\ line # <<>>
      /\ latest' = latest /\ Hold(Head(line), Tail(line)) /\ Len(line) \in Nat
  BY DEF LinkInv, TypeOK, Turn
<1>2. PICK e : e = Head(line)
  OBVIOUS
<1>3. PICK rest : rest = Tail(line)
  OBVIOUS
<1>4. Hold(e, rest)
  BY <1>1, <1>2, <1>3
<1>5. /\ e = line[1] /\ 1 \in 1 .. Len(line) /\ rest \in Seq(Entries) /\ Len(rest) = Len(line) - 1
      /\ \A i \in 1 .. Len(rest) : rest[i] = line[i + 1] /\ i + 1 \in 1 .. Len(line)
  BY <1>1, <1>2, <1>3, TailShifts
<1>6. EntryOK(e) /\ \A c \in Sockets : e[2] = c => stage[c] # "gone"
  BY <1>1, <1>5 DEF QueueOK, CauseInv, QuietInv
<1>7. ASSUME NEW i \in 1 .. Len(rest), NEW c \in Sockets, rest[i][2] = c
      PROVE  stage[c] # "gone" /\ c # e[2]
  <2>1. rest[i] = line[i + 1] /\ i + 1 \in 1 .. Len(line) /\ i + 1 # 1
    BY <1>5
  <2> QED
    BY <1>1, <1>5, <1>7, <2>1 DEF QueueOK, CauseInv, QuietInv
<1>8. ASSUME NEW d \in Devices, ~NoneFor(line, d)
      PROVE  ~NoneFor(rest, d) \/ (e[1] = "register" /\ e[3] = d)
  <2>1. PICK i \in 1 .. Len(line) : line[i][1] = "register" /\ line[i][3] = d
    BY <1>8 DEF NoneFor
  <2>2. CASE i # 1
    <3>1. i - 1 \in 1 .. Len(rest) /\ (i - 1) + 1 = i
      BY <1>1, <1>5, <2>2
    <3>2. rest[i - 1] = line[i]
      BY <1>5, <3>1
    <3> QED
      BY <2>1, <3>1, <3>2 DEF NoneFor
  <2> QED
    BY <1>5, <2>1, <2>2
<1>9. \A d \in Devices : table[d] # 0 /\ Websocket(d) = NoSocket /\ latest'[d] # NoSocket =>
        ~NoneFor(rest, d) \/ (e[1] = "register" /\ e[3] = d) \/ Ended(d)
  BY <1>1, <1>8 DEF CauseInv, CauseOK, Awaited
<1> QED
  BY <1>1, <1>4, <1>5, <1>6, <1>7, <1>9, SectionCauses

LEMMA PredecessorClosedCauses == ASSUME LinkInv, CauseInv, PredecessorClosed PROVE CauseInv'
<1>1. TypeOK /\ lock \in Sockets \X Devices
  BY DEF LinkInv, TypeOK, PredecessorClosed
<1>2. PICK c \in Sockets, d \in Devices : lock = <<c, d>>
  BY <1>1
<1>3. Install(c, d) /\ UNCHANGED <<open, latest, line>>
  BY <1>2 DEF PredecessorClosed
<1>4. stage[c] = "reading" /\ ~IsOpen(Websocket(d))
  BY <1>2 DEF LinkInv, LockInv
<1>5. /\ \A s \in 1 .. Len(states) : states'[s] = states[s]
      /\ states'[Len(states) + 1].ws = c
      /\ table' = [table EXCEPT ![d] = Len(states) + 1]
  BY <1>3, <1>4, InstallKeeps DEF LinkInv
<1>6. Websocket(d)' = c /\ c # NoSocket
  BY <1>1, <1>5, SocketAssumption DEF Websocket, TypeOK
<1>7. \A x \in Devices \ {d} : Websocket(x)' = Websocket(x) /\ table'[x] = table[x]
  BY <1>1, <1>5 DEF Websocket, TypeOK
<1>8. /\ stage' = [stage EXCEPT ![c] = IF open[c] THEN "reading" ELSE "leaving"]
      /\ named' = [named EXCEPT ![c] = d]
  BY <1>3 DEF Install, ReadOn
<1>9. \A k \in Sockets : stage'[k] = "gone" <=> stage[k] = "gone"
  BY <1>1, <1>4, <1>8 DEF TypeOK
<1>10. QuietInv'
  BY <1>3, <1>9 DEF CauseInv, QuietInv
<1>11. ASSUME NEW x \in Devices, x # d PROVE CauseOK(x)'
  <2>1. Ended(x) => Ended(x)'
    BY <1>1, <1>4, <1>8, <1>9 DEF Ended, TypeOK
  <2>2. Awaited(x) => Awaited(x)'
    BY <1>2, <1>3, <1>11 DEF Awaited, NoneFor
  <2> QED
    BY <1>3, <1>7, <1>11, <2>1, <2>2 DEF CauseInv, CauseOK
<1>12. CauseOK(d)'
  BY <1>6 DEF CauseOK
<1> QED
  BY <1>10, <1>11, <1>12 DEF CauseInv

\* A sender who leaves the line is no handler and takes no registration with it.
LEMMA AbandonCauses == ASSUME LinkInv, CauseInv, NEW p \in Prompts, Abandon(p) PROVE CauseInv'
<1>1. /\ line \in Seq(Entries) /\ QueueOK(line) /\ Len(line) \in Nat
      /\ UNCHANGED <<stage, named, states, table, latest, lock>>
  BY DEF LinkInv, TypeOK, Abandon, sockVars
<1>2. CASE ~InLine(p)
  BY <1>1, <1>2, CausesStay DEF Abandon
<1>3. CASE InLine(p)
  <2>1. PICK i \in 1 .. Len(line) : line[i][2] = p /\ line' = Without(line, i)
    BY <1>1, <1>3 DEF Abandon
  <2>2. line[i][1] # "register"
    <3>1. EntryOK(line[i])
      BY <1>1 DEF QueueOK
    <3> QED
      BY <2>1, <3>1, KindsAssumption DEF EntryOK
  <2> DEFINE at(j) == IF j < i THEN j ELSE j + 1
  <2>3. /\ Len(line') = Len(line) - 1
        /\ \A j \in 1 .. Len(line') : line'[j] = line[at(j)] /\ at(j) \in 1 .. Len(line)
    <3>1. /\ Len(Without(line, i)) = Len(line) - 1
          /\ \A j \in 1 .. Len(line) - 1 : Without(line, i)[j] = line[at(j)]
      BY <1>1, WithoutSkips
    <3>2. \A j \in 1 .. Len(line) - 1 : at(j) \in 1 .. Len(line)
      BY <1>1
    <3> HIDE DEF at
    <3> QED
      BY <2>1, <3>1, <3>2
  <2>4. \A k \in 1 .. Len(line) : k # i => \E j \in 1 .. Len(line') : at(j) = k
    <3> SUFFICES ASSUME NEW k \in 1 .. Len(line), k # i
                 PROVE  \E j \in 1 .. Len(line') : at(j) = k
      OBVIOUS
    <3>1. Len(line') = Len(line) - 1
      BY <2>3
    <3>2. CASE k < i
      <4>1. k \in 1 .. Len(line') /\ at(k) = k
        BY <1>1, <3>1, <3>2
      <4> QED
        BY <4>1
    <3>3. CASE k > i
      <4>1. k - 1 \in 1 .. Len(line') /\ at(k - 1) = k
        BY <1>1, <3>1, <3>3
      <4> QED
        BY <4>1
    <3> QED
      BY <3>2, <3>3
  <2> HIDE DEF at
  <2>5. QuietInv'
    BY <1>1, <2>3 DEF CauseInv, QuietInv
  <2>6. ASSUME NEW d \in Devices PROVE CauseOK(d)'
    <3>1. ~NoneFor(line, d) => ~NoneFor(line, d)'
      <4>1. ASSUME NEW k \in 1 .. Len(line), line[k][1] = "register", line[k][3] = d
            PROVE  \E j \in 1 .. Len(line') : line'[j] = line[k]
        BY <2>2, <2>3, <2>4, <4>1
      <4> QED
        BY <4>1 DEF NoneFor
    <3>2. Ended(d) => Ended(d)'
      BY <1>1 DEF Ended
    <3> QED
      BY <1>1, <3>1, <3>2 DEF CauseInv, CauseOK, Awaited, Websocket
  <2> QED
    BY <2>5, <2>6 DEF CauseInv
<1> QED
  BY <1>2, <1>3

LEMMA ConnectionCauses ==
  ASSUME LinkInv, CauseInv, NEW c \in Sockets,
         Message(c) \/ Drop(c) \/ Disconnect(c) \/ \E d \in Devices : Register(c, d)
  PROVE  CauseInv'
<1>1. TypeOK
  BY DEF LinkInv
<1>2. ASSUME NEW e \in Entries, EntryOK(e), e[1] # "register", e[2] = c, Take(e), latest' = latest,
             stage[c] # "gone"
      PROVE  CauseInv'
  BY <1>2, TakeCauses
<1>3. ASSUME NEW d \in Devices, Register(c, d) PROVE CauseInv'
  <2> DEFINE e == <<"register", c, d>>
  <2>1. e[1] = "register" /\ e[2] = c /\ e[3] = d /\ e \in Entries
    BY DEF Entries, Ops
  <2>2. Take(e) /\ stage[c] = "reading" /\ latest' = [latest EXCEPT ![d] = c]
    BY <1>3 DEF Register, Reads
  <2> HIDE DEF e
  <2>3. EntryOK(e)
    BY <2>1, <2>2 DEF EntryOK
  <2> QED
    BY <2>1, <2>2, <2>3, TakeCauses
<1>4. CASE Message(c)
  <2>1. PICK d \in Devices : d = named[c]
    BY <1>1, <1>4 DEF Message, TypeOK
  <2>2. latest' = latest /\ stage[c] # "gone"
    BY <1>4 DEF Message, Reads
  <2>3. ASSUME NEW op \in {"heartbeat", "capabilities"}, Take(<<op, c, d>>) PROVE CauseInv'
    <3> DEFINE e == <<op, c, d>>
    <3>1. e[1] = op /\ e[2] = c /\ e \in Entries /\ Take(e)
      BY <2>3 DEF Entries, Ops
    <3> HIDE DEF e
    <3>2. EntryOK(e)
      BY <2>1, <3>1 DEF EntryOK
    <3> QED
      BY <1>2, <2>2, <3>1, <3>2
  <2>4. ASSUME NEW p \in got, Take(<<"result", c, p>>) PROVE CauseInv'
    <3> DEFINE e == <<"result", c, p>>
    <3>1. p \in Prompts
      BY <1>1 DEF TypeOK
    <3>2. e[1] = "result" /\ e[2] = c /\ e[3] = p /\ e \in Entries /\ Take(e)
      BY <2>4, <3>1 DEF Entries, Ops
    <3> HIDE DEF e
    <3>3. EntryOK(e)
      BY <2>1, <3>1, <3>2 DEF EntryOK
    <3> QED
      BY <1>2, <2>2, <3>2, <3>3
  <2> QED
    BY <1>4, <2>1, <2>3, <2>4 DEF Message
<1>5. CASE Disconnect(c) /\ named[c] # NoDevice
  <2>1. PICK d \in Devices : d = named[c]
    BY <1>1, <1>5 DEF TypeOK
  <2> DEFINE e == <<"offline", c, d>>
  <2>2. e[1] = "offline" /\ e[2] = c /\ e \in Entries /\ Take(e) /\ latest' = latest
    BY <1>5, <2>1 DEF Entries, Ops, Disconnect
  <2> HIDE DEF e
  <2>3. EntryOK(e)
    BY <2>1, <2>2 DEF EntryOK
  <2>4. stage[c] # "gone"
    BY <1>5 DEF Disconnect, Reads
  <2> QED
    BY <1>2, <2>2, <2>3, <2>4
<1>6. CASE Disconnect(c) /\ named[c] = NoDevice
  <2>1. /\ stage' = [stage EXCEPT ![c] = "gone"] /\ ~InLine(c)
        /\ UNCHANGED <<named, states, table, latest, lock, line>>
    BY <1>6 DEF Disconnect, Reads
  <2>2. line \in Seq(Entries) /\ stage \in [Sockets -> {"reading", "leaving", "gone"}]
    BY <1>1 DEF TypeOK
  <2>3. QuietInv'
    BY <2>1, <2>2 DEF CauseInv, QuietInv, InLine
  <2>4. ASSUME NEW d \in Devices PROVE CauseOK(d)'
    <3>1. Ended(d) => Ended(d)'
      BY <2>1, <2>2 DEF Ended
    <3> QED
      BY <2>1, <3>1 DEF CauseInv, CauseOK, Awaited, NoneFor, Websocket
  <2> QED
    BY <2>3, <2>4 DEF CauseInv
<1>7. CASE Drop(c)
  BY <1>7, CausesStay DEF Drop
<1> QED
  BY <1>3, <1>4, <1>5, <1>6, <1>7

LEMMA SenderCauses ==
  ASSUME LinkInv, CauseInv, NEW p \in Prompts,
         Wake(p) \/ Timeout(p) \/ Abandon(p) \/ \E d \in Devices : SendPrompt(p, d)
  PROVE  CauseInv'
<1>1. TypeOK /\ PromptOK(p)
  BY DEF LinkInv, PromptInv
<1>2. ASSUME NEW op \in {"lookup", "thanks"}, NEW d \in Devices, Take(<<op, p, d>>),
             EntryOK(<<op, p, d>>), latest' = latest
      PROVE  CauseInv'
  <2> DEFINE e == <<op, p, d>>
  <2>1. e[1] = op /\ e[2] = p /\ e \in Entries /\ Take(e) /\ EntryOK(e)
    BY <1>2 DEF Entries, Ops
  <2> HIDE DEF e
  <2>2. \A c \in Sockets : e[2] # c
    BY <2>1, KindsAssumption
  <2> QED
    BY <1>2, <2>1, <2>2, TakeCauses
<1>3. CASE Wake(p)
  <2>1. PICK d \in Devices : d = to[p]
    BY <1>1, <1>3 DEF Wake, PromptOK
  <2>2. CASE future[p] = "answer" /\ Take(<<"thanks", p, d>>)
    BY <1>2, <1>3, <2>2 DEF Wake, EntryOK
  <2>3. CASE ~(future[p] = "answer" /\ Take(<<"thanks", p, d>>))
    BY <1>3, <2>1, <2>3, CausesStay DEF Wake, sockVars
  <2> QED
    BY <2>2, <2>3
<1>4. CASE Timeout(p)
  BY <1>4, CausesStay DEF Timeout, sockVars
<1>5. CASE Abandon(p)
  BY <1>5, AbandonCauses
<1>6. ASSUME NEW d \in Devices, SendPrompt(p, d) PROVE CauseInv'
  <2>1. sender[p] = "busy" /\ latest' = latest /\ Take(<<"lookup", p, d>>)
    BY <1>1, <1>6, DeviceAssumption DEF SendPrompt, PromptOK
  <2>2. EntryOK(<<"lookup", p, d>>)
    BY <2>1 DEF EntryOK
  <2> QED
    BY <1>2, <2>1, <2>2
<1> QED
  BY <1>3, <1>4, <1>5, <1>6

LEMMA DeletionCauses ==
  ASSUME LinkInv, CauseInv, NEW d \in Devices, Delete(d) \/ WebsocketClosed(d) PROVE CauseInv'
<1>1. CASE Delete(d)
  <2> DEFINE e == <<"delete", d, d>>
  <2>1. e[1] = "delete" /\ e[2] = d /\ e \in Entries /\ Take(e) /\ latest' = latest
    BY <1>1 DEF Entries, Ops, Delete
  <2> HIDE DEF e
  <2>2. EntryOK(e) /\ \A c \in Sockets : e[2] # c
    BY <2>1, KindsAssumption DEF EntryOK
  <2> QED
    BY <2>1, <2>2, TakeCauses
<1>2. CASE WebsocketClosed(d)
  BY <1>2, CausesStay DEF WebsocketClosed, sockVars
<1> QED
  BY <1>1, <1>2

\* As long as the device is not deleted, only the end of another of its connections takes
\* the WebSocket of the latest registration away (register_device, mark_offline).
THEOREM OnlyAPredecessorTakesIt == Spec => []LosesItToAPredecessorOnly
<1>1. Init => CauseInv
  <2> SUFFICES ASSUME Init PROVE CauseInv
    OBVIOUS
  <2>1. line = <<>> /\ \A d \in Devices : latest[d] = NoSocket
    BY DEF Init
  <2> QED
    BY <2>1 DEF CauseInv, QuietInv, CauseOK
<1>2. ASSUME LinkInv, CauseInv, [Next]_vars PROVE CauseInv'
  <2>1. CASE UNCHANGED vars
    BY <1>2, <2>1, CausesStay DEF vars, sockVars
  <2>2. CASE Next
    BY <1>2, <2>2, TurnCauses, PredecessorClosedCauses, ConnectionCauses, SenderCauses,
       DeletionCauses DEF Next
  <2> QED
    BY <1>2, <2>1, <2>2
<1>3. IInv => LinkInv
  BY DEF IInv
<1>4. Spec => []CauseInv
  BY <1>1, <1>2, <1>3, LinkInvariant, PTL DEF Spec
<1>5. ASSUME IInv, CauseInv, NEW c \in Sockets, NEW d \in Devices,
             latest[d] = c, Reads(c), table[d] # 0, Websocket(d) # c
      PROVE  \E b \in Sockets \ {c} : named[b] = d /\ stage[b] = "gone"
  <2>1. OrderOK(d) /\ CauseOK(d) /\ line \in Seq(Entries) /\ TypeOK
    BY <1>5 DEF IInv, LinkInv, OrderInv, CauseInv, TypeOK
  <2>2. ~LastFor(line, c, d)
    BY <1>5, <2>1 DEF LastFor, Reads, InLine
  <2>3. lock # <<c, d>>
    BY <1>5 DEF Reads
  <2>4. ~Awaited(d) /\ Websocket(d) = NoSocket
    BY <1>5, <2>1, <2>2, <2>3 DEF OrderOK, Awaited
  <2>5. Ended(d)
    BY <1>5, <2>1, <2>4, SocketAssumption DEF CauseOK
  <2> QED
    BY <1>5, <2>5 DEF Ended, Reads
<1>6. IInv /\ CauseInv => LosesItToAPredecessorOnly
  BY <1>5 DEF LosesItToAPredecessorOnly
<1> QED
  BY <1>4, <1>6, LinkInvariant, PTL

=============================================================================
