----------------------------- MODULE MCDeviceLink -----------------------------
(***************************************************************************)
(* DeviceLink with a device that is prompted and deleted, and another id    *)
(* that its connections may register as well, before or after.              *)
(***************************************************************************)
EXTENDS DeviceLink

CONSTANTS d1, d2, c1, c2

MCDevices == {d1, d2}
MCSockets == {c1, c2}

\* Connections differ by nothing but their name: the first to register is c1.
FirstIsC1 == (\A d \in Devices : latest[d] = NoSocket) => \A d \in Devices : latest'[d] # c2

\* There is one prompt, so that which device it goes to is a name as well.
PromptsGoToD1 == \A p \in Prompts : to'[p] # d2

\* Bound: only the prompted device is deleted.
DeletesD1 == \A i \in DOMAIN line' : line'[i] # <<"delete", d2, d2>>

\* Bound: nor is the other one deleted at once, without standing in line.
KeepsD2 == table[d2] # 0 => table'[d2] # 0

MCSpec ==
  Init /\ [][Next /\ FirstIsC1 /\ PromptsGoToD1 /\ DeletesD1 /\ KeepsD2]_vars /\ Fairness
=============================================================================
