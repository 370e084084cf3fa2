---------------------------- MODULE Manager_proof ----------------------------
(* The manager, for any numbers of devices, handles, messages and clients: *)
(* its inductive invariant, the network entries that its heartbeat tasks   *)
(* account for, the table of USB handles, the client sessions that are     *)
(* killed when their device goes, and the events its listeners are told.   *)
EXTENDS Manager, FiniteSetTheorems, TLAPS

(* Every message the tasks send is a message. *)
LEMMA Messages ==
  /\ \A u \in Udids, ct \in Types, f \in Adders \cup {NoClient} :
       [type |-> "DiscoveredNetworkDevice", udid |-> u, ct |-> ct, from |-> f] \in Message
  /\ \A u \in Udids, h \in Handles :
       [type |-> "DiscoveredUsbDevice", udid |-> u, handle |-> h] \in Message
  /\ \A id \in Ids : [type |-> "DeferredMuxerAdd", id |-> id] \in Message
  /\ \A u \in Udids, ct \in {AnyType, "USB"} :
       [type |-> "RemoveDevice", udid |-> u, ct |-> ct] \in Message
  /\ \A id \in Nat, s \in Sessions :
       /\ [type |-> "GetDeviceConnection", id |-> id, session |-> s] \in Message
       /\ [type |-> "OpenSocket", id |-> id, session |-> s] \in Message
  /\ \A u \in Udids : [type |-> "HeartbeatFailed", udid |-> u] \in Message
  /\ \A l \in Listeners : [type |-> "Subscribe", listener |-> l] \in Message
<1> QED BY DEF Message

(* What a message of each type carries. *)
LEMMA MessageFields ==
  ASSUME NEW m \in Message
  PROVE  /\ m.type = "DiscoveredNetworkDevice" =>
              m.udid \in Udids /\ m.ct \in Types /\ m.from \in Adders \cup {NoClient}
         /\ m.type = "DiscoveredUsbDevice" => m.udid \in Udids /\ m.handle \in Handles
         /\ m.type = "DeferredMuxerAdd" => m.id \in Ids
         /\ m.type = "RemoveDevice" => m.udid \in Udids /\ m.ct \in {AnyType, "USB"}
         /\ m.type \in {"GetDeviceConnection", "OpenSocket"} =>
              m.id \in Nat /\ m.session \in Sessions
         /\ m.type = "HeartbeatFailed" => m.udid \in Udids
         /\ m.type = "Subscribe" => m.listener \in Listeners
<1> QED BY DEF Message

LEMMA IdFacts ==
  /\ FirstId \in Nat /\ MaxDevices \in Nat
  /\ Ids \subseteq Nat
  /\ \A n \in FirstId..(FirstId + MaxDevices) :
       n < FirstId + MaxDevices => n \in Ids /\ n + 1 \in FirstId..(FirstId + MaxDevices)
<1> QED BY FirstIdAssumption, BoundsAssumption DEF Ids

(* Writing to the table, and dropping from it. *)
LEMMA PutDrop ==
  ASSUME NEW f, NEW S, f \in [DOMAIN f -> S], NEW x, NEW v \in S
  PROVE  /\ DOMAIN Put(f, x, v) = DOMAIN f \cup {x}
         /\ Put(f, x, v) \in [DOMAIN Put(f, x, v) -> S]
         /\ Put(f, x, v)[x] = v
         /\ \A y \in DOMAIN f : y # x => Put(f, x, v)[y] = f[y]
<1> QED BY DEF Put

LEMMA PutTyped ==
  ASSUME NEW S, NEW f, f \in [DOMAIN f -> S], DOMAIN f \subseteq Ids,
         NEW x \in Ids, NEW v \in S
  PROVE  /\ DOMAIN Put(f, x, v) \subseteq Ids
         /\ Put(f, x, v) \in [DOMAIN Put(f, x, v) -> S]
<1> QED BY DEF Put

LEMMA DropTyped ==
  ASSUME NEW S, NEW f, f \in [DOMAIN f -> S], DOMAIN f \subseteq Ids, NEW x
  PROVE  /\ DOMAIN Drop(f, x) \subseteq Ids
         /\ Drop(f, x) \in [DOMAIN Drop(f, x) -> S]
<1> QED BY DEF Drop, Restrict

LEMMA DropFacts ==
  ASSUME NEW f, NEW S, f \in [DOMAIN f -> S], NEW x
  PROVE  /\ DOMAIN Drop(f, x) = DOMAIN f \ {x}
         /\ Drop(f, x) \in [DOMAIN Drop(f, x) -> S]
         /\ \A y \in DOMAIN f : y # x => Drop(f, x)[y] = f[y]
<1> QED BY DEF Drop, Restrict

LEMMA Tables ==
  ASSUME TypeOK
  PROVE  /\ DOMAIN devices \subseteq Ids /\ devices \in [DOMAIN devices -> Device]
         /\ DOMAIN usbHandles \subseteq Ids
         /\ usbHandles \in [DOMAIN usbHandles -> Handles]
         /\ DOMAIN tasks \subseteq Ids /\ tasks \in [DOMAIN tasks -> Task]
<1> QED BY DEF TypeOK

(* Taking the oldest message leaves a channel of messages. *)
LEMMA Received ==
  ASSUME TypeOK, NEW t, Receive(t)
  PROVE  /\ inbox' \in Seq(Message) /\ msg \in Message /\ msg.type = t
         /\ removing = {} /\ detaching = {}
         /\ Len(inbox) \in Nat /\ Len(inbox) > 0 /\ inbox' = Tail(inbox)
         /\ msg = inbox[1] /\ DOMAIN inbox = 1..Len(inbox)
         /\ DOMAIN inbox' = 1..(Len(inbox) - 1)
         /\ \A i \in 1..(Len(inbox) - 1) : inbox'[i] = inbox[i + 1]
<1> QED BY DEF Receive, TypeOK, msg

LEMMA Sent ==
  ASSUME TypeOK, NEW m \in Message, Send(m)
  PROVE  /\ inbox' \in Seq(Message)
         /\ Len(inbox) \in Nat /\ DOMAIN inbox = 1..Len(inbox)
         /\ DOMAIN inbox' = 1..(Len(inbox) + 1)
         /\ inbox'[Len(inbox) + 1] = m
         /\ \A i \in 1..Len(inbox) : inbox'[i] = inbox[i]
<1> QED BY DEF Send, TypeOK

LEMMA Broadcasts ==
  ASSUME TypeOK, NEW e \in Event, Broadcast(e)
  PROVE  listeners' \subseteq Listeners /\ log' \in [Listeners -> Seq(Event)]
<1> QED BY DEF TypeOK, Broadcast

LEMMA EventTyped ==
  \A id \in Ids : Attached(id) \in Event /\ Detached(id) \in Event
<1> QED BY DEF Event, Attached, Detached

(* drop_entry leaves tables, kill senders and sessions well typed. *)
LEMMA DropEntryTyped ==
  ASSUME TypeOK, NEW id, DropEntry(id)
  PROVE  /\ DOMAIN devices' \subseteq Ids /\ devices' \in [DOMAIN devices' -> Device]
         /\ DOMAIN usbHandles' \subseteq Ids
         /\ usbHandles' \in [DOMAIN usbHandles' -> Handles]
         /\ openSockets' \subseteq Nat \X Sessions
         /\ sessions' \in [Sessions ->
              [pc : {"idle", "lookup", "dialing", "open", "closed", "killed"}, id : Nat]]
<1>1. /\ DOMAIN devices' \subseteq Ids /\ devices' \in [DOMAIN devices' -> Device]
      /\ DOMAIN usbHandles' \subseteq Ids /\ usbHandles' \in [DOMAIN usbHandles' -> Handles]
  BY Tables, DropTyped DEF DropEntry
<1>2. openSockets' \subseteq Nat \X Sessions
  BY DEF DropEntry, KillSessions, KillsOf, TypeOK
<1>3. sessions' \in [Sessions ->
        [pc : {"idle", "lookup", "dialing", "open", "closed", "killed"}, id : Nat]]
  <2>1. KillSessions(KillsOf(id))
    BY DEF DropEntry
  <2>2. \A s \in Sessions :
          [sessions[s] EXCEPT !.pc = "killed"] \in
            [pc : {"idle", "lookup", "dialing", "open", "closed", "killed"}, id : Nat]
    BY DEF TypeOK
  <2>3. \A s \in Sessions : sessions[s] \in
            [pc : {"idle", "lookup", "dialing", "open", "closed", "killed"}, id : Nat]
    BY DEF TypeOK
  <2>4. PICK killed : sessions' = [s \in Sessions |->
          IF s \in killed THEN [sessions[s] EXCEPT !.pc = "killed"] ELSE sessions[s]]
    <3> DEFINE K == {s \in Sessions : sessions[s].pc = "open" /\ \E k \in KillsOf(id) : k[2] = s}
    <3> WITNESS K
    <3> QED BY <2>1 DEF KillSessions
  <2> QED BY <2>2, <2>3, <2>4
<1> QED BY <1>1, <1>2, <1>3

LEMMA DevicesFinite == TypeOK => IsFiniteSet(DOMAIN devices)
<1> SUFFICES ASSUME TypeOK PROVE IsFiniteSet(DOMAIN devices)
  OBVIOUS
<1>1. IsFiniteSet(Ids)
  BY FirstIdAssumption, BoundsAssumption, FS_Interval DEF Ids
<1> QED BY <1>1, Tables, FS_Subset

LEMMA InitTypeOK == Init => TypeOK
<1> QED BY FirstIdAssumption, BoundsAssumption DEF Init, TypeOK

LEMMA ManagerTypeOK == TypeOK /\ DeferredOnce /\ ManagerStep => TypeOK'
<1> SUFFICES ASSUME TypeOK, DeferredOnce, ManagerStep PROVE TypeOK'
  OBVIOUS
<1>1. CASE IgnoreNetworkDevice
  BY <1>1, Received, MessageFields DEF IgnoreNetworkDevice, Reply, TypeOK, managerVars
<1>2. CASE SpawnHeartbeat
  <2>1. msg.udid \in Udids /\ msg.ct \in Types /\ msg.from \in Adders \cup {NoClient}
        /\ inbox' \in Seq(Message)
    BY <1>2, Received, MessageFields DEF SpawnHeartbeat
  <2>2. lastIndex \in Ids /\ lastIndex' \in FirstId..(FirstId + MaxDevices)
    BY <1>2, IdFacts DEF SpawnHeartbeat, IdsLeft, TypeOK
  <2>3. [udid |-> msg.udid, ct |-> msg.ct, from |-> msg.from, pc |-> "setup",
         listed |-> FALSE] \in Task
    BY <2>1 DEF Task, HbStates
  <2>4. DOMAIN tasks' \subseteq Ids /\ tasks' \in [DOMAIN tasks' -> Task]
    BY <1>2, <2>2, <2>3, PutTyped, Tables DEF SpawnHeartbeat
  <2> QED
    BY <1>2, <2>1, <2>2, <2>4 DEF SpawnHeartbeat, TypeOK, clientVars
<1>3. CASE AddNetworkDevice
  <2>1. msg.udid \in Udids /\ msg.ct \in Types /\ msg.from \in Adders \cup {NoClient}
        /\ inbox' \in Seq(Message)
    BY <1>3, Received, MessageFields DEF AddNetworkDevice
  <2>2. lastIndex \in Ids /\ lastIndex' \in FirstId..(FirstId + MaxDevices)
    BY <1>3, IdFacts DEF AddNetworkDevice, IdsLeft, TypeOK
  <2>3. listeners' \subseteq Listeners /\ log' \in [Listeners -> Seq(Event)]
    BY <1>3, <2>2, Broadcasts, EventTyped DEF AddNetworkDevice
  <2>4. [udid |-> msg.udid, ct |-> msg.ct] \in Device
    BY <2>1 DEF Device
  <2>5. DOMAIN devices' \subseteq Ids /\ devices' \in [DOMAIN devices' -> Device]
    BY <1>3, <2>2, <2>4, PutTyped, Tables DEF AddNetworkDevice
  <2> QED
    BY <1>3, <2>1, <2>2, <2>3, <2>5 DEF AddNetworkDevice, TypeOK, Reply
<1>4. CASE ReplaceUsbHandle
  <2>1. msg.handle \in Handles /\ inbox' \in Seq(Message)
    BY <1>4, Received, MessageFields DEF ReplaceUsbHandle
  <2>2. DOMAIN usbHandles' \subseteq Ids /\ usbHandles' \in [DOMAIN usbHandles' -> Handles]
    <3>1. PICK id \in Ids : usbHandles' = Put(usbHandles, id, msg.handle)
      BY <1>4, Tables DEF ReplaceUsbHandle, FindDevice
    <3> QED BY <2>1, <3>1, PutTyped, Tables
  <2> QED
    BY <1>4, <2>1, <2>2 DEF ReplaceUsbHandle, TypeOK, clientVars
<1>5. CASE AddUsbDevice
  <2>1. msg.udid \in Udids /\ msg.handle \in Handles /\ inbox' \in Seq(Message)
    BY <1>5, Received, MessageFields DEF AddUsbDevice
  <2>2. lastIndex \in Ids /\ lastIndex' \in FirstId..(FirstId + MaxDevices)
    BY <1>5, IdFacts DEF AddUsbDevice, IdsLeft, TypeOK
  <2>3. listeners' \subseteq Listeners /\ log' \in [Listeners -> Seq(Event)]
    BY <1>5, <2>2, Broadcasts, EventTyped DEF AddUsbDevice
  <2>4. [udid |-> msg.udid, ct |-> "USB"] \in Device
    BY <2>1 DEF Device, Types
  <2>5. DOMAIN devices' \subseteq Ids /\ devices' \in [DOMAIN devices' -> Device]
    BY <1>5, <2>2, <2>4, PutTyped, Tables DEF AddUsbDevice
  <2>6. DOMAIN usbHandles' \subseteq Ids /\ usbHandles' \in [DOMAIN usbHandles' -> Handles]
    BY <1>5, <2>1, <2>2, PutTyped, Tables DEF AddUsbDevice
  <2> QED
    BY <1>5, <2>1, <2>2, <2>3, <2>5, <2>6 DEF AddUsbDevice, TypeOK, clientVars
<1>6. CASE DeferredMuxerAdd
  <2>1. msg.id \in Ids /\ inbox' \in Seq(Message)
    BY <1>6, Received, MessageFields DEF DeferredMuxerAdd
  <2>2. msg.id \in DOMAIN tasks
    BY <1>6, Received DEF DeferredMuxerAdd, DeferredOnce, HeldBack
  <2>3. tasks[msg.id] \in Task
    BY <2>2, Tables
  <2>4. [udid |-> tasks[msg.id].udid, ct |-> tasks[msg.id].ct] \in Device
    BY <2>3 DEF Device, Task
  <2>5. DOMAIN devices' \subseteq Ids /\ devices' \in [DOMAIN devices' -> Device]
    BY <1>6, <2>1, <2>4, PutTyped, Tables DEF DeferredMuxerAdd
  <2>6. [tasks[msg.id] EXCEPT !.listed = TRUE] \in Task
    BY <2>3 DEF Task
  <2>7. DOMAIN tasks' \subseteq Ids /\ tasks' \in [DOMAIN tasks' -> Task]
    BY <1>6, <2>2, <2>6, Tables DEF DeferredMuxerAdd
  <2>8. listeners' \subseteq Listeners /\ log' \in [Listeners -> Seq(Event)]
    BY <1>6, <2>1, Broadcasts, EventTyped DEF DeferredMuxerAdd
  <2>9. adders' \in [Adders -> {"idle", "waiting", "result0", "result1", "dropped"}]
    BY <1>6, <2>3 DEF DeferredMuxerAdd, Reply, Task, TypeOK
  <2> QED
    BY <1>6, <2>1, <2>5, <2>7, <2>8, <2>9 DEF DeferredMuxerAdd, TypeOK
<1>7. CASE HeartbeatFailed
  <2>1. inbox' \in Seq(Message)
    BY <1>7, Received DEF HeartbeatFailed
  <2>2. CASE UNCHANGED <<devices, usbHandles, openSockets, sessions, listeners, log>>
    BY <1>7, <2>1, <2>2 DEF HeartbeatFailed, TypeOK
  <2>3. CASE \E id \in FindDevice(msg.udid, "Network") : DropEntry(id) /\ Broadcast(Detached(id))
    <3>1. PICK id \in DOMAIN devices : DropEntry(id) /\ Broadcast(Detached(id))
      BY <2>3 DEF FindDevice
    <3>2. listeners' \subseteq Listeners /\ log' \in [Listeners -> Seq(Event)]
      BY <3>1, Tables, Broadcasts, EventTyped
    <3> QED BY <1>7, <2>1, <3>1, <3>2, DropEntryTyped DEF HeartbeatFailed, TypeOK
  <2> QED BY <1>7, <2>2, <2>3 DEF HeartbeatFailed
<1>8. CASE BeginRemoveDevice
  BY <1>8, Received, Tables DEF BeginRemoveDevice, TypeOK, clientVars
<1>9. ASSUME NEW id \in Ids, RemoveNext(id) PROVE TypeOK'
  <2>1. CASE Broadcast(Detached(id)) /\ UNCHANGED detaching
    BY <1>9, <2>1, DropEntryTyped, Broadcasts, EventTyped DEF RemoveNext, TypeOK
  <2>2. CASE detaching' = {id} /\ UNCHANGED <<listeners, log>>
    BY <1>9, <2>2, DropEntryTyped DEF RemoveNext, TypeOK
  <2> QED BY <1>9, <2>1, <2>2 DEF RemoveNext
<1>10. ASSUME NEW id \in Ids, HandleShutDown(id) PROVE TypeOK'
  BY <1>10, Broadcasts, EventTyped DEF HandleShutDown, TypeOK, clientVars
<1>11. CASE GetDeviceConnection
  <2>1. msg.session \in Sessions /\ inbox' \in Seq(Message)
    BY <1>11, Received, MessageFields DEF GetDeviceConnection
  <2> QED BY <1>11, <2>1 DEF GetDeviceConnection, TypeOK, managerVars
<1>12. CASE OpenSocket
  <2>1. msg.session \in Sessions /\ msg.id \in Nat /\ inbox' \in Seq(Message)
    BY <1>12, Received, MessageFields DEF OpenSocket
  <2> QED BY <1>12, <2>1 DEF OpenSocket, TypeOK, clientVars
<1>13. CASE Subscribe
  <2>1. msg.listener \in Listeners /\ inbox' \in Seq(Message)
    BY <1>13, Received, MessageFields DEF Subscribe
  <2>2. IsFiniteSet(DOMAIN devices) /\ Cardinality(DOMAIN devices) \in Nat
    BY DevicesFinite, FS_CardinalityType
  <2>3. ASSUME NEW order \in Bijection(1..Cardinality(DOMAIN devices), DOMAIN devices)
        PROVE  [i \in 1..Cardinality(DOMAIN devices) |-> Attached(order[i])] \in Seq(Event)
    <3>1. \A i \in 1..Cardinality(DOMAIN devices) : Attached(order[i]) \in Event
      BY EventTyped, Tables DEF Bijection, Injection
    <3> QED BY <3>1, <2>2
  <2>4. listeners' \subseteq Listeners /\ log' \in [Listeners -> Seq(Event)]
    BY <1>13, <2>1, <2>3 DEF Subscribe, TypeOK
  <2> QED BY <1>13, <2>1, <2>4 DEF Subscribe, TypeOK, clientVars
<1> QED
  BY <1>1, <1>2, <1>3, <1>4, <1>5, <1>6, <1>7, <1>8, <1>9, <1>10, <1>11, <1>12, <1>13
  DEF ManagerStep

LEMMA TaskTypeOK == TypeOK /\ HeartbeatStep => TypeOK'
<1> SUFFICES ASSUME TypeOK, HeartbeatStep PROVE TypeOK'
  OBVIOUS
<1>1. ASSUME NEW id \in Ids, HeartbeatSetupFails(id) PROVE TypeOK'
  <2>1. tasks[id] \in Task
    BY <1>1, Tables DEF HeartbeatSetupFails
  <2>2. [tasks[id] EXCEPT !.pc = "gaveUp"] \in Task
    BY <2>1 DEF Task, HbStates
  <2>3. tasks' \in [DOMAIN tasks -> Task] /\ DOMAIN tasks' = DOMAIN tasks
    BY <1>1, <2>2, Tables DEF HeartbeatSetupFails
  <2>4. adders' \in [Adders -> {"idle", "waiting", "result0", "result1", "dropped"}]
    BY <1>1, <2>1 DEF HeartbeatSetupFails, Reply, TypeOK, Task
  <2> QED BY <1>1, <2>3, <2>4 DEF HeartbeatSetupFails, TypeOK, managerVars
<1>2. ASSUME NEW id \in Ids, HeartbeatEstablished(id) PROVE TypeOK'
  <2>1. tasks[id] \in Task
    BY <1>2, Tables DEF HeartbeatEstablished
  <2>2. [tasks[id] EXCEPT !.pc = "beating"] \in Task
    BY <2>1 DEF Task, HbStates
  <2>3. tasks' \in [DOMAIN tasks -> Task] /\ DOMAIN tasks' = DOMAIN tasks
    BY <1>2, <2>2, Tables DEF HeartbeatEstablished
  <2>4. inbox' \in Seq(Message)
    BY <1>2, Messages, Sent DEF HeartbeatEstablished
  <2> QED BY <1>2, <2>3, <2>4 DEF HeartbeatEstablished, TypeOK, managerVars, clientVars
<1>3. ASSUME NEW id \in Ids, HeartbeatLost(id) PROVE TypeOK'
  <2>1. tasks[id] \in Task
    BY <1>3, Tables DEF HeartbeatLost
  <2>2. [tasks[id] EXCEPT !.pc = "ended"] \in Task /\ tasks[id].udid \in Udids
    BY <2>1 DEF Task, HbStates
  <2>3. tasks' \in [DOMAIN tasks -> Task] /\ DOMAIN tasks' = DOMAIN tasks
    BY <1>3, <2>2, Tables DEF HeartbeatLost
  <2>4. inbox' \in Seq(Message)
    BY <1>3, <2>2, Messages, Sent DEF HeartbeatLost
  <2> QED BY <1>3, <2>3, <2>4 DEF HeartbeatLost, TypeOK, managerVars, clientVars
<1> QED BY <1>1, <1>2, <1>3 DEF HeartbeatStep

LEMMA ClientTypeOK == TypeOK /\ ClientStep => TypeOK'
<1> SUFFICES ASSUME TypeOK, ClientStep PROVE TypeOK'
  OBVIOUS
<1> USE DEF managerVars, clientVars
<1>1. ASSUME NEW u \in Udids, MdnsResolved(u) PROVE TypeOK'
  <2>1. inbox' \in Seq(Message)
    BY <1>1, Messages, Sent DEF MdnsResolved, SendDiscovery, Types
  <2> QED BY <1>1, <2>1 DEF MdnsResolved, TypeOK
<1>2. ASSUME NEW u \in Udids, ClientRemoveDevice(u) PROVE TypeOK'
  <2>1. inbox' \in Seq(Message)
    BY <1>2, Messages, Sent DEF ClientRemoveDevice
  <2> QED BY <1>2, <2>1 DEF ClientRemoveDevice, TypeOK
<1>3. ASSUME NEW u \in Udids, UsbGone(u) PROVE TypeOK'
  <2>1. inbox' \in Seq(Message)
    BY <1>3, Messages, Sent DEF UsbGone
  <2> QED BY <1>3, <2>1 DEF UsbGone, TypeOK
<1>4. ASSUME NEW u \in Udids, NEW h \in Handles, RegisterUsb(u, h) PROVE TypeOK'
  <2>1. inbox' \in Seq(Message)
    BY <1>4, Messages, Sent DEF RegisterUsb, SendDiscovery
  <2> QED BY <1>4, <2>1 DEF RegisterUsb, TypeOK
<1>5. ASSUME NEW u \in Udids, NEW a \in Adders, NEW ct \in AddTypes, ClientAddDevice(a, u, ct)
      PROVE  TypeOK'
  <2>1. inbox' \in Seq(Message)
    BY <1>5, Messages, Sent DEF ClientAddDevice, SendDiscovery, Types
  <2> QED BY <1>5, <2>1 DEF ClientAddDevice, TypeOK
<1>6. ASSUME NEW l \in Listeners, StartListen(l) PROVE TypeOK'
  <2>1. inbox' \in Seq(Message)
    BY <1>6, Messages, Sent DEF StartListen
  <2> QED BY <1>6, <2>1 DEF StartListen, TypeOK
<1>7. ASSUME NEW l \in Listeners, ListenerGone(l) PROVE TypeOK'
  BY <1>7 DEF ListenerGone, TypeOK
<1>8. ASSUME NEW s \in Sessions, NEW id \in FirstId..lastIndex, SessionConnect(s, id)
      PROVE  TypeOK'
  <2>1. id \in Nat
    BY IdFacts DEF TypeOK
  <2>2. inbox' \in Seq(Message)
    BY <1>8, <2>1, Messages, Sent DEF SessionConnect
  <2> QED BY <1>8, <2>1, <2>2 DEF SessionConnect, TypeOK
<1>9. ASSUME NEW s \in Sessions, SessionDialed(s) PROVE TypeOK'
  <2>1. inbox' \in Seq(Message)
    <3>1. sessions[s].id \in Nat
      BY DEF TypeOK
    <3> QED BY <1>9, <3>1, Messages, Sent DEF SessionDialed
  <2> QED BY <1>9, <2>1 DEF SessionDialed, TypeOK
<1>10. ASSUME NEW s \in Sessions, SessionDialFails(s) PROVE TypeOK'
  BY <1>10 DEF SessionDialFails, TypeOK
<1>11. ASSUME NEW s \in Sessions, SessionEnds(s) PROVE TypeOK'
  BY <1>11 DEF SessionEnds, TypeOK
<1> QED
  BY <1>1, <1>2, <1>3, <1>4, <1>5, <1>6, <1>7, <1>8, <1>9, <1>10, <1>11 DEF ClientStep

-----------------------------------------------------------------------------
(* The parts of the inductive invariant about the channel.                 *)

(* Serving a message keeps DeferredOnce if the devices held back stay so,  *)
(* but for the one a DeferredMuxerAdd names.                               *)
LEMMA DeferredReceive ==
  ASSUME TypeOK, DeferredOnce, NEW t, Receive(t),
         \A id \in HeldBack : \/ t = "DeferredMuxerAdd" /\ id = msg.id
                              \/ id \in HeldBack' /\ tasks'[id].pc = tasks[id].pc
  PROVE  DeferredOnce'
<1> SUFFICES ASSUME NEW i \in DOMAIN inbox', inbox'[i].type = "DeferredMuxerAdd"
             PROVE  /\ inbox'[i].id \in HeldBack'
                    /\ tasks'[inbox'[i].id].pc \in {"beating", "ended"}
                    /\ \A j \in DOMAIN inbox' :
                         /\ inbox'[j].type = "DeferredMuxerAdd"
                         /\ inbox'[j].id = inbox'[i].id
                         => j = i
  BY DEF DeferredOnce
<1>1. /\ DOMAIN inbox = 1..Len(inbox) /\ Len(inbox) \in Nat /\ Len(inbox) > 0
      /\ DOMAIN inbox' = 1..(Len(inbox) - 1)
      /\ \A j \in 1..(Len(inbox) - 1) : inbox'[j] = inbox[j + 1]
      /\ msg = inbox[1] /\ msg.type = t
  BY Received
<1>2. i + 1 \in DOMAIN inbox /\ inbox'[i] = inbox[i + 1] /\ 1 \in DOMAIN inbox /\ i + 1 # 1
  BY <1>1
<1>3. /\ inbox[i + 1].id \in HeldBack
      /\ tasks[inbox[i + 1].id].pc \in {"beating", "ended"}
      /\ \A j \in DOMAIN inbox : /\ inbox[j].type = "DeferredMuxerAdd"
                                 /\ inbox[j].id = inbox[i + 1].id
                                 => j = i + 1
  BY <1>2 DEF DeferredOnce
<1>4. ~(t = "DeferredMuxerAdd" /\ inbox[i + 1].id = msg.id)
  BY <1>1, <1>2, <1>3
<1>5. inbox'[i].id \in HeldBack' /\ tasks'[inbox'[i].id].pc \in {"beating", "ended"}
  BY <1>2, <1>3, <1>4
<1>6. \A j \in DOMAIN inbox' :
        inbox'[j].type = "DeferredMuxerAdd" /\ inbox'[j].id = inbox'[i].id => j = i
  BY <1>1, <1>2, <1>3
<1> QED BY <1>5, <1>6

LEMMA DeferredSend ==
  ASSUME TypeOK, DeferredOnce, NEW m \in Message, Send(m), m.type # "DeferredMuxerAdd",
         \A id \in HeldBack : \/ tasks[id].pc \notin {"beating", "ended"}
                              \/ /\ id \in HeldBack'
                                 /\ tasks'[id].pc \in {"beating", "ended"}
  PROVE  DeferredOnce'
<1>1. /\ DOMAIN inbox = 1..Len(inbox) /\ Len(inbox) \in Nat
      /\ DOMAIN inbox' = 1..(Len(inbox) + 1)
      /\ inbox'[Len(inbox) + 1] = m
      /\ \A i \in 1..Len(inbox) : inbox'[i] = inbox[i]
  BY Sent
<1>2. \A i \in DOMAIN inbox' : inbox'[i].type = "DeferredMuxerAdd" =>
        i \in DOMAIN inbox /\ inbox'[i] = inbox[i]
  BY <1>1
<1> QED BY <1>2 DEF DeferredOnce

LEMMA DeferredKept ==
  ASSUME DeferredOnce, inbox' = inbox,
         \A id \in HeldBack : \/ tasks[id].pc \notin {"beating", "ended"}
                              \/ /\ id \in HeldBack'
                                 /\ tasks'[id].pc \in {"beating", "ended"}
  PROVE  DeferredOnce'
<1> QED BY DEF DeferredOnce

(* The same for the Subscribe messages. *)
LEMMA ListenReceive ==
  ASSUME TypeOK, ListenOnce, NEW t, Receive(t), sockets' = sockets,
         \A l \in Listeners : \/ t = "Subscribe" /\ l = msg.listener
                              \/ l \notin listeners /\ log[l] = <<>> =>
                                   l \notin listeners' /\ log'[l] = <<>>
  PROVE  ListenOnce'
<1>1. /\ DOMAIN inbox = 1..Len(inbox) /\ Len(inbox) \in Nat /\ Len(inbox) > 0
      /\ DOMAIN inbox' = 1..(Len(inbox) - 1)
      /\ \A j \in 1..(Len(inbox) - 1) : inbox'[j] = inbox[j + 1]
      /\ msg = inbox[1] /\ msg.type = t /\ inbox' \in Seq(Message)
  BY Received
<1>2. ASSUME NEW l \in Listeners, sockets'[l] = "idle"
      PROVE  /\ l \notin listeners' /\ log'[l] = <<>>
             /\ \A i \in DOMAIN inbox' : inbox'[i].type = "Subscribe" => inbox'[i].listener # l
  <2>1. /\ l \notin listeners /\ log[l] = <<>>
        /\ \A i \in DOMAIN inbox : inbox[i].type = "Subscribe" => inbox[i].listener # l
    BY <1>2 DEF ListenOnce
  <2>2. ~(t = "Subscribe" /\ l = msg.listener)
    BY <1>1, <2>1
  <2> QED BY <1>1, <2>1, <2>2
<1>3. ASSUME NEW i \in DOMAIN inbox', inbox'[i].type = "Subscribe"
      PROVE  /\ inbox'[i].listener \notin listeners' /\ log'[inbox'[i].listener] = <<>>
             /\ \A j \in DOMAIN inbox' :
                  inbox'[j].type = "Subscribe" /\ inbox'[j].listener = inbox'[i].listener
                    => j = i
  <2>1. i + 1 \in DOMAIN inbox /\ inbox'[i] = inbox[i + 1] /\ i + 1 # 1 /\ 1 \in DOMAIN inbox
    BY <1>1
  <2>2. /\ inbox[i + 1].listener \notin listeners /\ log[inbox[i + 1].listener] = <<>>
        /\ \A j \in DOMAIN inbox :
             inbox[j].type = "Subscribe" /\ inbox[j].listener = inbox[i + 1].listener
               => j = i + 1
    BY <1>3, <2>1 DEF ListenOnce
  <2>3. inbox[i + 1].listener \in Listeners
    BY <1>1, <1>3, <2>1, MessageFields
  <2>4. ~(t = "Subscribe" /\ inbox[i + 1].listener = msg.listener)
    BY <1>1, <2>1, <2>2
  <2>5. inbox'[i].listener \notin listeners' /\ log'[inbox'[i].listener] = <<>>
    BY <2>1, <2>2, <2>3, <2>4
  <2>6. \A j \in DOMAIN inbox' :
          inbox'[j].type = "Subscribe" /\ inbox'[j].listener = inbox'[i].listener => j = i
    <3>1. \A j \in DOMAIN inbox' : j + 1 \in DOMAIN inbox /\ inbox'[j] = inbox[j + 1]
      BY <1>1
    <3>2. i \in Nat /\ \A j \in DOMAIN inbox' : j \in Nat /\ (j + 1 = i + 1 => j = i)
      BY <1>1
    <3> QED BY <2>1, <2>2, <3>1, <3>2
  <2> QED BY <2>5, <2>6
<1> QED BY <1>2, <1>3 DEF ListenOnce

LEMMA ListenSend ==
  ASSUME TypeOK, ListenOnce, NEW m \in Message, Send(m), m.type # "Subscribe",
         UNCHANGED <<sockets, listeners, log>>
  PROVE  ListenOnce'
<1>1. /\ DOMAIN inbox = 1..Len(inbox) /\ Len(inbox) \in Nat
      /\ DOMAIN inbox' = 1..(Len(inbox) + 1)
      /\ inbox'[Len(inbox) + 1] = m
      /\ \A i \in 1..Len(inbox) : inbox'[i] = inbox[i]
  BY Sent
<1>2. \A i \in DOMAIN inbox' : inbox'[i].type = "Subscribe" =>
        i \in DOMAIN inbox /\ inbox'[i] = inbox[i]
  BY <1>1
<1> QED BY <1>2 DEF ListenOnce

LEMMA ListenKept ==
  ASSUME TypeOK, ListenOnce, inbox' = inbox, sockets' = sockets,
         \A l \in Listeners : l \notin listeners /\ log[l] = <<>> =>
                                l \notin listeners' /\ log'[l] = <<>>
  PROVE  ListenOnce'
<1>1. \A i \in DOMAIN inbox : inbox[i].type = "Subscribe" => inbox[i].listener \in Listeners
  BY MessageFields DEF TypeOK
<1> QED BY <1>1 DEF ListenOnce

(* A broadcast reaches the subscribed listeners and no others. *)
LEMMA BroadcastReaches ==
  ASSUME TypeOK, NEW e, Broadcast(e), sockets' = sockets
  PROVE  /\ listeners' = Subscribed /\ Subscribed' = Subscribed
         /\ log' = [l \in Listeners |-> IF l \in Subscribed THEN Append(log[l], e) ELSE log[l]]
         /\ \A l \in Listeners : l \notin listeners => l \notin listeners' /\ log'[l] = log[l]
<1> QED BY DEF Broadcast, Subscribed, TypeOK

-----------------------------------------------------------------------------
(* The inductive invariant, one step per action.                           *)

LEMMA InitIndInv == Init => IndInv
<1> SUFFICES ASSUME Init PROVE IndInv
  OBVIOUS
<1>1. FreshIds /\ DeferredOnce /\ ListenOnce /\ RemovalInProgress
  BY DEF Init, FreshIds, DeferredOnce, ListenOnce, RemovalInProgress, HeldBack
<1> QED BY <1>1, InitTypeOK DEF IndInv

LEMMA ManagerIndInv ==
  ASSUME IndInv, ManagerStep
  PROVE  FreshIds' /\ DeferredOnce' /\ ListenOnce' /\ RemovalInProgress'
<1> DEFINE Goal == FreshIds' /\ DeferredOnce' /\ ListenOnce' /\ RemovalInProgress'
<1>0. /\ TypeOK /\ FreshIds /\ DeferredOnce /\ ListenOnce /\ RemovalInProgress
      /\ lastIndex \in Nat /\ Ids \subseteq Nat
  BY IdFacts DEF IndInv, TypeOK
<1>1. CASE IgnoreNetworkDevice
  <2>1. UNCHANGED <<devices, listeners, lastIndex, removing, detaching, tasks, log, sockets>>
    BY <1>1 DEF IgnoreNetworkDevice, managerVars
  <2>2. FreshIds' /\ RemovalInProgress'
    BY <1>0, <2>1 DEF FreshIds, RemovalInProgress, HeldBack
  <2>3. DeferredOnce' /\ ListenOnce'
    BY <1>0, <1>1, <2>1, DeferredReceive, ListenReceive DEF IgnoreNetworkDevice, HeldBack
  <2> QED BY <2>2, <2>3
<1>2. CASE SpawnHeartbeat
  <2>1. /\ UNCHANGED <<devices, listeners, removing, detaching, log, sockets>>
        /\ lastIndex' = lastIndex + 1 /\ Receive("DiscoveredNetworkDevice")
    BY <1>2 DEF SpawnHeartbeat, clientVars
  <2>2. /\ DOMAIN tasks' = DOMAIN tasks \cup {lastIndex}
        /\ \A id \in DOMAIN tasks : id # lastIndex => tasks'[id] = tasks[id]
        /\ lastIndex \notin DOMAIN tasks
    <3>1. lastIndex \notin DOMAIN tasks
      BY <1>0 DEF FreshIds
    <3> QED BY <1>2, <3>1 DEF SpawnHeartbeat, Put
  <2>3. HeldBack' = HeldBack \cup {lastIndex}
    BY <1>2, <2>2 DEF HeldBack, SpawnHeartbeat, Put
  <2>4. FreshIds'
    BY <1>0, <2>1, <2>2, <2>3, Tables DEF FreshIds, TypeOK
  <2>5. DeferredOnce'
    BY <1>0, <2>1, <2>2, <2>3, DeferredReceive DEF HeldBack
  <2>6. ListenOnce' /\ RemovalInProgress'
    BY <1>0, <2>1, ListenReceive DEF RemovalInProgress
  <2> QED BY <2>4, <2>5, <2>6
<1>3. CASE AddNetworkDevice
  <2>1. /\ UNCHANGED <<removing, detaching, tasks, sockets>>
        /\ lastIndex' = lastIndex + 1 /\ Receive("DiscoveredNetworkDevice")
        /\ DOMAIN devices' = DOMAIN devices \cup {lastIndex}
        /\ Broadcast(Attached(lastIndex))
    BY <1>3 DEF AddNetworkDevice, Put
  <2>2. removing = {} /\ detaching = {}
    BY <2>1 DEF Receive
  <2>3. HeldBack' = HeldBack /\ lastIndex \notin HeldBack
    BY <1>0, <2>1 DEF HeldBack, FreshIds
  <2>4. FreshIds' /\ RemovalInProgress'
    BY <1>0, <2>1, <2>2, <2>3, Tables DEF FreshIds, RemovalInProgress
  <2>5. DeferredOnce' /\ ListenOnce'
    BY <1>0, <2>1, <2>3, DeferredReceive, ListenReceive, BroadcastReaches
  <2> QED BY <2>4, <2>5
<1>4. CASE ReplaceUsbHandle
  <2>1. /\ UNCHANGED <<devices, listeners, lastIndex, removing, detaching, tasks, log, sockets>>
        /\ Receive("DiscoveredUsbDevice")
    BY <1>4 DEF ReplaceUsbHandle, clientVars
  <2>2. FreshIds' /\ RemovalInProgress'
    BY <1>0, <2>1 DEF FreshIds, RemovalInProgress, HeldBack
  <2>3. DeferredOnce' /\ ListenOnce'
    BY <1>0, <2>1, DeferredReceive, ListenReceive DEF HeldBack
  <2> QED BY <2>2, <2>3
<1>5. CASE AddUsbDevice
  <2>1. /\ UNCHANGED <<removing, detaching, tasks, sockets>>
        /\ lastIndex' = lastIndex + 1 /\ Receive("DiscoveredUsbDevice")
        /\ DOMAIN devices' = DOMAIN devices \cup {lastIndex}
        /\ Broadcast(Attached(lastIndex))
    BY <1>5 DEF AddUsbDevice, Put, clientVars
  <2>2. removing = {} /\ detaching = {}
    BY <2>1 DEF Receive
  <2>3. HeldBack' = HeldBack /\ lastIndex \notin HeldBack
    BY <1>0, <2>1 DEF HeldBack, FreshIds
  <2>4. FreshIds' /\ RemovalInProgress'
    BY <1>0, <2>1, <2>2, <2>3, Tables DEF FreshIds, RemovalInProgress
  <2>5. DeferredOnce' /\ ListenOnce'
    BY <1>0, <2>1, <2>3, DeferredReceive, ListenReceive, BroadcastReaches
  <2> QED BY <2>4, <2>5
<1>6. CASE DeferredMuxerAdd
  <2>1. /\ UNCHANGED <<removing, detaching, lastIndex, sockets>>
        /\ Receive("DeferredMuxerAdd")
        /\ DOMAIN devices' = DOMAIN devices \cup {msg.id}
        /\ Broadcast(Attached(msg.id))
        /\ tasks' = [tasks EXCEPT ![msg.id].listed = TRUE]
    BY <1>6 DEF DeferredMuxerAdd, Put
  <2>2. removing = {} /\ detaching = {}
    BY <2>1 DEF Receive
  <2>3. /\ msg.id \in HeldBack /\ msg.id \in DOMAIN tasks
        /\ tasks[msg.id].pc \notin {"setup", "gaveUp"}
    BY <1>0, <2>1, Received DEF DeferredOnce, HeldBack
  <2>4. /\ DOMAIN tasks' = DOMAIN tasks
        /\ \A id \in DOMAIN tasks : id # msg.id => tasks'[id] = tasks[id]
        /\ tasks'[msg.id].listed /\ tasks'[msg.id].pc = tasks[msg.id].pc
    <3>1. tasks[msg.id] \in Task
      BY <1>0, <2>3, Tables
    <3> QED BY <2>1, <2>3, <3>1 DEF Task
  <2>5. HeldBack' = HeldBack \ {msg.id}
    BY <2>3, <2>4 DEF HeldBack
  <2>6. FreshIds' /\ RemovalInProgress'
    BY <1>0, <2>1, <2>2, <2>3, <2>4, <2>5 DEF FreshIds, RemovalInProgress
  <2>7. DeferredOnce' /\ ListenOnce'
    BY <1>0, <2>1, <2>4, <2>5, DeferredReceive, ListenReceive, BroadcastReaches
    DEF HeldBack
  <2> QED BY <2>6, <2>7
<1>7. CASE HeartbeatFailed
  <2>1. /\ UNCHANGED <<lastIndex, removing, detaching, tasks, sockets>>
        /\ Receive("HeartbeatFailed")
    BY <1>7 DEF HeartbeatFailed
  <2>2. removing = {} /\ detaching = {}
    BY <2>1 DEF Receive
  <2>3. CASE UNCHANGED <<devices, listeners, log>>
    <3>1. FreshIds' /\ RemovalInProgress'
      BY <1>0, <2>1, <2>3 DEF FreshIds, RemovalInProgress, HeldBack
    <3>2. DeferredOnce' /\ ListenOnce'
      BY <1>0, <2>1, <2>3, DeferredReceive, ListenReceive DEF HeldBack
    <3> QED BY <3>1, <3>2
  <2>4. ASSUME NEW id \in FindDevice(msg.udid, "Network"), DropEntry(id),
               Broadcast(Detached(id))
        PROVE  Goal
    <3>1. DOMAIN devices' \subseteq DOMAIN devices
      BY <2>4 DEF DropEntry, Drop, Restrict
    <3>2. FreshIds' /\ RemovalInProgress'
      BY <1>0, <2>1, <2>2, <3>1 DEF FreshIds, RemovalInProgress, HeldBack
    <3>3. DeferredOnce' /\ ListenOnce'
      BY <1>0, <2>1, <2>4, DeferredReceive, ListenReceive, BroadcastReaches DEF HeldBack
    <3> QED BY <3>2, <3>3
  <2> QED BY <1>7, <2>3, <2>4 DEF HeartbeatFailed
<1>8. CASE BeginRemoveDevice
  <2>1. /\ UNCHANGED <<devices, listeners, lastIndex, detaching, tasks, log, sockets>>
        /\ Receive("RemoveDevice") /\ removing' \subseteq DOMAIN devices
    BY <1>8 DEF BeginRemoveDevice, clientVars
  <2>2. FreshIds' /\ RemovalInProgress'
    BY <1>0, <2>1 DEF FreshIds, RemovalInProgress, HeldBack
  <2>3. DeferredOnce' /\ ListenOnce'
    BY <1>0, <2>1, DeferredReceive, ListenReceive DEF HeldBack
  <2> QED BY <2>2, <2>3
<1>9. ASSUME NEW id \in Ids, RemoveNext(id) PROVE Goal
  <2>1. /\ UNCHANGED <<inbox, lastIndex, tasks, sockets>>
        /\ id \in removing /\ id \in DOMAIN devices
        /\ removing' = removing \ {id}
        /\ DOMAIN devices' = DOMAIN devices \ {id}
    BY <1>0, <1>9 DEF RemoveNext, RemovalInProgress, DropEntry, Drop, Restrict
  <2>2. detaching = {}
    BY <1>9 DEF RemoveNext
  <2>3. detaching' = {} \/ detaching' = {id}
    BY <1>9, <2>2 DEF RemoveNext
  <2>4. FreshIds' /\ RemovalInProgress'
    BY <1>0, <2>1, <2>2, <2>3 DEF FreshIds, RemovalInProgress, HeldBack
  <2>5. DeferredOnce'
    BY <1>0, <2>1, DeferredKept DEF HeldBack, DeferredOnce
  <2>6. \A l \in Listeners : l \notin listeners /\ log[l] = <<>> =>
                               l \notin listeners' /\ log'[l] = <<>>
    BY <1>0, <1>9, <2>1, BroadcastReaches DEF RemoveNext
  <2>7. ListenOnce'
    BY <1>0, <2>1, <2>6, ListenKept
  <2> QED BY <2>4, <2>5, <2>7
<1>10. ASSUME NEW id \in Ids, HandleShutDown(id) PROVE Goal
  <2>1. /\ UNCHANGED <<inbox, devices, lastIndex, tasks, sockets, removing>>
        /\ detaching' = {} /\ Broadcast(Detached(id))
    BY <1>10 DEF HandleShutDown, clientVars
  <2>2. FreshIds' /\ RemovalInProgress'
    BY <1>0, <2>1 DEF FreshIds, RemovalInProgress, HeldBack
  <2>3. DeferredOnce'
    BY <1>0, <2>1, DeferredKept DEF HeldBack, DeferredOnce
  <2>4. ListenOnce'
    BY <1>0, <2>1, BroadcastReaches, ListenKept
  <2> QED BY <2>2, <2>3, <2>4
<1>11. CASE GetDeviceConnection
  <2>1. /\ UNCHANGED <<devices, listeners, lastIndex, removing, detaching, tasks, log, sockets>>
        /\ Receive("GetDeviceConnection")
    BY <1>11 DEF GetDeviceConnection, managerVars
  <2>2. FreshIds' /\ RemovalInProgress'
    BY <1>0, <2>1 DEF FreshIds, RemovalInProgress, HeldBack
  <2>3. DeferredOnce' /\ ListenOnce'
    BY <1>0, <2>1, DeferredReceive, ListenReceive DEF HeldBack
  <2> QED BY <2>2, <2>3
<1>12. CASE OpenSocket
  <2>1. /\ UNCHANGED <<devices, listeners, lastIndex, removing, detaching, tasks, log, sockets>>
        /\ Receive("OpenSocket")
    BY <1>12 DEF OpenSocket, clientVars
  <2>2. FreshIds' /\ RemovalInProgress'
    BY <1>0, <2>1 DEF FreshIds, RemovalInProgress, HeldBack
  <2>3. DeferredOnce' /\ ListenOnce'
    BY <1>0, <2>1, DeferredReceive, ListenReceive DEF HeldBack
  <2> QED BY <2>2, <2>3
<1>13. CASE Subscribe
  <2>1. /\ UNCHANGED <<devices, lastIndex, removing, detaching, tasks, sockets>>
        /\ Receive("Subscribe")
    BY <1>13 DEF Subscribe, clientVars
  <2>2. FreshIds' /\ RemovalInProgress'
    BY <1>0, <2>1 DEF FreshIds, RemovalInProgress, HeldBack
  <2>3. DeferredOnce'
    BY <1>0, <2>1, DeferredReceive DEF HeldBack
  <2>4. ASSUME NEW l \in Listeners, l # msg.listener, l \notin listeners
        PROVE  l \notin listeners' /\ log'[l] = log[l]
    <3>1. log \in [Listeners -> Seq(Event)]
      BY <1>0 DEF TypeOK
    <3> QED BY <1>13, <2>4, <3>1 DEF Subscribe
  <2>5. ListenOnce'
    BY <1>0, <2>1, <2>4, ListenReceive
  <2> QED BY <2>2, <2>3, <2>5
<1> QED
  BY <1>1, <1>2, <1>3, <1>4, <1>5, <1>6, <1>7, <1>8, <1>9, <1>10, <1>11, <1>12, <1>13
  DEF ManagerStep

LEMMA TaskIndInv ==
  ASSUME IndInv, HeartbeatStep
  PROVE  FreshIds' /\ DeferredOnce' /\ ListenOnce' /\ RemovalInProgress'
<1> DEFINE Goal == FreshIds' /\ DeferredOnce' /\ ListenOnce' /\ RemovalInProgress'
<1>0. TypeOK /\ FreshIds /\ DeferredOnce /\ ListenOnce /\ RemovalInProgress
  BY DEF IndInv
<1>1. ASSUME NEW id \in Ids, NEW pc \in HbStates, id \in DOMAIN tasks,
             tasks' = [tasks EXCEPT ![id].pc = pc]
      PROVE  /\ DOMAIN tasks' = DOMAIN tasks /\ HeldBack' = HeldBack
             /\ tasks'[id].pc = pc
             /\ \A x \in DOMAIN tasks : x # id => tasks'[x] = tasks[x]
  <2>1. tasks[id] \in Task
    BY <1>0, <1>1, Tables
  <2>2. tasks'[id].listed = tasks[id].listed /\ tasks'[id].pc = pc
    BY <1>1, <2>1 DEF Task
  <2>3. /\ DOMAIN tasks' = DOMAIN tasks
        /\ \A x \in DOMAIN tasks : x # id => tasks'[x] = tasks[x]
    BY <1>1
  <2> QED BY <2>2, <2>3 DEF HeldBack
<1>2. ASSUME NEW id \in Ids, HeartbeatSetupFails(id) PROVE Goal
  <2>1. /\ UNCHANGED <<inbox, devices, listeners, lastIndex, removing, detaching, log, sockets>>
        /\ id \in DOMAIN tasks /\ tasks[id].pc = "setup"
        /\ tasks' = [tasks EXCEPT ![id].pc = "gaveUp"]
    BY <1>2 DEF HeartbeatSetupFails, managerVars
  <2>2. /\ DOMAIN tasks' = DOMAIN tasks /\ HeldBack' = HeldBack
        /\ \A x \in DOMAIN tasks : x # id => tasks'[x] = tasks[x]
    BY <1>1, <2>1 DEF HbStates
  <2>3. FreshIds' /\ RemovalInProgress' /\ ListenOnce'
    BY <1>0, <2>1, <2>2, ListenKept DEF FreshIds, RemovalInProgress
  <2>4. DeferredOnce'
    BY <1>0, <2>1, <2>2, DeferredKept DEF HeldBack
  <2> QED BY <2>3, <2>4
<1>3. ASSUME NEW id \in Ids, HeartbeatEstablished(id) PROVE Goal
  <2>1. /\ UNCHANGED <<devices, listeners, lastIndex, removing, detaching, log, sockets>>
        /\ id \in DOMAIN tasks /\ tasks[id].pc = "setup"
        /\ tasks' = [tasks EXCEPT ![id].pc = "beating"]
        /\ Send([type |-> "DeferredMuxerAdd", id |-> id])
    BY <1>3 DEF HeartbeatEstablished, managerVars, clientVars
  <2>2. /\ DOMAIN tasks' = DOMAIN tasks /\ HeldBack' = HeldBack
        /\ tasks'[id].pc = "beating"
        /\ \A x \in DOMAIN tasks : x # id => tasks'[x] = tasks[x]
    BY <1>1, <2>1 DEF HbStates
  <2>3. FreshIds' /\ RemovalInProgress'
    BY <1>0, <2>1, <2>2 DEF FreshIds, RemovalInProgress
  <2>4. ListenOnce'
    BY <1>0, <2>1, Messages, ListenSend
  <2>5. /\ DOMAIN inbox = 1..Len(inbox) /\ Len(inbox) \in Nat
        /\ DOMAIN inbox' = 1..(Len(inbox) + 1)
        /\ inbox'[Len(inbox) + 1] = [type |-> "DeferredMuxerAdd", id |-> id]
        /\ \A i \in 1..Len(inbox) : inbox'[i] = inbox[i]
    BY <1>0, <2>1, Messages, Sent
  <2>6. id \in HeldBack
    BY <1>0, <2>1 DEF FreshIds
  <2>7. \A i \in DOMAIN inbox : inbox[i].type = "DeferredMuxerAdd" => inbox[i].id # id
    BY <1>0, <2>1 DEF DeferredOnce
  <2>8. DeferredOnce'
    BY <1>0, <2>1, <2>2, <2>5, <2>6, <2>7 DEF DeferredOnce, HeldBack
  <2> QED BY <2>3, <2>4, <2>8
<1>4. ASSUME NEW id \in Ids, HeartbeatLost(id) PROVE Goal
  <2>1. /\ UNCHANGED <<devices, listeners, lastIndex, removing, detaching, log, sockets>>
        /\ id \in DOMAIN tasks /\ tasks[id].pc = "beating"
        /\ tasks' = [tasks EXCEPT ![id].pc = "ended"]
        /\ Send([type |-> "HeartbeatFailed", udid |-> tasks[id].udid])
    BY <1>4 DEF HeartbeatLost, managerVars, clientVars
  <2>2. /\ DOMAIN tasks' = DOMAIN tasks /\ HeldBack' = HeldBack
        /\ tasks'[id].pc = "ended"
        /\ \A x \in DOMAIN tasks : x # id => tasks'[x] = tasks[x]
    BY <1>1, <2>1 DEF HbStates
  <2>3. FreshIds' /\ RemovalInProgress'
    BY <1>0, <2>1, <2>2 DEF FreshIds, RemovalInProgress
  <2>4. [type |-> "HeartbeatFailed", udid |-> tasks[id].udid] \in Message
    BY <1>0, <2>1, Tables, Messages DEF Task
  <2>5. ListenOnce'
    BY <1>0, <2>1, <2>4, ListenSend
  <2>6. DeferredOnce'
    BY <1>0, <2>1, <2>2, <2>4, DeferredSend DEF HeldBack
  <2> QED BY <2>3, <2>5, <2>6
<1> QED BY <1>2, <1>3, <1>4 DEF HeartbeatStep

LEMMA ClientIndInv ==
  ASSUME IndInv, ClientStep
  PROVE  FreshIds' /\ DeferredOnce' /\ ListenOnce' /\ RemovalInProgress'
<1> DEFINE Goal == FreshIds' /\ DeferredOnce' /\ ListenOnce' /\ RemovalInProgress'
           Same == UNCHANGED <<devices, lastIndex, removing, detaching, tasks, listeners, log>>
<1>0. TypeOK /\ FreshIds /\ DeferredOnce /\ ListenOnce /\ RemovalInProgress
  BY DEF IndInv
<1>1. ASSUME NEW m \in Message, Send(m), m.type \notin {"DeferredMuxerAdd", "Subscribe"},
             Same, sockets' = sockets
      PROVE  Goal
  <2>1. FreshIds' /\ RemovalInProgress'
    BY <1>0, <1>1 DEF FreshIds, RemovalInProgress, HeldBack
  <2>2. DeferredOnce'
    BY <1>0, <1>1, DeferredSend DEF HeldBack
  <2>3. ListenOnce'
    BY <1>0, <1>1, ListenSend
  <2> QED BY <2>1, <2>2, <2>3
<1>2. ASSUME inbox' = inbox, Same, sockets' = sockets PROVE Goal
  <2>1. FreshIds' /\ RemovalInProgress'
    BY <1>0, <1>2 DEF FreshIds, RemovalInProgress, HeldBack
  <2>2. DeferredOnce' /\ ListenOnce'
    BY <1>0, <1>2, ListenKept DEF HeldBack, DeferredOnce
  <2> QED BY <2>1, <2>2
<1> USE DEF managerVars, clientVars
<1>3. ASSUME NEW u \in Udids, MdnsResolved(u) PROVE Goal
  BY <1>1, <1>3, Messages DEF MdnsResolved, SendDiscovery, Types
<1>4. ASSUME NEW u \in Udids, ClientRemoveDevice(u) PROVE Goal
  BY <1>1, <1>4, Messages DEF ClientRemoveDevice
<1>5. ASSUME NEW u \in Udids, UsbGone(u) PROVE Goal
  BY <1>1, <1>5, Messages DEF UsbGone
<1>6. ASSUME NEW u \in Udids, NEW h \in Handles, RegisterUsb(u, h) PROVE Goal
  BY <1>1, <1>6, Messages DEF RegisterUsb, SendDiscovery
<1>7. ASSUME NEW u \in Udids, NEW a \in Adders, NEW ct \in AddTypes, ClientAddDevice(a, u, ct)
      PROVE  Goal
  BY <1>1, <1>7, Messages DEF ClientAddDevice, SendDiscovery, Types
<1>8. ASSUME NEW l \in Listeners, StartListen(l) PROVE Goal
  <2>1. /\ Same /\ sockets[l] = "idle" /\ sockets' = [sockets EXCEPT ![l] = "open"]
        /\ Send([type |-> "Subscribe", listener |-> l])
    BY <1>8 DEF StartListen
  <2>2. FreshIds' /\ RemovalInProgress'
    BY <1>0, <2>1 DEF FreshIds, RemovalInProgress, HeldBack
  <2>3. DeferredOnce'
    BY <1>0, <2>1, Messages, DeferredSend DEF HeldBack
  <2>4. /\ DOMAIN inbox = 1..Len(inbox) /\ Len(inbox) \in Nat
        /\ DOMAIN inbox' = 1..(Len(inbox) + 1)
        /\ inbox'[Len(inbox) + 1] = [type |-> "Subscribe", listener |-> l]
        /\ \A i \in 1..Len(inbox) : inbox'[i] = inbox[i]
    BY <1>0, <2>1, Messages, Sent
  <2>5. /\ l \notin listeners /\ log[l] = <<>>
        /\ \A i \in DOMAIN inbox : inbox[i].type = "Subscribe" => inbox[i].listener # l
    BY <1>0, <2>1 DEF ListenOnce
  <2>6. \A k \in Listeners : sockets'[k] = "idle" => k # l /\ sockets[k] = "idle"
    BY <1>0, <2>1 DEF TypeOK
  <2>7. ListenOnce'
    BY <1>0, <2>1, <2>4, <2>5, <2>6 DEF ListenOnce
  <2> QED BY <2>2, <2>3, <2>7
<1>9. ASSUME NEW l \in Listeners, ListenerGone(l) PROVE Goal
  <2>1. /\ Same /\ inbox' = inbox /\ sockets[l] = "open"
        /\ sockets' = [sockets EXCEPT ![l] = "closed"]
    BY <1>9 DEF ListenerGone
  <2>2. FreshIds' /\ RemovalInProgress' /\ DeferredOnce'
    BY <1>0, <2>1 DEF FreshIds, RemovalInProgress, HeldBack, DeferredOnce
  <2>3. \A k \in Listeners : sockets'[k] = "idle" => sockets[k] = "idle"
    BY <1>0, <2>1 DEF TypeOK
  <2>4. ListenOnce'
    BY <1>0, <2>1, <2>3 DEF ListenOnce
  <2> QED BY <2>2, <2>4
<1>10. ASSUME NEW s \in Sessions, NEW id \in FirstId..lastIndex, SessionConnect(s, id)
       PROVE  Goal
  <2>1. id \in Nat
    BY <1>0, IdFacts DEF TypeOK
  <2> QED BY <1>1, <1>10, <2>1, Messages DEF SessionConnect
<1>11. ASSUME NEW s \in Sessions, SessionDialed(s) PROVE Goal
  <2>1. sessions[s].id \in Nat
    BY <1>0 DEF TypeOK
  <2> QED BY <1>1, <1>11, <2>1, Messages DEF SessionDialed
<1>12. ASSUME NEW s \in Sessions, SessionDialFails(s) \/ SessionEnds(s) PROVE Goal
  BY <1>2, <1>12 DEF SessionDialFails, SessionEnds
<1> QED
  BY <1>3, <1>4, <1>5, <1>6, <1>7, <1>8, <1>9, <1>10, <1>11, <1>12 DEF ClientStep

LEMMA NextIndInv == IndInv /\ [Next]_vars => IndInv'
<1> SUFFICES ASSUME IndInv, [Next]_vars PROVE IndInv'
  OBVIOUS
<1>1. CASE ManagerStep
  BY <1>1, ManagerTypeOK, ManagerIndInv DEF IndInv
<1>2. CASE HeartbeatStep
  BY <1>2, TaskTypeOK, TaskIndInv DEF IndInv
<1>3. CASE ClientStep
  BY <1>3, ClientTypeOK, ClientIndInv DEF IndInv
<1>4. CASE UNCHANGED vars
  BY <1>4 DEF vars, IndInv, TypeOK, FreshIds, DeferredOnce, ListenOnce,
              RemovalInProgress, HeldBack
<1> QED BY <1>1, <1>2, <1>3, <1>4 DEF Next

(* The inductive invariant, and with it the type invariant, holds in every *)
(* reachable state of the manager and its clients (manager.rs:163-348).    *)
THEOREM IndInvHolds == Spec => []IndInv
<1> QED BY InitIndInv, NextIndInv, PTL DEF Spec

(* The state stays well typed. *)
THEOREM TypeInvariant == Spec => []TypeOK
<1>1. IndInv => TypeOK
  BY DEF IndInv
<1> QED BY IndInvHolds, <1>1, PTL
-----------------------------------------------------------------------------
(* The network entries that heartbeat tasks account for. A failure that    *)
(* finds no entry still uses up a message, so the account has to balance   *)
(* behind every place k of the channel, without the table.                 *)

Beating(u) == {id \in DOMAIN tasks : tasks[id].udid = u /\ tasks[id].pc = "beating"}

Deferred(u, k) ==
  {i \in DOMAIN inbox : /\ i > k /\ inbox[i].type = "DeferredMuxerAdd"
                        /\ tasks[inbox[i].id].udid = u}

Lost(u, k) ==
  {i \in DOMAIN inbox : i > k /\ inbox[i].type = "HeartbeatFailed" /\ inbox[i].udid = u}

Balanced(u) ==
  /\ Cardinality(FindDevice(u, "Network")) + Cardinality(Deferred(u, 0))
       <= Cardinality(Beating(u)) + Cardinality(Lost(u, 0))
  /\ \A k \in Nat :
       Cardinality(Deferred(u, k)) <= Cardinality(Beating(u)) + Cardinality(Lost(u, k))

BackedInv == UseHeartbeat => \A u \in Udids : Balanced(u)

LEMMA BackedIfBalanced == TypeOK /\ BackedInv => HeartbeatBacked
<1> SUFFICES ASSUME TypeOK, BackedInv, UseHeartbeat, NEW u \in Udids
             PROVE  Cardinality(FindDevice(u, "Network"))
                      + Cardinality(Queued("DeferredMuxerAdd", u))
                    <= Cardinality(Beating(u)) + Cardinality(Queued("HeartbeatFailed", u))
  BY DEF HeartbeatBacked, Beating
<1>1. \A i \in DOMAIN inbox : i > 0
  BY DEF TypeOK
<1>2. Queued("DeferredMuxerAdd", u) = Deferred(u, 0)
  BY <1>1 DEF Queued, Deferred
<1>3. Queued("HeartbeatFailed", u) = Lost(u, 0)
  BY <1>1 DEF Queued, Lost
<1> QED BY <1>2, <1>3 DEF BackedInv, Balanced

LEMMA Counted ==
  ASSUME TypeOK, NEW u, NEW k
  PROVE  /\ IsFiniteSet(FindDevice(u, "Network")) /\ IsFiniteSet(Beating(u))
         /\ IsFiniteSet(Deferred(u, k)) /\ IsFiniteSet(Lost(u, k))
         /\ Cardinality(FindDevice(u, "Network")) \in Nat /\ Cardinality(Beating(u)) \in Nat
         /\ Cardinality(Deferred(u, k)) \in Nat /\ Cardinality(Lost(u, k)) \in Nat
<1>1. IsFiniteSet(Ids) /\ IsFiniteSet(DOMAIN inbox)
  <2>1. Len(inbox) \in Nat /\ DOMAIN inbox = 1..Len(inbox)
    BY DEF TypeOK
  <2>2. 0 \in Int /\ 1 \in Int /\ Len(inbox) \in Int
    BY <2>1
  <2>3. IsFiniteSet(1..Len(inbox))
    BY <2>2, FS_Interval
  <2>4. IsFiniteSet(Ids)
    BY FirstIdAssumption, BoundsAssumption, FS_Interval DEF Ids
  <2> QED BY <2>1, <2>3, <2>4
<1>2. FindDevice(u, "Network") \subseteq Ids /\ Beating(u) \subseteq Ids
  BY Tables DEF FindDevice, Beating
<1>3. Deferred(u, k) \subseteq DOMAIN inbox /\ Lost(u, k) \subseteq DOMAIN inbox
  BY DEF Deferred, Lost
<1>4. /\ IsFiniteSet(FindDevice(u, "Network")) /\ IsFiniteSet(Beating(u))
      /\ IsFiniteSet(Deferred(u, k)) /\ IsFiniteSet(Lost(u, k))
  BY <1>1, <1>2, <1>3, FS_Subset
<1> QED BY <1>4, FS_CardinalityType

(* Places that all move up by one are as many as before. *)
LEMMA ShiftedPlaces ==
  ASSUME NEW S, NEW T, IsFiniteSet(S), S \subseteq Nat \ {0}, T \subseteq Nat,
         \A i \in Nat : i \in T <=> i + 1 \in S
  PROVE  Cardinality(T) = Cardinality(S)
<1> DEFINE f == [i \in S |-> i - 1]
<1>1. \A i \in S : i - 1 \in T
  BY DEF f
<1>2. f \in [S -> T]
  BY <1>1
<1>3. \A a, b \in S : f[a] = f[b] => a = b
  <2> SUFFICES ASSUME NEW a \in S, NEW b \in S, f[a] = f[b] PROVE a = b
    OBVIOUS
  <2>1. f[a] = a - 1 /\ f[b] = b - 1 /\ a \in Nat /\ b \in Nat
    OBVIOUS
  <2> QED BY <2>1
<1>4. \A j \in T : \E i \in S : f[i] = j
  <2> SUFFICES ASSUME NEW j \in T PROVE \E i \in S : f[i] = j
    OBVIOUS
  <2>1. j + 1 \in S /\ f[j + 1] = j
    OBVIOUS
  <2> QED BY <2>1
<1> HIDE DEF f
<1>5. f \in Bijection(S, T)
  BY <1>2, <1>3, <1>4 DEF Bijection, Injection, Surjection, IsInjective
<1>6. ExistsBijection(S, T)
  BY <1>5 DEF ExistsBijection
<1> QED BY <1>6, FS_Bijection

(* What a message that is taken does to the account of a UDID. *)
LEMMA TakenCounts ==
  ASSUME TypeOK, TypeOK', DeferredOnce, NEW t, Receive(t), NEW u, NEW k \in Nat,
         \A id \in DOMAIN tasks : id \in DOMAIN tasks' /\ tasks'[id].udid = tasks[id].udid
  PROVE  /\ Cardinality(Deferred(u, k)') = Cardinality(Deferred(u, k + 1))
         /\ Cardinality(Lost(u, k)') = Cardinality(Lost(u, k + 1))
         /\ Cardinality(Deferred(u, 0)) =
              Cardinality(Deferred(u, 1))
                + IF t = "DeferredMuxerAdd" /\ tasks[msg.id].udid = u THEN 1 ELSE 0
         /\ Cardinality(Lost(u, 0)) =
              Cardinality(Lost(u, 1)) + IF t = "HeartbeatFailed" /\ msg.udid = u THEN 1 ELSE 0
<1>1. /\ Len(inbox) \in Nat /\ Len(inbox) > 0 /\ DOMAIN inbox = 1..Len(inbox)
      /\ DOMAIN inbox' = 1..(Len(inbox) - 1)
      /\ \A i \in 1..(Len(inbox) - 1) : inbox'[i] = inbox[i + 1]
      /\ msg = inbox[1] /\ msg.type = t
  BY Received
<1>2. \A i \in DOMAIN inbox :
        inbox[i].type = "DeferredMuxerAdd" => tasks'[inbox[i].id].udid = tasks[inbox[i].id].udid
  BY DEF DeferredOnce, HeldBack
<1>3. Cardinality(Deferred(u, k)') = Cardinality(Deferred(u, k + 1))
  <2>1. IsFiniteSet(Deferred(u, k + 1))
    BY Counted
  <2>2. Deferred(u, k + 1) \subseteq Nat \ {0} /\ Deferred(u, k)' \subseteq Nat
    BY <1>1 DEF Deferred
  <2>3. ASSUME NEW i \in Nat PROVE i \in Deferred(u, k)' <=> i + 1 \in Deferred(u, k + 1)
    <3>1. i \in Deferred(u, k)' <=>
            /\ i \in DOMAIN inbox' /\ i > k /\ inbox'[i].type = "DeferredMuxerAdd"
            /\ tasks'[inbox'[i].id].udid = u
      BY DEF Deferred
    <3>2. i + 1 \in Deferred(u, k + 1) <=>
            /\ i + 1 \in DOMAIN inbox /\ i + 1 > k + 1
            /\ inbox[i + 1].type = "DeferredMuxerAdd" /\ tasks[inbox[i + 1].id].udid = u
      BY DEF Deferred
    <3>3. i > k => (i \in DOMAIN inbox' <=> i + 1 \in DOMAIN inbox)
      BY <1>1
    <3>4. i \in DOMAIN inbox' => inbox'[i] = inbox[i + 1]
      BY <1>1
    <3>5. i > k <=> i + 1 > k + 1
      OBVIOUS
    <3> QED BY <1>2, <3>1, <3>2, <3>3, <3>4, <3>5
  <2> QED BY <2>1, <2>2, <2>3, ShiftedPlaces
<1>4. Cardinality(Lost(u, k)') = Cardinality(Lost(u, k + 1))
  <2>1. IsFiniteSet(Lost(u, k + 1))
    BY Counted
  <2>2. Lost(u, k + 1) \subseteq Nat \ {0} /\ Lost(u, k)' \subseteq Nat
    BY <1>1 DEF Lost
  <2>3. ASSUME NEW i \in Nat PROVE i \in Lost(u, k)' <=> i + 1 \in Lost(u, k + 1)
    <3>1. i \in Lost(u, k)' <=>
            /\ i \in DOMAIN inbox' /\ i > k /\ inbox'[i].type = "HeartbeatFailed"
            /\ inbox'[i].udid = u
      BY DEF Lost
    <3>2. i + 1 \in Lost(u, k + 1) <=>
            /\ i + 1 \in DOMAIN inbox /\ i + 1 > k + 1
            /\ inbox[i + 1].type = "HeartbeatFailed" /\ inbox[i + 1].udid = u
      BY DEF Lost
    <3>3. i > k => (i \in DOMAIN inbox' <=> i + 1 \in DOMAIN inbox)
      BY <1>1
    <3>4. i \in DOMAIN inbox' => inbox'[i] = inbox[i + 1]
      BY <1>1
    <3>5. i > k <=> i + 1 > k + 1
      OBVIOUS
    <3> QED BY <3>1, <3>2, <3>3, <3>4, <3>5
  <2> QED BY <2>1, <2>2, <2>3, ShiftedPlaces
<1>5. Cardinality(Deferred(u, 0)) =
        Cardinality(Deferred(u, 1))
          + IF t = "DeferredMuxerAdd" /\ tasks[msg.id].udid = u THEN 1 ELSE 0
  <2>1. \A i \in DOMAIN inbox : i > 0 /\ (i > 1 <=> i # 1)
    BY <1>1
  <2>2. 1 \in DOMAIN inbox /\ 1 \notin Deferred(u, 1)
    BY <1>1 DEF Deferred
  <2>3. CASE t = "DeferredMuxerAdd" /\ tasks[msg.id].udid = u
    <3>1. Deferred(u, 0) = Deferred(u, 1) \cup {1}
      BY <1>1, <2>1, <2>2, <2>3 DEF Deferred
    <3> QED BY <2>2, <2>3, <3>1, Counted, FS_AddElement
  <2>4. CASE ~(t = "DeferredMuxerAdd" /\ tasks[msg.id].udid = u)
    <3>1. Deferred(u, 0) = Deferred(u, 1)
      BY <1>1, <2>1, <2>2, <2>4 DEF Deferred
    <3>2. Cardinality(Deferred(u, 1)) \in Nat
      BY Counted
    <3> QED BY <2>4, <3>1, <3>2
  <2> QED BY <2>3, <2>4
<1>6. Cardinality(Lost(u, 0)) =
        Cardinality(Lost(u, 1)) + IF t = "HeartbeatFailed" /\ msg.udid = u THEN 1 ELSE 0
  <2>1. \A i \in DOMAIN inbox : i > 0 /\ (i > 1 <=> i # 1)
    BY <1>1
  <2>2. 1 \in DOMAIN inbox /\ 1 \notin Lost(u, 1)
    BY <1>1 DEF Lost
  <2>3. CASE t = "HeartbeatFailed" /\ msg.udid = u
    <3>1. Lost(u, 0) = Lost(u, 1) \cup {1}
      BY <1>1, <2>1, <2>2, <2>3 DEF Lost
    <3> QED BY <2>2, <2>3, <3>1, Counted, FS_AddElement
  <2>4. CASE ~(t = "HeartbeatFailed" /\ msg.udid = u)
    <3>1. Lost(u, 0) = Lost(u, 1)
      BY <1>1, <2>1, <2>2, <2>4 DEF Lost
    <3>2. Cardinality(Lost(u, 1)) \in Nat
      BY Counted
    <3> QED BY <2>4, <3>1, <3>2
  <2> QED BY <2>3, <2>4
<1> QED BY <1>3, <1>4, <1>5, <1>6

(* What a message that is sent does to it, with the tasks it leaves.       *)
LEMMA SentCounts ==
  ASSUME TypeOK, TypeOK', DeferredOnce, NEW m \in Message, Send(m), NEW u, NEW k \in Nat,
         \A id \in DOMAIN tasks : id \in DOMAIN tasks' /\ tasks'[id].udid = tasks[id].udid
  PROVE  /\ Cardinality(Deferred(u, k)') =
              Cardinality(Deferred(u, k))
                + IF /\ k <= Len(inbox) /\ m.type = "DeferredMuxerAdd"
                     /\ tasks'[m.id].udid = u
                  THEN 1 ELSE 0
         /\ Cardinality(Lost(u, k)') =
              Cardinality(Lost(u, k))
                + IF k <= Len(inbox) /\ m.type = "HeartbeatFailed" /\ m.udid = u
                  THEN 1 ELSE 0
<1> DEFINE n == Len(inbox) + 1
<1>1. /\ Len(inbox) \in Nat /\ n \in Nat /\ DOMAIN inbox = 1..Len(inbox)
      /\ DOMAIN inbox' = DOMAIN inbox \cup {n} /\ n \notin DOMAIN inbox
      /\ inbox'[n] = m /\ \A i \in DOMAIN inbox : inbox'[i] = inbox[i]
      /\ (n > k <=> k <= Len(inbox))
  <2>1. /\ inbox' \in Seq(Message)
        /\ Len(inbox) \in Nat /\ DOMAIN inbox = 1..Len(inbox)
        /\ DOMAIN inbox' = 1..(Len(inbox) + 1)
        /\ inbox'[Len(inbox) + 1] = m
        /\ \A i \in 1..Len(inbox) : inbox'[i] = inbox[i]
    BY Sent
  <2> QED BY <2>1
<1>2. \A i \in DOMAIN inbox :
        inbox[i].type = "DeferredMuxerAdd" => tasks'[inbox[i].id].udid = tasks[inbox[i].id].udid
  BY DEF DeferredOnce, HeldBack
<1> HIDE DEF n
<1>3. n \notin Deferred(u, k) /\ n \notin Lost(u, k)
  BY <1>1 DEF Deferred, Lost
<1>4. Deferred(u, k)' = Deferred(u, k) \cup
        (IF k <= Len(inbox) /\ m.type = "DeferredMuxerAdd" /\ tasks'[m.id].udid = u
         THEN {n} ELSE {})
  BY <1>1, <1>2 DEF Deferred
<1>5. Lost(u, k)' = Lost(u, k) \cup
        (IF k <= Len(inbox) /\ m.type = "HeartbeatFailed" /\ m.udid = u THEN {n} ELSE {})
  BY <1>1 DEF Lost
<1>6. /\ IsFiniteSet(Deferred(u, k)) /\ IsFiniteSet(Lost(u, k))
      /\ Cardinality(Deferred(u, k)) \in Nat /\ Cardinality(Lost(u, k)) \in Nat
  BY Counted
<1>7. \A S : S \cup {} = S
  OBVIOUS
<1>8. Cardinality(Deferred(u, k) \cup {n}) = Cardinality(Deferred(u, k)) + 1
  BY <1>3, <1>6, FS_AddElement
<1>9. Cardinality(Lost(u, k) \cup {n}) = Cardinality(Lost(u, k)) + 1
  BY <1>3, <1>6, FS_AddElement
<1>10. Cardinality(Deferred(u, k)') =
         Cardinality(Deferred(u, k))
           + IF k <= Len(inbox) /\ m.type = "DeferredMuxerAdd" /\ tasks'[m.id].udid = u
             THEN 1 ELSE 0
  <2>1. CASE k <= Len(inbox) /\ m.type = "DeferredMuxerAdd" /\ tasks'[m.id].udid = u
    BY <1>4, <1>8, <2>1
  <2>2. CASE ~(k <= Len(inbox) /\ m.type = "DeferredMuxerAdd" /\ tasks'[m.id].udid = u)
    <3>1. Deferred(u, k)' = Deferred(u, k)
      BY <1>4, <1>7, <2>2
    <3> QED BY <1>6, <2>2, <3>1
  <2> QED BY <2>1, <2>2
<1>11. Cardinality(Lost(u, k)') =
         Cardinality(Lost(u, k))
           + IF k <= Len(inbox) /\ m.type = "HeartbeatFailed" /\ m.udid = u THEN 1 ELSE 0
  <2>1. CASE k <= Len(inbox) /\ m.type = "HeartbeatFailed" /\ m.udid = u
    BY <1>5, <1>9, <2>1
  <2>2. CASE ~(k <= Len(inbox) /\ m.type = "HeartbeatFailed" /\ m.udid = u)
    <3>1. Lost(u, k)' = Lost(u, k)
      BY <1>5, <1>7, <2>2
    <3> QED BY <1>6, <2>2, <3>1
  <2> QED BY <2>1, <2>2
<1> QED BY <1>10, <1>11

(* The account is kept if nothing is sent or taken, no network entry comes *)
(* and no task stops beating.                                              *)
LEMMA BalanceKept ==
  ASSUME TypeOK, TypeOK', DeferredOnce, NEW u, Balanced(u), inbox' = inbox,
         FindDevice(u, "Network")' \subseteq FindDevice(u, "Network"),
         Beating(u)' = Beating(u),
         \A id \in DOMAIN tasks : id \in DOMAIN tasks' /\ tasks'[id].udid = tasks[id].udid
  PROVE  Balanced(u)'
<1>1. \A i \in DOMAIN inbox :
        inbox[i].type = "DeferredMuxerAdd" => tasks'[inbox[i].id].udid = tasks[inbox[i].id].udid
  BY DEF DeferredOnce, HeldBack
<1>2. \A k : Deferred(u, k)' = Deferred(u, k) /\ Lost(u, k)' = Lost(u, k)
  BY <1>1 DEF Deferred, Lost
<1>3. IsFiniteSet(FindDevice(u, "Network")) /\ Cardinality(FindDevice(u, "Network")) \in Nat
  BY Counted
<1>4. /\ Cardinality(FindDevice(u, "Network")') <= Cardinality(FindDevice(u, "Network"))
      /\ Cardinality(FindDevice(u, "Network")') \in Nat
  BY <1>3, FS_Subset, FS_CardinalityType
<1>5. \A k : Cardinality(Deferred(u, k)) \in Nat /\ Cardinality(Lost(u, k)) \in Nat
  BY Counted
<1>6. Cardinality(Beating(u)) \in Nat
  BY Counted
<1> QED BY <1>2, <1>3, <1>4, <1>5, <1>6 DEF Balanced

(* ... or another message is taken, *)
LEMMA BalanceTaken ==
  ASSUME TypeOK, TypeOK', DeferredOnce, NEW u, Balanced(u),
         NEW t, Receive(t), t \notin {"DeferredMuxerAdd", "HeartbeatFailed"},
         FindDevice(u, "Network")' \subseteq FindDevice(u, "Network"),
         Beating(u)' = Beating(u),
         \A id \in DOMAIN tasks : id \in DOMAIN tasks' /\ tasks'[id].udid = tasks[id].udid
  PROVE  Balanced(u)'
<1>1. \A k \in Nat : /\ Cardinality(Deferred(u, k)') = Cardinality(Deferred(u, k + 1))
                     /\ Cardinality(Lost(u, k)') = Cardinality(Lost(u, k + 1))
  BY TakenCounts
<1>2. /\ Cardinality(Deferred(u, 0)) = Cardinality(Deferred(u, 1)) + 0
      /\ Cardinality(Lost(u, 0)) = Cardinality(Lost(u, 1)) + 0
  <2>1. 0 \in Nat
    OBVIOUS
  <2> QED BY <2>1, TakenCounts
<1>3. IsFiniteSet(FindDevice(u, "Network")) /\ Cardinality(FindDevice(u, "Network")) \in Nat
  BY Counted
<1>4. /\ Cardinality(FindDevice(u, "Network")') <= Cardinality(FindDevice(u, "Network"))
      /\ Cardinality(FindDevice(u, "Network")') \in Nat
  BY <1>3, FS_Subset, FS_CardinalityType
<1>5. \A k : Cardinality(Deferred(u, k)) \in Nat /\ Cardinality(Lost(u, k)) \in Nat
  BY Counted
<1>6. Cardinality(Beating(u)) \in Nat /\ Cardinality(Beating(u)') = Cardinality(Beating(u))
  BY Counted
<1>7. \A k \in Nat : Cardinality(Deferred(u, k)')
                       <= Cardinality(Beating(u)') + Cardinality(Lost(u, k)')
  BY <1>1, <1>6 DEF Balanced
<1>8. /\ Cardinality(Deferred(u, 0)') = Cardinality(Deferred(u, 0))
      /\ Cardinality(Lost(u, 0)') = Cardinality(Lost(u, 0))
  <2>1. /\ Cardinality(Deferred(u, 0)') = Cardinality(Deferred(u, 0 + 1))
        /\ Cardinality(Lost(u, 0)') = Cardinality(Lost(u, 0 + 1))
    BY <1>1
  <2> QED BY <1>2, <1>5, <2>1
<1> QED BY <1>3, <1>4, <1>5, <1>6, <1>7, <1>8 DEF Balanced

(* ... or another message is sent. *)
LEMMA BalanceSent ==
  ASSUME TypeOK, TypeOK', DeferredOnce, NEW u, Balanced(u),
         NEW m \in Message, Send(m), m.type \notin {"DeferredMuxerAdd", "HeartbeatFailed"},
         UNCHANGED <<devices, tasks>>
  PROVE  Balanced(u)'
<1>1. \A k \in Nat : /\ Cardinality(Deferred(u, k)') = Cardinality(Deferred(u, k)) + 0
                     /\ Cardinality(Lost(u, k)') = Cardinality(Lost(u, k)) + 0
  BY SentCounts
<1>2. \A k : Cardinality(Deferred(u, k)) \in Nat /\ Cardinality(Lost(u, k)) \in Nat
  BY Counted
<1>3. FindDevice(u, "Network")' = FindDevice(u, "Network") /\ Beating(u)' = Beating(u)
  BY DEF FindDevice, Beating
<1> QED BY <1>1, <1>2, <1>3 DEF Balanced

LEMMA BalanceAtAdd ==
  ASSUME IndInv, TypeOK', DeferredMuxerAdd, NEW u, Balanced(u)
  PROVE  Balanced(u)'
<1> DEFINE t == tasks[msg.id]
           N == FindDevice(u, "Network")
<1>1. /\ TypeOK /\ DeferredOnce /\ Receive("DeferredMuxerAdd")
      /\ msg.id \in DOMAIN tasks /\ t \in Task
      /\ devices' = Put(devices, msg.id, [udid |-> t.udid, ct |-> t.ct])
      /\ tasks' = [tasks EXCEPT ![msg.id].listed = TRUE]
  <2>1. TypeOK /\ DeferredOnce /\ Receive("DeferredMuxerAdd")
    BY DEF IndInv, DeferredMuxerAdd
  <2>2. msg.id \in DOMAIN tasks
    BY <2>1, Received DEF DeferredOnce, HeldBack
  <2> QED BY <2>1, <2>2, Tables DEF DeferredMuxerAdd
<1> HIDE DEF t
<1>2. \A id \in DOMAIN tasks :
        /\ id \in DOMAIN tasks' /\ tasks'[id].udid = tasks[id].udid
        /\ tasks'[id].pc = tasks[id].pc
  BY <1>1, Tables DEF Task
<1>3. Beating(u)' = Beating(u)
  BY <1>1, <1>2 DEF Beating
<1>4. \A k \in Nat : /\ Cardinality(Deferred(u, k)') = Cardinality(Deferred(u, k + 1))
                     /\ Cardinality(Lost(u, k)') = Cardinality(Lost(u, k + 1))
  BY <1>1, <1>2, TakenCounts
<1>5. /\ Cardinality(Deferred(u, 0)) =
           Cardinality(Deferred(u, 1)) + IF t.udid = u THEN 1 ELSE 0
      /\ Cardinality(Lost(u, 0)) = Cardinality(Lost(u, 1)) + 0
  <2>1. 0 \in Nat
    OBVIOUS
  <2> QED BY <1>1, <1>2, <2>1, TakenCounts DEF t
<1>6. N' \subseteq N \cup (IF t.udid = u THEN {msg.id} ELSE {})
  <2>1. DOMAIN devices' = DOMAIN devices \cup {msg.id}
    BY <1>1 DEF Put
  <2>2. devices'[msg.id].udid = t.udid
    BY <1>1 DEF Put
  <2>3. \A id \in DOMAIN devices : id # msg.id => devices'[id] = devices[id]
    BY <1>1 DEF Put
  <2> QED BY <2>1, <2>2, <2>3 DEF FindDevice
<1> HIDE DEF N
<1>7. /\ IsFiniteSet(N) /\ Cardinality(N) \in Nat /\ Cardinality(Beating(u)) \in Nat
      /\ \A k : Cardinality(Deferred(u, k)) \in Nat /\ Cardinality(Lost(u, k)) \in Nat
  BY <1>1, Counted DEF N
<1>8. /\ Cardinality(N') \in Nat
      /\ Cardinality(N') <= Cardinality(N) + IF t.udid = u THEN 1 ELSE 0
  <2>1. CASE t.udid = u
    <3>1. N' \in SUBSET (N \cup {msg.id})
      BY <1>6, <2>1
    <3>2. IsFiniteSet(N \cup {msg.id}) /\ Cardinality(N \cup {msg.id}) \in Nat
          /\ Cardinality(N \cup {msg.id}) <= Cardinality(N) + 1
      <4>1. /\ IsFiniteSet(N \cup {msg.id})
            /\ Cardinality(N \cup {msg.id}) =
                 IF msg.id \in N THEN Cardinality(N) ELSE Cardinality(N) + 1
        BY <1>7, FS_AddElement
      <4> QED BY <1>7, <4>1
    <3>3. IsFiniteSet(N') /\ Cardinality(N') <= Cardinality(N \cup {msg.id})
      BY <3>1, <3>2, FS_Subset
    <3>4. Cardinality(N') \in Nat
      BY <3>3, FS_CardinalityType
    <3> QED BY <1>7, <2>1, <3>2, <3>3, <3>4
  <2>2. CASE t.udid # u
    <3>1. N' \in SUBSET N
      BY <1>6, <2>2
    <3>3. IsFiniteSet(N') /\ Cardinality(N') <= Cardinality(N)
      BY <1>7, <3>1, FS_Subset
    <3>4. Cardinality(N') \in Nat
      BY <3>3, FS_CardinalityType
    <3> QED BY <1>7, <2>2, <3>3, <3>4
  <2> QED BY <2>1, <2>2
<1>9. /\ Cardinality(N) + Cardinality(Deferred(u, 0))
           <= Cardinality(Beating(u)) + Cardinality(Lost(u, 0))
      /\ \A k \in Nat :
           Cardinality(Deferred(u, k)) <= Cardinality(Beating(u)) + Cardinality(Lost(u, k))
  BY DEF Balanced, N
<1>10. Cardinality(N') + Cardinality(Deferred(u, 0)')
         <= Cardinality(Beating(u)') + Cardinality(Lost(u, 0)')
  <2>1. /\ Cardinality(Deferred(u, 0)') = Cardinality(Deferred(u, 1))
        /\ Cardinality(Lost(u, 0)') = Cardinality(Lost(u, 1))
    <3>1. 0 \in Nat /\ 0 + 1 = 1
      OBVIOUS
    <3> QED BY <1>4, <3>1
  <2>2. Cardinality(Beating(u)') = Cardinality(Beating(u))
    BY <1>3
  <2> QED BY <1>5, <1>7, <1>8, <1>9, <2>1, <2>2
<1>11. \A k \in Nat : Cardinality(Deferred(u, k)')
                        <= Cardinality(Beating(u)') + Cardinality(Lost(u, k)')
  BY <1>3, <1>4, <1>9
<1> QED BY <1>10, <1>11 DEF Balanced, N

(* A failure takes an entry of its UDID out of the table, if there is one; *)
(* if there is none, the entries that may still come are backed already.   *)
LEMMA BalanceAtFailure ==
  ASSUME IndInv, TypeOK', HeartbeatFailed, NEW u, Balanced(u)
  PROVE  Balanced(u)'
<1> DEFINE N == FindDevice(u, "Network")
<1>1. TypeOK /\ DeferredOnce /\ Receive("HeartbeatFailed") /\ tasks' = tasks
  BY DEF IndInv, HeartbeatFailed
<1>2. Beating(u)' = Beating(u)
  BY <1>1 DEF Beating
<1>3. \A k \in Nat : /\ Cardinality(Deferred(u, k)') = Cardinality(Deferred(u, k + 1))
                     /\ Cardinality(Lost(u, k)') = Cardinality(Lost(u, k + 1))
  BY <1>1, TakenCounts
<1>4. /\ Cardinality(Deferred(u, 0)) = Cardinality(Deferred(u, 1)) + 0
      /\ Cardinality(Lost(u, 0)) = Cardinality(Lost(u, 1)) + IF msg.udid = u THEN 1 ELSE 0
  <2>1. 0 \in Nat
    OBVIOUS
  <2> QED BY <1>1, <2>1, TakenCounts
<1>5. /\ N' \subseteq N
      /\ msg.udid = u => \/ N' = {}
                         \/ \E id \in N : N' = N \ {id}
  <2>1. CASE FindDevice(msg.udid, "Network") = {} /\ devices' = devices
    BY <2>1 DEF FindDevice
  <2>2. CASE \E id \in FindDevice(msg.udid, "Network") : DropEntry(id)
    <3>1. PICK id \in FindDevice(msg.udid, "Network") : DropEntry(id)
      BY <2>2
    <3>2. /\ DOMAIN devices' = DOMAIN devices \ {id}
          /\ \A y \in DOMAIN devices : y # id => devices'[y] = devices[y]
      BY <1>1, <3>1, Tables, DropFacts DEF DropEntry
    <3>3. N' = N \ {id}
      BY <3>2 DEF FindDevice
    <3>4. msg.udid = u => id \in N
      BY <3>1
    <3> QED BY <3>3, <3>4
  <2> QED BY <2>1, <2>2 DEF HeartbeatFailed
<1>6. /\ IsFiniteSet(N) /\ Cardinality(N) \in Nat /\ Cardinality(Beating(u)) \in Nat
      /\ \A k : Cardinality(Deferred(u, k)) \in Nat /\ Cardinality(Lost(u, k)) \in Nat
  BY <1>1, Counted
<1>7. /\ Cardinality(N) + Cardinality(Deferred(u, 0))
           <= Cardinality(Beating(u)) + Cardinality(Lost(u, 0))
      /\ \A k \in Nat :
           Cardinality(Deferred(u, k)) <= Cardinality(Beating(u)) + Cardinality(Lost(u, k))
  BY DEF Balanced
<1> HIDE DEF N
<1>8. /\ Cardinality(N') \in Nat /\ Cardinality(N') <= Cardinality(N)
      /\ msg.udid = u => Cardinality(N') = 0 \/ Cardinality(N') = Cardinality(N) - 1
  <2>1. IsFiniteSet(N') /\ Cardinality(N') <= Cardinality(N)
    BY <1>5, <1>6, FS_Subset
  <2>2. Cardinality(N') \in Nat
    BY <2>1, FS_CardinalityType
  <2>3. \A id \in N : Cardinality(N \ {id}) = Cardinality(N) - 1
    BY <1>6, FS_RemoveElement
  <2> QED BY <1>5, <2>1, <2>2, <2>3, FS_EmptySet
<1>9. /\ Cardinality(Deferred(u, 0)') = Cardinality(Deferred(u, 1))
      /\ Cardinality(Lost(u, 0)') = Cardinality(Lost(u, 1))
  <2>1. 0 \in Nat /\ 0 + 1 = 1
    OBVIOUS
  <2> QED BY <1>3, <2>1
<1>10. Cardinality(Deferred(u, 1)) <= Cardinality(Beating(u)) + Cardinality(Lost(u, 1))
  <2>1. 1 \in Nat
    OBVIOUS
  <2> QED BY <1>7, <2>1
<1>11. Cardinality(N') + Cardinality(Deferred(u, 0)')
         <= Cardinality(Beating(u)') + Cardinality(Lost(u, 0)')
  <2>1. CASE msg.udid = u
    BY <1>2, <1>4, <1>6, <1>7, <1>8, <1>9, <1>10, <2>1
  <2>2. CASE msg.udid # u
    BY <1>2, <1>4, <1>6, <1>7, <1>8, <1>9, <2>2
  <2> QED BY <2>1, <2>2
<1>12. \A k \in Nat : Cardinality(Deferred(u, k)')
                        <= Cardinality(Beating(u)') + Cardinality(Lost(u, k)')
  BY <1>2, <1>3, <1>7
<1> QED BY <1>11, <1>12 DEF Balanced, N

LEMMA BalanceAtStart ==
  ASSUME IndInv, TypeOK', NEW id, HeartbeatEstablished(id), NEW u, Balanced(u)
  PROVE  Balanced(u)'
<1> DEFINE m == [type |-> "DeferredMuxerAdd", id |-> id]
<1>1. /\ TypeOK /\ DeferredOnce /\ Send(m)
      /\ id \in DOMAIN tasks /\ tasks[id].pc = "setup" /\ devices' = devices
      /\ tasks' = [tasks EXCEPT ![id].pc = "beating"]
  BY DEF IndInv, HeartbeatEstablished, managerVars
<1>2. m \in Message /\ m.type = "DeferredMuxerAdd" /\ m.id = id
  BY <1>1, Tables, Messages
<1> HIDE DEF m
<1>3. /\ DOMAIN tasks' = DOMAIN tasks
      /\ \A t \in DOMAIN tasks :
           /\ tasks'[t].udid = tasks[t].udid
           /\ tasks'[t].pc = IF t = id THEN "beating" ELSE tasks[t].pc
  BY <1>1, Tables DEF Task
<1>4. FindDevice(u, "Network")' = FindDevice(u, "Network")
  BY <1>1 DEF FindDevice
<1>5. \A k \in Nat :
        /\ Cardinality(Deferred(u, k)') =
             Cardinality(Deferred(u, k))
               + IF k <= Len(inbox) /\ tasks[id].udid = u THEN 1 ELSE 0
        /\ Cardinality(Lost(u, k)') = Cardinality(Lost(u, k)) + 0
  BY <1>1, <1>2, <1>3, SentCounts
<1>6. /\ Cardinality(FindDevice(u, "Network")) \in Nat
      /\ IsFiniteSet(Beating(u)) /\ Cardinality(Beating(u)) \in Nat
      /\ \A k : Cardinality(Deferred(u, k)) \in Nat /\ Cardinality(Lost(u, k)) \in Nat
  BY <1>1, Counted
<1>7. /\ tasks[id].udid = u => Cardinality(Beating(u)') = Cardinality(Beating(u)) + 1
      /\ tasks[id].udid # u => Cardinality(Beating(u)') = Cardinality(Beating(u))
  <2>1. id \notin Beating(u)
    BY <1>1 DEF Beating
  <2>2. CASE tasks[id].udid = u
    <3>1. Beating(u)' = Beating(u) \cup {id}
      BY <1>1, <1>3, <2>2 DEF Beating
    <3> QED BY <1>6, <2>1, <2>2, <3>1, FS_AddElement
  <2>3. CASE tasks[id].udid # u
    <3>1. Beating(u)' = Beating(u)
      BY <1>1, <1>3, <2>3 DEF Beating
    <3> QED BY <1>6, <2>3, <3>1
  <2> QED BY <2>2, <2>3
<1>8. ASSUME NEW k \in Nat
      PROVE  /\ Cardinality(Deferred(u, k)) \in Nat /\ Cardinality(Lost(u, k)) \in Nat
             /\ Cardinality(Deferred(u, k)) <= Cardinality(Beating(u)) + Cardinality(Lost(u, k))
             /\ Cardinality(Deferred(u, k)')
                  <= Cardinality(Deferred(u, k)) + Cardinality(Beating(u)') - Cardinality(Beating(u))
             /\ Cardinality(Deferred(u, k)') \in Nat /\ Cardinality(Beating(u)') \in Nat
             /\ Cardinality(Lost(u, k)') = Cardinality(Lost(u, k))
  <2>1. Cardinality(Deferred(u, k)) <= Cardinality(Beating(u)) + Cardinality(Lost(u, k))
    BY DEF Balanced
  <2>2. Cardinality(Lost(u, k)') = Cardinality(Lost(u, k))
    BY <1>5, <1>6
  <2>3. CASE tasks[id].udid = u
    <3>1. \/ Cardinality(Deferred(u, k)') = Cardinality(Deferred(u, k)) + 1
          \/ Cardinality(Deferred(u, k)') = Cardinality(Deferred(u, k)) + 0
      BY <1>5
    <3> QED BY <1>6, <1>7, <2>1, <2>2, <2>3, <3>1
  <2>4. CASE tasks[id].udid # u
    <3>1. Cardinality(Deferred(u, k)') = Cardinality(Deferred(u, k)) + 0
      BY <1>5, <2>4
    <3> QED BY <1>6, <1>7, <2>1, <2>2, <2>4, <3>1
  <2> QED BY <2>3, <2>4
<1>9. \A k \in Nat : Cardinality(Deferred(u, k)')
                       <= Cardinality(Beating(u)') + Cardinality(Lost(u, k)')
  BY <1>6, <1>8
<1>10. Cardinality(FindDevice(u, "Network")') + Cardinality(Deferred(u, 0)')
         <= Cardinality(Beating(u)') + Cardinality(Lost(u, 0)')
  <2>1. 0 \in Nat
    OBVIOUS
  <2>2. Cardinality(FindDevice(u, "Network")) + Cardinality(Deferred(u, 0))
          <= Cardinality(Beating(u)) + Cardinality(Lost(u, 0))
    BY DEF Balanced
  <2> QED BY <1>4, <1>6, <1>8, <2>1, <2>2
<1> QED BY <1>9, <1>10 DEF Balanced

LEMMA BalanceAtEnd ==
  ASSUME IndInv, TypeOK', NEW id, HeartbeatLost(id), NEW u, Balanced(u)
  PROVE  Balanced(u)'
<1> DEFINE m == [type |-> "HeartbeatFailed", udid |-> tasks[id].udid]
<1>1. /\ TypeOK /\ DeferredOnce /\ Send(m)
      /\ id \in DOMAIN tasks /\ tasks[id].pc = "beating" /\ devices' = devices
      /\ tasks' = [tasks EXCEPT ![id].pc = "ended"]
  BY DEF IndInv, HeartbeatLost, managerVars
<1>2. m \in Message /\ m.type = "HeartbeatFailed" /\ m.udid = tasks[id].udid
  <2>1. tasks[id].udid \in Udids
    BY <1>1, Tables DEF Task
  <2> QED BY <2>1, Messages
<1> HIDE DEF m
<1>3. /\ DOMAIN tasks' = DOMAIN tasks
      /\ \A t \in DOMAIN tasks :
           /\ tasks'[t].udid = tasks[t].udid
           /\ tasks'[t].pc = IF t = id THEN "ended" ELSE tasks[t].pc
  BY <1>1, Tables DEF Task
<1>4. FindDevice(u, "Network")' = FindDevice(u, "Network")
  BY <1>1 DEF FindDevice
<1>5. \A k \in Nat :
        /\ Cardinality(Deferred(u, k)') = Cardinality(Deferred(u, k)) + 0
        /\ Cardinality(Lost(u, k)') =
             Cardinality(Lost(u, k)) + IF k <= Len(inbox) /\ tasks[id].udid = u THEN 1 ELSE 0
  BY <1>1, <1>2, <1>3, SentCounts
<1>6. /\ Cardinality(FindDevice(u, "Network")) \in Nat
      /\ IsFiniteSet(Beating(u)) /\ Cardinality(Beating(u)) \in Nat
      /\ \A k : Cardinality(Deferred(u, k)) \in Nat /\ Cardinality(Lost(u, k)) \in Nat
  BY <1>1, Counted
<1>7. /\ tasks[id].udid = u => Cardinality(Beating(u)') = Cardinality(Beating(u)) - 1
      /\ tasks[id].udid # u => Cardinality(Beating(u)') = Cardinality(Beating(u))
      /\ Cardinality(Beating(u)') \in Nat
  <2>1. CASE tasks[id].udid = u
    <3>1. Beating(u)' = Beating(u) \ {id} /\ id \in Beating(u)
      BY <1>1, <1>3, <2>1 DEF Beating
    <3>2. IsFiniteSet(Beating(u)') /\ Cardinality(Beating(u)') = Cardinality(Beating(u)) - 1
      BY <1>6, <3>1, FS_RemoveElement
    <3> QED BY <2>1, <3>2, FS_CardinalityType
  <2>2. CASE tasks[id].udid # u
    <3>1. Beating(u)' = Beating(u)
      BY <1>1, <1>3, <2>2 DEF Beating
    <3> QED BY <1>6, <2>2, <3>1
  <2> QED BY <2>1, <2>2
<1>8. \A k \in Nat : k > Len(inbox) => Cardinality(Deferred(u, k)) = 0
  <2>1. Len(inbox) \in Nat /\ DOMAIN inbox = 1..Len(inbox)
    BY <1>1 DEF TypeOK
  <2>2. \A k \in Nat : k > Len(inbox) => Deferred(u, k) = {}
    BY <2>1 DEF Deferred
  <2> QED BY <2>2, FS_EmptySet
<1>9. Len(inbox) \in Nat
  BY <1>1 DEF TypeOK
<1>10. ASSUME NEW k \in Nat
       PROVE  /\ Cardinality(Deferred(u, k)) \in Nat /\ Cardinality(Lost(u, k)) \in Nat
              /\ Cardinality(Deferred(u, k)) <= Cardinality(Beating(u)) + Cardinality(Lost(u, k))
              /\ Cardinality(Deferred(u, k)') = Cardinality(Deferred(u, k))
              /\ Cardinality(Lost(u, k)') \in Nat
              /\ k <= Len(inbox) => Cardinality(Beating(u)') + Cardinality(Lost(u, k)')
                                       = Cardinality(Beating(u)) + Cardinality(Lost(u, k))
  <2>1. Cardinality(Deferred(u, k)) <= Cardinality(Beating(u)) + Cardinality(Lost(u, k))
    BY DEF Balanced
  <2>2. Cardinality(Deferred(u, k)') = Cardinality(Deferred(u, k))
    BY <1>5, <1>6
  <2>3. CASE tasks[id].udid = u /\ k <= Len(inbox)
    <3>1. Cardinality(Lost(u, k)') = Cardinality(Lost(u, k)) + 1
      BY <1>5, <2>3
    <3> QED BY <1>6, <1>7, <2>1, <2>2, <2>3, <3>1
  <2>4. CASE ~(tasks[id].udid = u /\ k <= Len(inbox))
    <3>1. Cardinality(Lost(u, k)') = Cardinality(Lost(u, k)) + 0
      BY <1>5, <2>4
    <3> QED BY <1>6, <1>7, <2>1, <2>2, <2>4, <3>1
  <2> QED BY <2>3, <2>4
<1>11. \A k \in Nat : Cardinality(Deferred(u, k)')
                        <= Cardinality(Beating(u)') + Cardinality(Lost(u, k)')
  <2> SUFFICES ASSUME NEW k \in Nat
               PROVE  Cardinality(Deferred(u, k)')
                        <= Cardinality(Beating(u)') + Cardinality(Lost(u, k)')
    OBVIOUS
  <2>1. CASE k <= Len(inbox)
    BY <1>7, <1>10, <2>1
  <2>2. CASE k > Len(inbox)
    BY <1>7, <1>8, <1>10, <2>2
  <2> QED BY <1>9, <2>1, <2>2
<1>12. Cardinality(FindDevice(u, "Network")') + Cardinality(Deferred(u, 0)')
        <= Cardinality(Beating(u)') + Cardinality(Lost(u, 0)')
  <2>1. 0 \in Nat /\ 0 <= Len(inbox)
    BY <1>9
  <2>2. Cardinality(FindDevice(u, "Network")) + Cardinality(Deferred(u, 0))
          <= Cardinality(Beating(u)) + Cardinality(Lost(u, 0))
    BY DEF Balanced
  <2> QED BY <1>4, <1>6, <1>7, <1>10, <2>1, <2>2
<1> QED BY <1>11, <1>12 DEF Balanced

LEMMA BalanceInManager ==
  ASSUME IndInv, TypeOK', ManagerStep, UseHeartbeat, NEW u, Balanced(u)
  PROVE  Balanced(u)'
<1>0. TypeOK /\ DeferredOnce /\ FreshIds /\ lastIndex \in Nat /\ Ids \subseteq Nat
  BY IdFacts DEF IndInv, TypeOK
<1>1. ASSUME UNCHANGED <<devices, tasks>>
      PROVE  /\ FindDevice(u, "Network")' \subseteq FindDevice(u, "Network")
             /\ Beating(u)' = Beating(u)
             /\ \A id \in DOMAIN tasks :
                  id \in DOMAIN tasks' /\ tasks'[id].udid = tasks[id].udid
  BY <1>1 DEF FindDevice, Beating
<1>2. CASE IgnoreNetworkDevice \/ ReplaceUsbHandle \/ BeginRemoveDevice
           \/ GetDeviceConnection \/ OpenSocket \/ Subscribe
  <2>1. UNCHANGED <<devices, tasks>>
    BY <1>2 DEF IgnoreNetworkDevice, ReplaceUsbHandle, BeginRemoveDevice, GetDeviceConnection,
          OpenSocket, Subscribe, managerVars
  <2>2. \E t : Receive(t) /\ t \notin {"DeferredMuxerAdd", "HeartbeatFailed"}
    BY <1>2 DEF IgnoreNetworkDevice, ReplaceUsbHandle, BeginRemoveDevice, GetDeviceConnection,
          OpenSocket, Subscribe
  <2> QED BY <1>0, <1>1, <2>1, <2>2, BalanceTaken
<1>3. CASE SpawnHeartbeat
  <2>1. /\ Receive("DiscoveredNetworkDevice") /\ devices' = devices
        /\ tasks' = Put(tasks, lastIndex, [udid |-> msg.udid, ct |-> msg.ct, from |-> msg.from,
                                           pc |-> "setup", listed |-> FALSE])
    BY <1>3 DEF SpawnHeartbeat
  <2>2. lastIndex \notin DOMAIN tasks
    BY <1>0, Tables DEF FreshIds
  <2>3. /\ DOMAIN tasks' = DOMAIN tasks \cup {lastIndex}
        /\ \A id \in DOMAIN tasks : tasks'[id] = tasks[id]
        /\ tasks'[lastIndex].pc = "setup"
    BY <2>1, <2>2 DEF Put
  <2>4. Beating(u)' = Beating(u)
    BY <2>2, <2>3 DEF Beating
  <2>5. FindDevice(u, "Network")' \subseteq FindDevice(u, "Network")
    BY <2>1 DEF FindDevice
  <2> QED BY <1>0, <2>1, <2>3, <2>4, <2>5, BalanceTaken
<1>4. ~AddNetworkDevice
  BY DEF AddNetworkDevice
<1>5. CASE AddUsbDevice
  <2>1. /\ Receive("DiscoveredUsbDevice") /\ tasks' = tasks
        /\ devices' = Put(devices, lastIndex, [udid |-> msg.udid, ct |-> "USB"])
    BY <1>5 DEF AddUsbDevice
  <2>2. /\ DOMAIN devices' = DOMAIN devices \cup {lastIndex}
        /\ \A id \in DOMAIN devices : id # lastIndex => devices'[id] = devices[id]
        /\ devices'[lastIndex] = [udid |-> msg.udid, ct |-> "USB"]
    BY <2>1 DEF Put
  <2>3. FindDevice(u, "Network")' \subseteq FindDevice(u, "Network")
    BY <2>2 DEF FindDevice
  <2>4. Beating(u)' = Beating(u)
    BY <2>1 DEF Beating
  <2> QED BY <1>0, <2>1, <2>3, <2>4, BalanceTaken
<1>6. ASSUME NEW id \in Ids, RemoveNext(id) PROVE Balanced(u)'
  <2>1. inbox' = inbox /\ tasks' = tasks /\ DropEntry(id)
    BY <1>6 DEF RemoveNext
  <2>2. /\ DOMAIN devices' = DOMAIN devices \ {id}
        /\ \A y \in DOMAIN devices : y # id => devices'[y] = devices[y]
    BY <1>0, <2>1, Tables, DropFacts DEF DropEntry
  <2>3. FindDevice(u, "Network")' \subseteq FindDevice(u, "Network")
    BY <2>2 DEF FindDevice
  <2>4. Beating(u)' = Beating(u)
    BY <2>1 DEF Beating
  <2> QED BY <1>0, <2>1, <2>3, <2>4, BalanceKept
<1>7. ASSUME NEW id \in Ids, HandleShutDown(id) PROVE Balanced(u)'
  <2>1. inbox' = inbox /\ UNCHANGED <<devices, tasks>>
    BY <1>7 DEF HandleShutDown
  <2> QED BY <1>0, <1>1, <2>1, BalanceKept
<1> QED BY <1>2, <1>3, <1>4, <1>5, <1>6, <1>7, BalanceAtAdd, BalanceAtFailure DEF ManagerStep

LEMMA BalanceInTasks ==
  ASSUME IndInv, TypeOK', HeartbeatStep, NEW u, Balanced(u)
  PROVE  Balanced(u)'
<1>1. ASSUME NEW id \in Ids, HeartbeatSetupFails(id) PROVE Balanced(u)'
  <2>1. /\ TypeOK /\ DeferredOnce /\ inbox' = inbox /\ devices' = devices
        /\ id \in DOMAIN tasks /\ tasks[id].pc = "setup"
        /\ tasks' = [tasks EXCEPT ![id].pc = "gaveUp"]
    BY <1>1 DEF IndInv, HeartbeatSetupFails, managerVars
  <2>2. /\ DOMAIN tasks' = DOMAIN tasks
        /\ \A t \in DOMAIN tasks :
             /\ tasks'[t].udid = tasks[t].udid
             /\ tasks'[t].pc = IF t = id THEN "gaveUp" ELSE tasks[t].pc
    BY <2>1, Tables DEF Task
  <2>3. Beating(u)' = Beating(u)
    BY <2>1, <2>2 DEF Beating
  <2>4. FindDevice(u, "Network")' \subseteq FindDevice(u, "Network")
    BY <2>1 DEF FindDevice
  <2> QED BY <2>1, <2>2, <2>3, <2>4, BalanceKept
<1> QED BY <1>1, BalanceAtStart, BalanceAtEnd DEF HeartbeatStep

LEMMA BalanceInClients ==
  ASSUME IndInv, TypeOK', ClientStep, NEW u, Balanced(u)
  PROVE  Balanced(u)'
<1>0. TypeOK /\ DeferredOnce /\ UNCHANGED <<devices, tasks>>
  BY DEF IndInv, ClientStep, MdnsResolved, ClientRemoveDevice, UsbGone, RegisterUsb,
     ClientAddDevice, StartListen, ListenerGone, SessionConnect, SessionDialed,
     SessionDialFails, SessionEnds, managerVars
<1>1. CASE inbox' = inbox
  <2>1. /\ FindDevice(u, "Network")' \subseteq FindDevice(u, "Network")
        /\ Beating(u)' = Beating(u)
    BY <1>0 DEF FindDevice, Beating
  <2> QED BY <1>0, <1>1, <2>1, BalanceKept
<1>2. CASE \E m \in Message : Send(m) /\ m.type \notin {"DeferredMuxerAdd", "HeartbeatFailed"}
  BY <1>0, <1>2, BalanceSent
<1>3. \/ inbox' = inbox
      \/ \E m \in Message : Send(m) /\ m.type \notin {"DeferredMuxerAdd", "HeartbeatFailed"}
  <2> DEFINE Goal == \/ inbox' = inbox
                     \/ \E m \in Message : /\ Send(m)
                                           /\ m.type \notin {"DeferredMuxerAdd", "HeartbeatFailed"}
  <2>1. ASSUME NEW v \in Udids, MdnsResolved(v) PROVE Goal
    BY <2>1, Messages DEF MdnsResolved, SendDiscovery, Types
  <2>2. ASSUME NEW v \in Udids, ClientRemoveDevice(v) \/ UsbGone(v) PROVE Goal
    BY <2>2, Messages DEF ClientRemoveDevice, UsbGone
  <2>3. ASSUME NEW v \in Udids, NEW h \in Handles, RegisterUsb(v, h) PROVE Goal
    BY <2>3, Messages DEF RegisterUsb, SendDiscovery
  <2>4. ASSUME NEW v \in Udids, NEW a \in Adders, NEW ct \in AddTypes, ClientAddDevice(a, v, ct)
        PROVE  Goal
    BY <2>4, Messages DEF ClientAddDevice, SendDiscovery, Types
  <2>5. ASSUME NEW l \in Listeners, StartListen(l) \/ ListenerGone(l) PROVE Goal
    BY <2>5, Messages DEF StartListen, ListenerGone
  <2>6. ASSUME NEW s \in Sessions, NEW id \in FirstId..lastIndex, SessionConnect(s, id)
        PROVE  Goal
    <3>1. id \in Nat
      BY <1>0, IdFacts DEF TypeOK
    <3> QED BY <2>6, <3>1, Messages DEF SessionConnect
  <2>7. ASSUME NEW s \in Sessions, SessionDialed(s) \/ SessionDialFails(s) \/ SessionEnds(s)
        PROVE  Goal
    <3>1. sessions[s].id \in Nat
      BY <1>0 DEF TypeOK
    <3> QED BY <2>7, <3>1, Messages DEF SessionDialed, SessionDialFails, SessionEnds
  <2> QED BY <2>1, <2>2, <2>3, <2>4, <2>5, <2>6, <2>7 DEF ClientStep
<1> QED BY <1>1, <1>2, <1>3

LEMMA InitBalanced == Init => BackedInv
<1> SUFFICES ASSUME Init, NEW u PROVE Balanced(u)
  BY DEF BackedInv
<1>1. /\ FindDevice(u, "Network") = {} /\ Beating(u) = {}
      /\ \A k : Deferred(u, k) = {} /\ Lost(u, k) = {}
  BY DEF Init, FindDevice, Beating, Deferred, Lost
<1> QED BY <1>1, FS_EmptySet DEF Balanced

LEMMA NextBalanced == IndInv /\ BackedInv /\ IndInv' /\ [Next]_vars => BackedInv'
<1> SUFFICES ASSUME IndInv, IndInv', [Next]_vars, UseHeartbeat, NEW u, Balanced(u)
             PROVE  Balanced(u)'
  BY DEF BackedInv
<1>1. TypeOK /\ TypeOK' /\ DeferredOnce
  BY DEF IndInv
<1>2. CASE UNCHANGED vars
  <2>1. UNCHANGED <<inbox, devices, tasks>>
    BY <1>2 DEF vars
  <2>2. /\ FindDevice(u, "Network")' = FindDevice(u, "Network") /\ Beating(u)' = Beating(u)
        /\ \A k : Deferred(u, k)' = Deferred(u, k) /\ Lost(u, k)' = Lost(u, k)
    BY <2>1 DEF FindDevice, Beating, Deferred, Lost
  <2> QED BY <2>2 DEF Balanced
<1> QED BY <1>1, <1>2, BalanceInManager, BalanceInTasks, BalanceInClients DEF Next

(* No ghost on the network: every network entry of a UDID, and every one   *)
(* still to come, has a heartbeat task or a failure on its way, although a *)
(* failure names the UDID and may take another task's entry, or none       *)
(* (heartbeat.rs, HeartbeatFailed in manager.rs).                          *)
THEOREM NetworkEntriesBacked == Spec => []HeartbeatBacked
<1>1. Init => BackedInv
  BY InitBalanced
<1>2. IndInv /\ BackedInv /\ IndInv' /\ [Next]_vars => BackedInv'
  BY NextBalanced
<1>3. IndInv /\ BackedInv => HeartbeatBacked
  BY BackedIfBalanced DEF IndInv
<1> QED BY <1>1, <1>2, <1>3, IndInvHolds, PTL DEF Spec
-----------------------------------------------------------------------------
(* The table of USB handles, and the client sessions that are killed when  *)
(* their device goes.                                                      *)

(* Where the connection type of a network entry comes from. *)
NetworkTypes ==
  /\ \A i \in DOMAIN inbox :
       inbox[i].type = "DiscoveredNetworkDevice" => inbox[i].ct # "USB"
  /\ \A id \in DOMAIN tasks : tasks[id].ct # "USB"

UsbInv == UsbTableConsistent /\ NetworkTypes

(* What is in the channel after a message was taken, or one was sent.      *)
LEMMA StillThere ==
  ASSUME TypeOK, NEW t, Receive(t)
  PROVE  \A i \in DOMAIN inbox' : /\ i \in Nat /\ i + 1 \in DOMAIN inbox /\ i + 1 # 1
                                  /\ inbox'[i] = inbox[i + 1]
<1> QED BY Received

LEMMA AddedOne ==
  ASSUME TypeOK, NEW m \in Message, Send(m)
  PROVE  \A i \in DOMAIN inbox' : \/ i \in DOMAIN inbox /\ inbox'[i] = inbox[i]
                                  \/ i = Len(inbox) + 1 /\ inbox'[i] = m
<1> QED BY Sent

LEMMA OldestMessage ==
  ASSUME TypeOK, NEW t, Receive(t)
  PROVE  /\ 1 \in DOMAIN inbox /\ msg = inbox[1] /\ msg.type = t /\ msg \in Message
<1> QED BY Received

(* The manager writes nothing to its own channel. *)
LEMMA ManagerReads ==
  ASSUME TypeOK, ManagerStep
  PROVE  \/ inbox' = inbox
         \/ \E t : Receive(t)
<1> QED BY DEF ManagerStep, IgnoreNetworkDevice, SpawnHeartbeat, AddNetworkDevice,
      ReplaceUsbHandle, AddUsbDevice, DeferredMuxerAdd, HeartbeatFailed, BeginRemoveDevice,
      RemoveNext, HandleShutDown, GetDeviceConnection, OpenSocket, Subscribe

(* The discoveries that tasks and clients send are not of type "USB".      *)
LEMMA OthersWrite ==
  ASSUME TypeOK, HeartbeatStep \/ ClientStep, "USB" \notin AddTypes
  PROVE  \/ inbox' = inbox
         \/ \E m \in Message : /\ Send(m)
                               /\ m.type = "DiscoveredNetworkDevice" => m.ct # "USB"
<1> USE DEF SendDiscovery
<1>0. TypeOK
  OBVIOUS
<1>1. CASE HeartbeatStep
  <2>1. \A id \in Ids : HeartbeatSetupFails(id) => inbox' = inbox
    BY DEF HeartbeatSetupFails
  <2>2. ASSUME NEW id \in Ids, HeartbeatEstablished(id)
        PROVE  \E m \in Message : Send(m) /\ m.type # "DiscoveredNetworkDevice"
    BY <2>2, Messages DEF HeartbeatEstablished
  <2>3. ASSUME NEW id \in Ids, HeartbeatLost(id)
        PROVE  \E m \in Message : Send(m) /\ m.type # "DiscoveredNetworkDevice"
    <3>1. tasks[id].udid \in Udids
      BY <2>3, Tables DEF HeartbeatLost, Task
    <3> QED BY <2>3, <3>1, Messages DEF HeartbeatLost
  <2> QED BY <1>1, <2>1, <2>2, <2>3 DEF HeartbeatStep
<1>2. ASSUME NEW u \in Udids, MdnsResolved(u)
      PROVE  \E m \in Message : Send(m) /\ (m.type = "DiscoveredNetworkDevice" => m.ct # "USB")
  BY <1>2, Messages DEF MdnsResolved, Types
<1>3. ASSUME NEW u \in Udids, ClientRemoveDevice(u) \/ UsbGone(u)
      PROVE  \E m \in Message : Send(m) /\ m.type # "DiscoveredNetworkDevice"
  BY <1>3, Messages DEF ClientRemoveDevice, UsbGone
<1>4. ASSUME NEW u \in Udids, NEW h \in Handles, RegisterUsb(u, h)
      PROVE  \E m \in Message : Send(m) /\ m.type # "DiscoveredNetworkDevice"
  BY <1>4, Messages DEF RegisterUsb
<1>5. ASSUME NEW u \in Udids, NEW a \in Adders, NEW ct \in AddTypes, ClientAddDevice(a, u, ct)
      PROVE  \E m \in Message : Send(m) /\ (m.type = "DiscoveredNetworkDevice" => m.ct # "USB")
  BY <1>5, Messages DEF ClientAddDevice, Types
<1>6. ASSUME NEW l \in Listeners, StartListen(l)
      PROVE  \E m \in Message : Send(m) /\ m.type # "DiscoveredNetworkDevice"
  BY <1>6, Messages DEF StartListen
<1>7. ASSUME NEW s \in Sessions, NEW id \in FirstId..lastIndex, SessionConnect(s, id)
      PROVE  \E m \in Message : Send(m) /\ m.type # "DiscoveredNetworkDevice"
  <2>1. id \in Nat
    BY <1>0, IdFacts DEF TypeOK
  <2> QED BY <1>7, <2>1, Messages DEF SessionConnect
<1>8. ASSUME NEW s \in Sessions, SessionDialed(s)
      PROVE  \E m \in Message : Send(m) /\ m.type # "DiscoveredNetworkDevice"
  <2>1. sessions[s].id \in Nat
    BY <1>0 DEF TypeOK
  <2> QED BY <1>8, <2>1, Messages DEF SessionDialed
<1>9. CASE ClientStep
  BY <1>2, <1>3, <1>4, <1>5, <1>6, <1>7, <1>8, <1>9
  DEF ClientStep, ListenerGone, SessionDialFails, SessionEnds
<1> QED BY <1>1, <1>9

LEMMA NetworkTypesKept ==
  ASSUME IndInv, NetworkTypes, Next, "USB" \notin AddTypes
  PROVE  NetworkTypes'
<1>0. TypeOK
  BY DEF IndInv
<1>1. ASSUME NEW i \in DOMAIN inbox', inbox'[i].type = "DiscoveredNetworkDevice"
      PROVE  inbox'[i].ct # "USB"
  <2>1. CASE inbox' = inbox
    BY <1>1, <2>1 DEF NetworkTypes
  <2>2. CASE \E t : Receive(t)
    BY <1>0, <1>1, <2>2, StillThere DEF NetworkTypes
  <2>3. ASSUME NEW m \in Message, Send(m), m.type = "DiscoveredNetworkDevice" => m.ct # "USB"
        PROVE  inbox'[i].ct # "USB"
    BY <1>0, <1>1, <2>3, AddedOne DEF NetworkTypes
  <2> QED BY <1>0, <2>1, <2>2, <2>3, ManagerReads, OthersWrite DEF Next
<1>2. ASSUME NEW id \in DOMAIN tasks' PROVE tasks'[id].ct # "USB"
  <2>1. CASE SpawnHeartbeat
    <3>1. msg.ct # "USB"
      BY <1>0, <2>1, OldestMessage DEF SpawnHeartbeat, NetworkTypes
    <3> QED BY <1>2, <2>1, <3>1 DEF SpawnHeartbeat, Put, NetworkTypes
  <2>2. ASSUME NEW x \in DOMAIN tasks, NEW pc, tasks' = [tasks EXCEPT ![x].pc = pc]
        PROVE  tasks'[id].ct # "USB"
    <3>1. tasks[x] \in Task
      BY <1>0, Tables
    <3> QED BY <1>2, <2>2, <3>1 DEF NetworkTypes, Task
  <2>3. CASE DeferredMuxerAdd
    <3>1. tasks[msg.id] \in Task \/ msg.id \notin DOMAIN tasks
      BY <1>0, Tables
    <3> QED BY <1>2, <2>3, <3>1 DEF DeferredMuxerAdd, NetworkTypes, Task
  <2>4. CASE HeartbeatStep
    <3>1. \E x \in DOMAIN tasks, pc \in HbStates : tasks' = [tasks EXCEPT ![x].pc = pc]
      BY <2>4 DEF HeartbeatStep, HeartbeatSetupFails, HeartbeatEstablished, HeartbeatLost,
                  HbStates
    <3> QED BY <2>2, <3>1
  <2>5. CASE ClientStep
    <3>1. tasks' = tasks
      BY <2>5 DEF ClientStep, MdnsResolved, ClientRemoveDevice, UsbGone, RegisterUsb,
         ClientAddDevice, StartListen, ListenerGone, SessionConnect, SessionDialed,
         SessionDialFails, SessionEnds
    <3> QED BY <1>2, <3>1 DEF NetworkTypes
  <2>6. CASE ManagerStep /\ ~SpawnHeartbeat /\ ~DeferredMuxerAdd
    <3>1. tasks' = tasks
      BY <2>6 DEF ManagerStep, IgnoreNetworkDevice, AddNetworkDevice, ReplaceUsbHandle,
         AddUsbDevice, HeartbeatFailed, BeginRemoveDevice, RemoveNext, HandleShutDown,
         GetDeviceConnection, OpenSocket, Subscribe, clientVars
    <3> QED BY <1>2, <3>1 DEF NetworkTypes
  <2> QED BY <2>1, <2>3, <2>4, <2>5, <2>6 DEF Next
<1> QED BY <1>1, <1>2 DEF NetworkTypes

(* A step that leaves both tables alone. *)
LEMMA SameTables ==
  ASSUME UsbTableConsistent, UNCHANGED <<devices, usbHandles>>
  PROVE  UsbTableConsistent'
BY DEF UsbTableConsistent

(* The entry and the handle go together. *)
LEMMA EntryDropped ==
  ASSUME TypeOK, UsbTableConsistent, NEW id, DropEntry(id)
  PROVE  UsbTableConsistent'
<1>1. /\ DOMAIN devices' = DOMAIN devices \ {id}
      /\ \A y \in DOMAIN devices : y # id => devices'[y] = devices[y]
  BY Tables, DropFacts DEF DropEntry
<1>2. DOMAIN usbHandles' = DOMAIN usbHandles \ {id}
  BY Tables, DropFacts DEF DropEntry
<1> QED BY <1>1, <1>2 DEF UsbTableConsistent

(* An entry that is not of type "USB", under an id that is not in use. *)
LEMMA NetworkEntryAdded ==
  ASSUME TypeOK, UsbTableConsistent, NEW id, id \notin DOMAIN devices, NEW d \in Device,
         d.ct # "USB", devices' = Put(devices, id, d), usbHandles' = usbHandles
  PROVE  UsbTableConsistent'
<1>1. /\ DOMAIN devices' = DOMAIN devices \cup {id} /\ devices'[id] = d
      /\ \A y \in DOMAIN devices : devices'[y] = devices[y]
  BY Tables DEF Put
<1> QED BY <1>1 DEF UsbTableConsistent

LEMMA UsbEntryAdded ==
  ASSUME IndInv, UsbTableConsistent, AddUsbDevice
  PROVE  UsbTableConsistent'
<1>1. /\ TypeOK /\ lastIndex \notin DOMAIN devices
      /\ msg.udid \in Udids /\ msg.handle \in Handles
  <2>1. TypeOK /\ FreshIds /\ lastIndex \in Nat
    BY IdFacts DEF IndInv, TypeOK
  <2>2. msg.udid \in Udids /\ msg.handle \in Handles
    BY <2>1, OldestMessage, MessageFields DEF AddUsbDevice
  <2> QED BY <2>1, <2>2 DEF FreshIds
<1> DEFINE d == [udid |-> msg.udid, ct |-> "USB"]
<1>2. d \in Device
  BY <1>1 DEF Device, Types
<1>3. /\ DOMAIN devices' = DOMAIN devices \cup {lastIndex} /\ devices'[lastIndex] = d
      /\ \A y \in DOMAIN devices : devices'[y] = devices[y]
  BY <1>1, <1>2, Tables DEF AddUsbDevice, Put
<1>4. DOMAIN usbHandles' = DOMAIN usbHandles \cup {lastIndex}
  BY <1>1, Tables, PutDrop DEF AddUsbDevice
<1>5. \A y \in DOMAIN devices : devices[y].ct = "USB" => devices[y].udid # msg.udid
  <2>1. FindDevice(msg.udid, "USB") = {}
    BY DEF AddUsbDevice
  <2>2. ASSUME NEW y \in DOMAIN devices, devices[y].ct = "USB", devices[y].udid = msg.udid
        PROVE  FALSE
    <3>1. devices[y] \in Device
      BY <1>1, Tables
    <3>2. devices[y] = [udid |-> devices[y].udid, ct |-> devices[y].ct]
      BY <3>1 DEF Device
    <3> QED BY <2>1, <2>2, <3>2 DEF FindDevice
  <2> QED BY <2>2
<1>6. d.ct = "USB" /\ d.udid = msg.udid
  OBVIOUS
<1> HIDE DEF d
<1> QED BY <1>3, <1>4, <1>5, <1>6 DEF UsbTableConsistent

LEMMA UsbTableKept ==
  ASSUME IndInv, UsbInv, Next
  PROVE  UsbTableConsistent'
<1>0. TypeOK /\ FreshIds /\ DeferredOnce /\ UsbTableConsistent /\ NetworkTypes
      /\ lastIndex \in Nat
  BY IdFacts DEF IndInv, UsbInv, TypeOK
<1>1. CASE AddUsbDevice
  BY <1>0, <1>1, UsbEntryAdded
<1>2. CASE AddNetworkDevice
  <2>1. msg.ct # "USB" /\ [udid |-> msg.udid, ct |-> msg.ct] \in Device
    <3>1. msg.ct # "USB" /\ msg.udid \in Udids /\ msg.ct \in Types
      BY <1>0, <1>2, OldestMessage, MessageFields DEF AddNetworkDevice, NetworkTypes
    <3> QED BY <3>1 DEF Device
  <2>2. lastIndex \notin DOMAIN devices
    BY <1>0 DEF FreshIds
  <2> QED BY <1>0, <1>2, <2>1, <2>2, NetworkEntryAdded DEF AddNetworkDevice
<1>3. CASE DeferredMuxerAdd
  <2>1. /\ msg.id \in DOMAIN tasks /\ msg.id \notin DOMAIN devices
    BY <1>0, <1>3, OldestMessage DEF DeferredMuxerAdd, DeferredOnce, HeldBack, FreshIds
  <2>2. /\ tasks[msg.id].ct # "USB"
        /\ [udid |-> tasks[msg.id].udid, ct |-> tasks[msg.id].ct] \in Device
    BY <1>0, <2>1, Tables DEF NetworkTypes, Task, Device
  <2> QED BY <1>0, <1>3, <2>1, <2>2, NetworkEntryAdded DEF DeferredMuxerAdd
<1>4. CASE ReplaceUsbHandle
  <2>1. PICK id \in FindDevice(msg.udid, "USB") : usbHandles' = Put(usbHandles, id, msg.handle)
    BY <1>4 DEF ReplaceUsbHandle
  <2>2. id \in DOMAIN usbHandles
    BY <1>0, <2>1 DEF FindDevice, UsbTableConsistent
  <2>3. DOMAIN usbHandles' = DOMAIN usbHandles
    BY <2>1, <2>2 DEF Put
  <2> QED BY <1>0, <1>4, <2>3 DEF ReplaceUsbHandle, UsbTableConsistent
<1>5. CASE HeartbeatFailed
  BY <1>0, <1>5, EntryDropped, SameTables DEF HeartbeatFailed
<1>6. ASSUME NEW id \in Ids, RemoveNext(id) PROVE UsbTableConsistent'
  BY <1>0, <1>6, EntryDropped DEF RemoveNext
<1>7. CASE \/ IgnoreNetworkDevice \/ SpawnHeartbeat \/ BeginRemoveDevice
           \/ GetDeviceConnection \/ OpenSocket \/ Subscribe
           \/ \E id \in Ids : HandleShutDown(id)
  BY <1>0, <1>7, SameTables DEF IgnoreNetworkDevice, SpawnHeartbeat, BeginRemoveDevice,
     GetDeviceConnection, OpenSocket, Subscribe, HandleShutDown, managerVars
<1>8. CASE HeartbeatStep
  BY <1>0, <1>8, SameTables DEF HeartbeatStep, HeartbeatSetupFails, HeartbeatEstablished,
     HeartbeatLost, managerVars
<1>9. CASE ClientStep
  BY <1>0, <1>9, SameTables DEF ClientStep, MdnsResolved, ClientRemoveDevice, UsbGone,
     RegisterUsb, ClientAddDevice, StartListen, ListenerGone, SessionConnect, SessionDialed,
     SessionDialFails, SessionEnds, managerVars
<1> QED
  BY <1>1, <1>2, <1>3, <1>4, <1>5, <1>6, <1>7, <1>8, <1>9 DEF Next, ManagerStep

(* Connect finds a mux handle for every USB device, a handle goes with its *)
(* device, and a UDID is on USB once, as long as no AddDevice request      *)
(* claims to be of type "USB" (manager.rs:231-298).                        *)
THEOREM UsbTableHolds ==
  ASSUME "USB" \notin AddTypes
  PROVE  Spec => []UsbTableConsistent
<1>1. Init => IndInv /\ UsbInv
  BY InitIndInv DEF Init, UsbInv, UsbTableConsistent, NetworkTypes
<1>2. IndInv /\ UsbInv /\ [Next]_vars => IndInv' /\ UsbInv'
  <2> SUFFICES ASSUME IndInv, UsbInv, [Next]_vars PROVE IndInv' /\ UsbInv'
    OBVIOUS
  <2>1. IndInv'
    BY NextIndInv
  <2>2. CASE Next
    BY <2>1, <2>2, NetworkTypesKept, UsbTableKept DEF UsbInv
  <2>3. CASE UNCHANGED vars
    BY <2>1, <2>3 DEF vars, UsbInv, UsbTableConsistent, NetworkTypes
  <2> QED BY <2>2, <2>3
<1>3. UsbInv => UsbTableConsistent
  BY DEF UsbInv
<1> QED BY <1>1, <1>2, <1>3, PTL DEF Spec

-----------------------------------------------------------------------------
(* The client sessions.                                                    *)

(* An id that clients were told of at some time: no entry is made under it *)
(* again.                                                                  *)
WasListed(id) == id < lastIndex /\ id \notin HeldBack

OnItsWay(id, s) == id = sessions[s].id /\ sessions[s].pc \in {"open", "closed", "killed"}

(* A session knows the id of a device that was listed once it got past the *)
(* lookup, what is in the channel and in the table of kill senders tells   *)
(* the truth about the sessions, and a session asks once.                  *)
SessionsListed ==
  \A s \in Sessions :
    sessions[s].pc \in {"dialing", "open", "killed"} => WasListed(sessions[s].id)

KillsTrue == \A k \in openSockets : OnItsWay(k[1], k[2])

MessagesTrue ==
  \A i \in DOMAIN inbox :
    /\ inbox[i].type = "OpenSocket" => OnItsWay(inbox[i].id, inbox[i].session)
    /\ inbox[i].type = "GetDeviceConnection" =>
         /\ sessions[inbox[i].session].pc = "lookup"
         /\ sessions[inbox[i].session].id = inbox[i].id
         /\ \A j \in DOMAIN inbox :
              inbox[j].type = "GetDeviceConnection" /\ inbox[j].session = inbox[i].session
                => j = i

SessionInv ==
  SessionsListed /\ KillsTrue /\ MessagesTrue /\ NoSpuriousKill /\ OpenSessionsTracked

(* Ids that were listed stay so: the next one and those held back are not. *)
LEMMA ListedKept ==
  ASSUME IndInv, Next
  PROVE  /\ \A id \in Nat : WasListed(id) => WasListed(id)'
         /\ \A id \in DOMAIN devices' : id \in DOMAIN devices \/ ~WasListed(id)
         /\ \A id \in DOMAIN devices : WasListed(id)
<1>0. TypeOK /\ FreshIds /\ DeferredOnce /\ lastIndex \in Nat /\ Ids \subseteq Nat
  BY IdFacts DEF IndInv, TypeOK
<1>1. \A id \in DOMAIN devices : WasListed(id)
  BY <1>0 DEF FreshIds, WasListed
<1> DEFINE Goal == /\ \A id \in Nat : WasListed(id) => WasListed(id)'
                   /\ \A id \in DOMAIN devices' : id \in DOMAIN devices \/ ~WasListed(id)
<1>2. CASE SpawnHeartbeat
  <2>1. /\ lastIndex' = lastIndex + 1 /\ devices' = devices
        /\ DOMAIN tasks' = DOMAIN tasks \cup {lastIndex}
        /\ \A id \in DOMAIN tasks : id # lastIndex => tasks'[id] = tasks[id]
    BY <1>2 DEF SpawnHeartbeat, Put
  <2>2. \A id \in HeldBack' : id \in HeldBack \/ id = lastIndex
    BY <2>1 DEF HeldBack
  <2> QED BY <1>0, <1>1, <2>1, <2>2 DEF WasListed
<1>3. CASE AddNetworkDevice \/ AddUsbDevice
  <2>1. /\ lastIndex' = lastIndex + 1 /\ tasks' = tasks
        /\ DOMAIN devices' = DOMAIN devices \cup {lastIndex}
    BY <1>3 DEF AddNetworkDevice, AddUsbDevice, Put
  <2> QED BY <1>0, <1>1, <2>1 DEF WasListed, HeldBack
<1>4. CASE DeferredMuxerAdd
  <2>1. /\ lastIndex' = lastIndex /\ DOMAIN tasks' = DOMAIN tasks
        /\ \A id \in DOMAIN tasks : id # msg.id => tasks'[id] = tasks[id]
        /\ DOMAIN devices' = DOMAIN devices \cup {msg.id}
    BY <1>4 DEF DeferredMuxerAdd, Put
  <2>2. msg.id \in HeldBack /\ msg.id \in DOMAIN tasks /\ tasks[msg.id] \in Task
    BY <1>0, <1>4, OldestMessage, Tables DEF DeferredMuxerAdd, DeferredOnce, HeldBack
  <2>3. tasks'[msg.id].listed
    BY <1>4, <2>2 DEF DeferredMuxerAdd, Task
  <2>4. HeldBack' \subseteq HeldBack
    BY <2>1, <2>2, <2>3 DEF HeldBack
  <2> QED BY <1>0, <1>1, <2>1, <2>2, <2>4 DEF WasListed
<1>5. CASE \/ HeartbeatFailed \/ \E id \in Ids : RemoveNext(id)
  <2>1. /\ UNCHANGED <<lastIndex, tasks>> /\ DOMAIN devices' \subseteq DOMAIN devices
    BY <1>5 DEF HeartbeatFailed, RemoveNext, DropEntry, Drop, Restrict
  <2> QED BY <1>0, <1>1, <2>1 DEF WasListed, HeldBack
<1>6. CASE \/ IgnoreNetworkDevice \/ ReplaceUsbHandle \/ BeginRemoveDevice
           \/ GetDeviceConnection \/ OpenSocket \/ Subscribe
           \/ (\E id \in Ids : HandleShutDown(id)) \/ ClientStep
  <2>1. UNCHANGED <<lastIndex, tasks, devices>>
    BY <1>6 DEF IgnoreNetworkDevice, ReplaceUsbHandle, BeginRemoveDevice, HandleShutDown,
       GetDeviceConnection, OpenSocket, Subscribe, managerVars,
       ClientStep, MdnsResolved, ClientRemoveDevice, UsbGone, RegisterUsb,
       ClientAddDevice, StartListen, ListenerGone, SessionConnect, SessionDialed,
       SessionDialFails, SessionEnds
  <2> QED BY <1>0, <1>1, <2>1 DEF WasListed, HeldBack
<1>7. CASE HeartbeatStep
  <2>1. PICK x \in DOMAIN tasks, pc \in HbStates :
          UNCHANGED <<lastIndex, devices>> /\ tasks' = [tasks EXCEPT ![x].pc = pc]
    BY <1>7 DEF HeartbeatStep, HeartbeatSetupFails, HeartbeatEstablished, HeartbeatLost,
                HbStates, managerVars
  <2>2. tasks[x] \in Task
    BY <1>0, Tables
  <2>3. HeldBack' = HeldBack
    BY <2>1, <2>2 DEF HeldBack, Task
  <2> QED BY <1>0, <1>1, <2>1, <2>3 DEF WasListed
<1> QED BY <1>1, <1>2, <1>3, <1>4, <1>5, <1>6, <1>7 DEF Next, ManagerStep

(* What a step may do with the session of a message that is not served.    *)
Undisturbed(s) ==
  /\ sessions[s].pc = "lookup" => sessions'[s] = sessions[s]
  /\ sessions[s].pc \in {"open", "closed", "killed"} =>
       /\ sessions'[s].id = sessions[s].id
       /\ sessions'[s].pc \in {"open", "closed", "killed"}

LEMMA MessageSession ==
  ASSUME TypeOK, NEW i \in DOMAIN inbox, inbox[i].type \in {"OpenSocket", "GetDeviceConnection"}
  PROVE  inbox[i].session \in Sessions /\ inbox[i].id \in Nat
<1>1. inbox[i] \in Message
  BY DEF TypeOK
<1> QED BY <1>1, MessageFields

LEMMA MessagesReceive ==
  ASSUME TypeOK, MessagesTrue, NEW t, Receive(t),
         \A s \in Sessions : \/ Undisturbed(s)
                             \/ t = "GetDeviceConnection" /\ s = msg.session
                                  /\ sessions[s].pc = "lookup"
  PROVE  MessagesTrue'
<1> SUFFICES ASSUME NEW i \in DOMAIN inbox'
    PROVE  /\ inbox'[i].type = "OpenSocket" => OnItsWay(inbox[i].id, inbox[i].session)'
           /\ inbox'[i].type = "GetDeviceConnection" =>
                /\ sessions'[inbox'[i].session].pc = "lookup"
                /\ sessions'[inbox'[i].session].id = inbox'[i].id
                /\ \A j \in DOMAIN inbox' :
                     /\ inbox'[j].type = "GetDeviceConnection"
                     /\ inbox'[j].session = inbox'[i].session
                     => j = i
  BY DEF MessagesTrue
<1>1. i + 1 \in DOMAIN inbox /\ inbox'[i] = inbox[i + 1] /\ i + 1 # 1 /\ i \in Nat
  BY StillThere
<1>2. 1 \in DOMAIN inbox /\ msg = inbox[1] /\ msg.type = t
  BY OldestMessage
<1>3. CASE inbox'[i].type = "OpenSocket"
  <2>1. /\ inbox[i + 1].session \in Sessions
        /\ OnItsWay(inbox[i + 1].id, inbox[i + 1].session)
    BY <1>1, <1>3, MessageSession DEF MessagesTrue
  <2>2. sessions[inbox[i + 1].session].pc # "lookup"
    BY <2>1 DEF OnItsWay
  <2> QED BY <1>1, <1>3, <2>1, <2>2 DEF OnItsWay, Undisturbed
<1>4. CASE inbox'[i].type = "GetDeviceConnection"
  <2>1. /\ inbox[i + 1].session \in Sessions
        /\ sessions[inbox[i + 1].session].pc = "lookup"
        /\ sessions[inbox[i + 1].session].id = inbox[i + 1].id
        /\ \A j \in DOMAIN inbox : /\ inbox[j].type = "GetDeviceConnection"
                                   /\ inbox[j].session = inbox[i + 1].session
                                   => j = i + 1
    BY <1>1, <1>4, MessageSession DEF MessagesTrue
  <2>2. ~(t = "GetDeviceConnection" /\ inbox[i + 1].session = msg.session)
    BY <1>1, <1>2, <2>1
  <2>3. sessions'[inbox[i + 1].session] = sessions[inbox[i + 1].session]
    BY <2>1, <2>2 DEF Undisturbed
  <2>4. ASSUME NEW j \in DOMAIN inbox', inbox'[j].type = "GetDeviceConnection",
               inbox'[j].session = inbox'[i].session
        PROVE  j = i
    <3>1. j + 1 \in DOMAIN inbox /\ inbox'[j] = inbox[j + 1] /\ j \in Nat
      BY StillThere
    <3>2. j + 1 = i + 1
      BY <1>1, <2>1, <2>4, <3>1
    <3> QED BY <1>1, <3>1, <3>2
  <2> QED BY <1>1, <1>4, <2>1, <2>3, <2>4
<1> QED BY <1>3, <1>4

LEMMA MessagesSend ==
  ASSUME TypeOK, MessagesTrue, NEW m \in Message, Send(m),
         \A s \in Sessions : Undisturbed(s),
         m.type = "OpenSocket" => OnItsWay(m.id, m.session)',
         m.type = "GetDeviceConnection" =>
           /\ sessions[m.session].pc # "lookup"
           /\ sessions'[m.session].pc = "lookup" /\ sessions'[m.session].id = m.id
  PROVE  MessagesTrue'
<1>0. /\ \A i \in DOMAIN inbox' : \/ i \in DOMAIN inbox /\ inbox'[i] = inbox[i]
                                  \/ i = Len(inbox) + 1 /\ inbox'[i] = m
      /\ Len(inbox) \in Nat /\ DOMAIN inbox = 1..Len(inbox)
  BY AddedOne, Sent
<1> SUFFICES ASSUME NEW i \in DOMAIN inbox'
    PROVE  /\ inbox'[i].type = "OpenSocket" => OnItsWay(inbox[i].id, inbox[i].session)'
           /\ inbox'[i].type = "GetDeviceConnection" =>
                /\ sessions'[inbox'[i].session].pc = "lookup"
                /\ sessions'[inbox'[i].session].id = inbox'[i].id
                /\ \A j \in DOMAIN inbox' :
                     /\ inbox'[j].type = "GetDeviceConnection"
                     /\ inbox'[j].session = inbox'[i].session
                     => j = i
  BY DEF MessagesTrue
<1>1. \A j \in DOMAIN inbox : inbox[j].type = "GetDeviceConnection" =>
        inbox[j].session \in Sessions /\ sessions[inbox[j].session].pc = "lookup"
  BY MessageSession DEF MessagesTrue
<1>2. CASE inbox'[i].type = "OpenSocket"
  <2>1. CASE inbox'[i] = m
    BY <1>2, <2>1 DEF OnItsWay
  <2>2. CASE i \in DOMAIN inbox /\ inbox'[i] = inbox[i]
    <3>1. inbox[i].session \in Sessions /\ OnItsWay(inbox[i].id, inbox[i].session)
      BY <1>2, <2>2, MessageSession DEF MessagesTrue
    <3> QED BY <1>2, <2>2, <3>1 DEF OnItsWay, Undisturbed
  <2> QED BY <1>0, <1>2, <2>1, <2>2
<1>3. CASE inbox'[i].type = "GetDeviceConnection"
  <2>1. CASE i = Len(inbox) + 1 /\ inbox'[i] = m
    BY <1>0, <1>1, <1>3, <2>1
  <2>2. CASE i \in DOMAIN inbox /\ inbox'[i] = inbox[i]
    <3>1. /\ inbox[i].session \in Sessions
          /\ sessions[inbox[i].session].pc = "lookup"
          /\ sessions[inbox[i].session].id = inbox[i].id
          /\ \A j \in DOMAIN inbox : /\ inbox[j].type = "GetDeviceConnection"
                                     /\ inbox[j].session = inbox[i].session
                                     => j = i
      BY <1>3, <2>2, MessageSession DEF MessagesTrue
    <3>2. sessions'[inbox[i].session] = sessions[inbox[i].session]
      BY <3>1 DEF Undisturbed
    <3> QED BY <1>0, <1>3, <2>2, <3>1, <3>2
  <2> QED BY <1>0, <2>1, <2>2
<1> QED BY <1>2, <1>3

LEMMA MessagesSame ==
  ASSUME TypeOK, MessagesTrue, inbox' = inbox, \A s \in Sessions : Undisturbed(s)
  PROVE  MessagesTrue'
<1>1. \A i \in DOMAIN inbox : inbox[i].type \in {"OpenSocket", "GetDeviceConnection"} =>
        inbox[i].session \in Sessions
  BY MessageSession
<1>2. \A i \in DOMAIN inbox : inbox[i].type = "OpenSocket" =>
        OnItsWay(inbox[i].id, inbox[i].session)'
  BY <1>1 DEF MessagesTrue, OnItsWay, Undisturbed
<1>3. \A i \in DOMAIN inbox : inbox[i].type = "GetDeviceConnection" =>
        sessions'[inbox[i].session] = sessions[inbox[i].session]
  BY <1>1 DEF MessagesTrue, Undisturbed
<1> QED BY <1>2, <1>3 DEF MessagesTrue, OnItsWay

(* What a step does to the parts other than the channel's, if it opens no  *)
(* session, kills none but those of a dropped device, and forgets no kill  *)
(* sender but theirs.                                                      *)
LEMMA SessionsKept ==
  ASSUME IndInv, SessionInv, Next,
         \A s \in Sessions :
           \/ sessions'[s] = sessions[s]
           \/ sessions'[s].pc \in {"idle", "lookup", "closed"} /\ sessions[s].pc # "killed"
           \/ sessions'[s].pc = "dialing" /\ sessions'[s].id \in DOMAIN devices
           \/ /\ sessions'[s].pc = "killed" /\ sessions[s].pc = "open"
              /\ sessions'[s].id = sessions[s].id /\ sessions[s].id \notin DOMAIN devices',
         \A k \in openSockets : k \in openSockets' \/ k[1] \notin DOMAIN devices',
         \A i \in DOMAIN inbox : inbox[i].type = "OpenSocket" =>
           \/ \E j \in DOMAIN inbox' : inbox'[j] = inbox[i]
           \/ <<inbox[i].id, inbox[i].session>> \in openSockets'
  PROVE  SessionsListed' /\ NoSpuriousKill' /\ OpenSessionsTracked'
<1>0. TypeOK /\ \A s \in Sessions : sessions[s].id \in Nat
  BY DEF IndInv, TypeOK
<1>1. /\ \A id \in Nat : WasListed(id) => WasListed(id)'
      /\ \A id \in DOMAIN devices' : id \in DOMAIN devices \/ ~WasListed(id)
      /\ \A id \in DOMAIN devices : WasListed(id)
  BY ListedKept
<1>2. \A id \in DOMAIN devices : id \in Nat
  BY <1>0, IdFacts, Tables
<1>3. ASSUME NEW s \in Sessions, sessions'[s].pc \in {"dialing", "open", "killed"}
      PROVE  WasListed(sessions[s].id)'
  BY <1>0, <1>1, <1>2, <1>3 DEF SessionInv, SessionsListed
<1>4. ASSUME NEW s \in Sessions, sessions'[s].pc = "killed"
      PROVE  sessions'[s].id \notin DOMAIN devices'
  BY <1>1, <1>4 DEF SessionInv, SessionsListed, NoSpuriousKill
<1>5. ASSUME NEW s \in Sessions, sessions'[s].pc = "open", sessions'[s].id \in DOMAIN devices'
      PROVE  \/ <<sessions'[s].id, s>> \in openSockets'
             \/ \E i \in DOMAIN inbox' : inbox'[i] = [type |-> "OpenSocket",
                                                      id |-> sessions'[s].id, session |-> s]
  <2>1. sessions'[s] = sessions[s] /\ sessions[s].id \in DOMAIN devices
    BY <1>1, <1>5 DEF SessionInv, SessionsListed
  <2>2. \/ <<sessions[s].id, s>> \in openSockets
        \/ \E i \in DOMAIN inbox : inbox[i] = [type |-> "OpenSocket",
                                               id |-> sessions[s].id, session |-> s]
    BY <1>5, <2>1 DEF SessionInv, OpenSessionsTracked
  <2> QED BY <1>5, <2>1, <2>2
<1> QED BY <1>3, <1>4, <1>5 DEF SessionsListed, NoSpuriousKill, OpenSessionsTracked

(* Messages that stay in the channel. *)
LEMMA MessagesStay ==
  ASSUME TypeOK
  PROVE  /\ inbox' = inbox => \A i \in DOMAIN inbox : \E j \in DOMAIN inbox' : inbox'[j] = inbox[i]
         /\ \A m \in Message : Send(m) =>
              \A i \in DOMAIN inbox : \E j \in DOMAIN inbox' : inbox'[j] = inbox[i]
         /\ \A t : Receive(t) =>
              \A i \in DOMAIN inbox : \/ inbox[i] = msg
                                      \/ \E j \in DOMAIN inbox' : inbox'[j] = inbox[i]
<1>1. ASSUME NEW m \in Message, Send(m), NEW i \in DOMAIN inbox
      PROVE  \E j \in DOMAIN inbox' : inbox'[j] = inbox[i]
  BY <1>1, Sent
<1>2. ASSUME NEW t, Receive(t), NEW i \in DOMAIN inbox, inbox[i] # msg
      PROVE  \E j \in DOMAIN inbox' : inbox'[j] = inbox[i]
  <2>1. /\ Len(inbox) \in Nat /\ DOMAIN inbox = 1..Len(inbox) /\ msg = inbox[1]
        /\ DOMAIN inbox' = 1..(Len(inbox) - 1)
        /\ \A j \in 1..(Len(inbox) - 1) : inbox'[j] = inbox[j + 1]
    BY <1>2, Received
  <2>2. i - 1 \in 1..(Len(inbox) - 1) /\ (i - 1) + 1 = i
    BY <1>2, <2>1
  <2>3. inbox'[i - 1] = inbox[i]
    BY <2>1, <2>2
  <2> QED BY <2>1, <2>2, <2>3
<1> QED BY <1>1, <1>2

(* A step that has nothing to do with sessions. *)
LEMMA SessionsAlone ==
  ASSUME IndInv, SessionInv, Next, UNCHANGED <<sessions, openSockets>>,
         \/ inbox' = inbox
         \/ \E t : Receive(t) /\ t # "OpenSocket"
         \/ \E m \in Message : Send(m) /\ m.type \notin {"OpenSocket", "GetDeviceConnection"}
  PROVE  SessionInv'
<1>0. TypeOK /\ \A s \in Sessions : Undisturbed(s)
  BY DEF IndInv, Undisturbed
<1>1. MessagesTrue'
  BY <1>0, MessagesReceive, MessagesSend, MessagesSame DEF SessionInv
<1>2. \A i \in DOMAIN inbox : inbox[i].type = "OpenSocket" =>
        \E j \in DOMAIN inbox' : inbox'[j] = inbox[i]
  BY <1>0, MessagesStay, OldestMessage
<1>3. SessionsListed' /\ NoSpuriousKill' /\ OpenSessionsTracked'
  BY <1>2, SessionsKept
<1>4. KillsTrue'
  BY DEF SessionInv, KillsTrue, OnItsWay
<1> QED BY <1>1, <1>3, <1>4 DEF SessionInv

(* drop_entry kills the sessions of its device only. *)
LEMMA SessionsDropped ==
  ASSUME IndInv, SessionInv, Next, NEW id, DropEntry(id),
         inbox' = inbox \/ Receive("HeartbeatFailed")
  PROVE  SessionInv'
<1>0. TypeOK /\ KillsTrue /\ MessagesTrue /\ id \notin DOMAIN devices'
  BY Tables, DropFacts DEF IndInv, SessionInv, DropEntry
<1>1. /\ openSockets' = openSockets \ KillsOf(id)
      /\ KillSessions(KillsOf(id))
  BY DEF DropEntry
<1>2. ASSUME NEW s \in Sessions, sessions'[s] # sessions[s]
      PROVE  /\ sessions'[s] = [sessions[s] EXCEPT !.pc = "killed"]
             /\ sessions[s].pc = "open" /\ sessions[s].id = id
  <2>1. PICK k \in KillsOf(id) : k[2] = s /\ sessions[s].pc = "open"
    BY <1>1, <1>2 DEF KillSessions
  <2>2. sessions[s].id = id
    BY <1>0, <2>1 DEF KillsOf, KillsTrue, OnItsWay
  <2> QED BY <1>1, <1>2, <2>1, <2>2 DEF KillSessions
<1>3. ASSUME NEW s \in Sessions
      PROVE  \/ sessions'[s] = sessions[s]
             \/ /\ sessions'[s].pc = "killed" /\ sessions[s].pc = "open"
                /\ sessions'[s].id = sessions[s].id /\ sessions[s].id \notin DOMAIN devices'
  BY <1>0, <1>2 DEF TypeOK
<1>4. \A s \in Sessions : Undisturbed(s)
  BY <1>3 DEF Undisturbed
<1>5. MessagesTrue'
  BY <1>0, <1>4, MessagesReceive, MessagesSame
<1>6. \A i \in DOMAIN inbox : inbox[i].type = "OpenSocket" =>
        \E j \in DOMAIN inbox' : inbox'[j] = inbox[i]
  BY <1>0, MessagesStay, OldestMessage
<1>7. \A k \in openSockets : k \in openSockets' \/ k[1] \notin DOMAIN devices'
  BY <1>0, <1>1 DEF KillsOf
<1>8. SessionsListed' /\ NoSpuriousKill' /\ OpenSessionsTracked'
  BY <1>3, <1>6, <1>7, SessionsKept
<1>9. KillsTrue'
  <2>1. \A k \in openSockets : k[2] \in Sessions
    BY <1>0 DEF TypeOK
  <2> QED BY <1>0, <1>1, <1>4, <2>1 DEF KillsTrue, OnItsWay, Undisturbed
<1> QED BY <1>5, <1>8, <1>9 DEF SessionInv

LEMMA LookupKept ==
  ASSUME IndInv, SessionInv, GetDeviceConnection
  PROVE  SessionInv'
<1> DEFINE s == msg.session
<1>0. /\ TypeOK /\ MessagesTrue /\ Next /\ Receive("GetDeviceConnection")
      /\ openSockets' = openSockets /\ devices' = devices
  BY DEF IndInv, SessionInv, Next, ManagerStep, GetDeviceConnection, managerVars
<1>1. s \in Sessions /\ sessions[s].pc = "lookup" /\ sessions[s].id = msg.id
  BY <1>0, OldestMessage, MessageSession DEF MessagesTrue
<1>2. /\ \A r \in Sessions : r # s => sessions'[r] = sessions[r]
      /\ sessions'[s].id = msg.id
      /\ \/ sessions'[s].pc = "dialing" /\ msg.id \in DOMAIN devices
         \/ sessions'[s].pc = "idle"
  BY <1>0, <1>1 DEF GetDeviceConnection, TypeOK
<1>3. MessagesTrue'
  BY <1>0, <1>1, <1>2, MessagesReceive DEF Undisturbed
<1>4. \A i \in DOMAIN inbox : inbox[i].type = "OpenSocket" =>
        \E j \in DOMAIN inbox' : inbox'[j] = inbox[i]
  BY <1>0, MessagesStay, OldestMessage
<1>5. SessionsListed' /\ NoSpuriousKill' /\ OpenSessionsTracked'
  BY <1>0, <1>1, <1>2, <1>4, SessionsKept
<1>6. KillsTrue'
  BY <1>0, <1>1, <1>2 DEF KillsTrue, OnItsWay, SessionInv, TypeOK
<1> QED BY <1>3, <1>5, <1>6 DEF SessionInv

LEMMA OpenSocketKept ==
  ASSUME IndInv, SessionInv, OpenSocket
  PROVE  SessionInv'
<1>0. /\ TypeOK /\ MessagesTrue /\ Next /\ Receive("OpenSocket")
      /\ sessions' = sessions /\ openSockets' = openSockets \cup {<<msg.id, msg.session>>}
  BY DEF IndInv, SessionInv, Next, ManagerStep, OpenSocket, clientVars
<1>1. OnItsWay(msg.id, msg.session)
  BY <1>0, OldestMessage DEF MessagesTrue
<1>2. MessagesTrue'
  BY <1>0, MessagesReceive DEF Undisturbed
<1>3. KillsTrue'
  BY <1>0, <1>1 DEF SessionInv, KillsTrue, OnItsWay
<1>4. \A i \in DOMAIN inbox : inbox[i].type = "OpenSocket" =>
        \/ \E j \in DOMAIN inbox' : inbox'[j] = inbox[i]
        \/ <<inbox[i].id, inbox[i].session>> \in openSockets'
  BY <1>0, MessagesStay
<1>5. SessionsListed' /\ NoSpuriousKill' /\ OpenSessionsTracked'
  BY <1>0, <1>4, SessionsKept
<1> QED BY <1>2, <1>3, <1>5 DEF SessionInv

(* A session asks for a device, or for another one after a failure. *)
LEMMA ConnectKept ==
  ASSUME IndInv, SessionInv, NEW s \in Sessions, NEW id \in FirstId..lastIndex,
         SessionConnect(s, id)
  PROVE  SessionInv'
<1> DEFINE m == [type |-> "GetDeviceConnection", id |-> id, session |-> s]
<1>0. /\ TypeOK /\ KillsTrue /\ MessagesTrue /\ Next /\ Send(m) /\ openSockets' = openSockets
      /\ devices' = devices
  BY DEF IndInv, SessionInv, Next, ClientStep, SessionConnect, managerVars
<1>1. m \in Message
  <2>1. id \in Nat
    BY <1>0, IdFacts DEF TypeOK
  <2> QED BY <2>1, Messages
<1>2. /\ sessions[s].pc = "idle" /\ sessions'[s] = [pc |-> "lookup", id |-> id]
      /\ \A r \in Sessions : r # s => sessions'[r] = sessions[r]
  BY <1>0 DEF SessionConnect, TypeOK
<1>3. \A r \in Sessions : Undisturbed(r)
  BY <1>2 DEF Undisturbed
<1>4. MessagesTrue'
  BY <1>0, <1>1, <1>2, <1>3, MessagesSend
<1>5. SessionsListed' /\ NoSpuriousKill' /\ OpenSessionsTracked'
  BY <1>0, <1>1, <1>2, MessagesStay, SessionsKept
<1>6. KillsTrue'
  BY <1>0, <1>2 DEF KillsTrue, OnItsWay, TypeOK
<1> QED BY <1>4, <1>5, <1>6 DEF SessionInv

(* The device answered; the kill sender is on its way. *)
LEMMA DialedKept ==
  ASSUME IndInv, SessionInv, NEW s \in Sessions, SessionDialed(s)
  PROVE  SessionInv'
<1> DEFINE m == [type |-> "OpenSocket", id |-> sessions[s].id, session |-> s]
<1>0. /\ TypeOK /\ SessionInv /\ Next /\ Send(m)
      /\ UNCHANGED <<openSockets, devices, lastIndex, tasks>>
  BY DEF IndInv, Next, ClientStep, SessionDialed, managerVars
<1>1. m \in Message
  <2>1. sessions[s].id \in Nat
    BY <1>0 DEF TypeOK
  <2> QED BY <2>1, Messages
<1>2. /\ sessions[s].pc = "dialing" /\ sessions'[s].pc = "open"
      /\ sessions'[s].id = sessions[s].id
      /\ \A r \in Sessions : r # s => sessions'[r] = sessions[r]
  BY <1>0 DEF SessionDialed, TypeOK
<1>3. \A r \in Sessions : Undisturbed(r)
  BY <1>2 DEF Undisturbed
<1>4. MessagesTrue'
  BY <1>0, <1>1, <1>2, <1>3, MessagesSend DEF OnItsWay, SessionInv
<1>5. SessionsListed' /\ NoSpuriousKill'
  BY <1>0, <1>2 DEF SessionInv, SessionsListed, NoSpuriousKill, WasListed, HeldBack
<1>6. KillsTrue'
  BY <1>0, <1>2 DEF SessionInv, KillsTrue, OnItsWay, TypeOK
<1>7. \E i \in DOMAIN inbox' : inbox'[i] = [type |-> "OpenSocket", id |-> sessions'[s].id,
                                             session |-> s]
  BY <1>0, <1>1, <1>2, Sent
<1>8. \A i \in DOMAIN inbox : \E j \in DOMAIN inbox' : inbox'[j] = inbox[i]
  BY <1>0, <1>1, MessagesStay
<1>9. OpenSessionsTracked'
  BY <1>0, <1>2, <1>7, <1>8 DEF SessionInv, OpenSessionsTracked
<1> QED BY <1>4, <1>5, <1>6, <1>9 DEF SessionInv

LEMMA EndKept ==
  ASSUME IndInv, SessionInv, NEW s \in Sessions, SessionDialFails(s) \/ SessionEnds(s)
  PROVE  SessionInv'
<1>0. /\ TypeOK /\ SessionInv /\ Next /\ UNCHANGED <<inbox, openSockets, devices>>
  BY DEF IndInv, Next, ClientStep, SessionDialFails, SessionEnds, managerVars
<1>1. /\ sessions'[s].id = sessions[s].id
      /\ \/ sessions[s].pc = "dialing" /\ sessions'[s].pc = "idle"
         \/ sessions[s].pc \in {"dialing", "open"} /\ sessions'[s].pc = "closed"
      /\ \A r \in Sessions : r # s => sessions'[r] = sessions[r]
  BY <1>0 DEF SessionDialFails, SessionEnds, TypeOK
<1>2. \A r \in Sessions : Undisturbed(r)
  BY <1>1 DEF Undisturbed
<1>3. MessagesTrue'
  BY <1>0, <1>2, MessagesSame DEF SessionInv
<1>4. SessionsListed' /\ NoSpuriousKill' /\ OpenSessionsTracked'
  BY <1>0, <1>1, SessionsKept
<1>5. KillsTrue'
  BY <1>0, <1>1 DEF SessionInv, KillsTrue, OnItsWay, TypeOK
<1> QED BY <1>3, <1>4, <1>5 DEF SessionInv

LEMMA SessionInvKept == IndInv /\ SessionInv /\ [Next]_vars => SessionInv'
<1> SUFFICES ASSUME IndInv, SessionInv, [Next]_vars PROVE SessionInv'
  OBVIOUS
<1>0. TypeOK
  BY DEF IndInv
<1>1. CASE \/ IgnoreNetworkDevice \/ SpawnHeartbeat \/ AddNetworkDevice \/ ReplaceUsbHandle
           \/ AddUsbDevice \/ DeferredMuxerAdd \/ BeginRemoveDevice \/ Subscribe
  <2>1. Next
    BY <1>1 DEF Next, ManagerStep
  <2>2. UNCHANGED <<sessions, openSockets>>
    BY <1>1 DEF IgnoreNetworkDevice, SpawnHeartbeat, AddNetworkDevice, ReplaceUsbHandle,
       AddUsbDevice, DeferredMuxerAdd, BeginRemoveDevice, Subscribe, managerVars, clientVars
  <2>3. \E t \in {"DiscoveredNetworkDevice", "DiscoveredUsbDevice", "DeferredMuxerAdd",
                  "RemoveDevice", "Subscribe"} : Receive(t)
    BY <1>1 DEF IgnoreNetworkDevice, SpawnHeartbeat, AddNetworkDevice, ReplaceUsbHandle,
       AddUsbDevice, DeferredMuxerAdd, BeginRemoveDevice, Subscribe
  <2> QED BY <2>1, <2>2, <2>3, SessionsAlone
<1>2. CASE HeartbeatFailed
  <2>1. CASE UNCHANGED <<openSockets, sessions>>
    BY <1>2, <2>1, SessionsAlone DEF HeartbeatFailed, Next, ManagerStep
  <2>2. CASE \E id \in FindDevice(msg.udid, "Network") : DropEntry(id)
    BY <1>2, <2>2, SessionsDropped DEF HeartbeatFailed, Next, ManagerStep
  <2> QED BY <1>2, <2>1, <2>2 DEF HeartbeatFailed
<1>3. ASSUME NEW id \in Ids, RemoveNext(id) PROVE SessionInv'
  BY <1>3, SessionsDropped DEF RemoveNext, Next, ManagerStep
<1>4. ASSUME NEW id \in Ids, HandleShutDown(id) PROVE SessionInv'
  BY <1>4, SessionsAlone DEF HandleShutDown, Next, ManagerStep, clientVars
<1>5. CASE GetDeviceConnection \/ OpenSocket
  BY <1>5, LookupKept, OpenSocketKept
<1>6. CASE HeartbeatStep
  <2>1. UNCHANGED <<sessions, openSockets>> /\ Next
    BY <1>6 DEF HeartbeatStep, HeartbeatSetupFails, HeartbeatEstablished, HeartbeatLost,
                Next, managerVars, clientVars
  <2>2. \/ inbox' = inbox
        \/ \E m \in Message : Send(m) /\ m.type \notin {"OpenSocket", "GetDeviceConnection"}
    <3>1. ASSUME NEW id \in Ids, HeartbeatEstablished(id)
          PROVE  \E m \in Message : Send(m) /\ m.type \notin {"OpenSocket", "GetDeviceConnection"}
      BY <3>1, Messages DEF HeartbeatEstablished
    <3>2. ASSUME NEW id \in Ids, HeartbeatLost(id)
          PROVE  \E m \in Message : Send(m) /\ m.type \notin {"OpenSocket", "GetDeviceConnection"}
      <4>1. tasks[id].udid \in Udids
        BY <1>0, <3>2, Tables DEF HeartbeatLost, Task
      <4> QED BY <3>2, <4>1, Messages DEF HeartbeatLost
    <3> QED BY <1>6, <3>1, <3>2 DEF HeartbeatStep, HeartbeatSetupFails
  <2> QED BY <2>1, <2>2, SessionsAlone
<1>7. ASSUME NEW u \in Udids,
             \/ MdnsResolved(u) \/ ClientRemoveDevice(u) \/ UsbGone(u)
             \/ \E h \in Handles : RegisterUsb(u, h)
             \/ \E a \in Adders, ct \in AddTypes : ClientAddDevice(a, u, ct)
      PROVE  SessionInv'
  <2>1. Next
    BY <1>7 DEF Next, ClientStep
  <2>2. UNCHANGED <<sessions, openSockets>>
    BY <1>7 DEF MdnsResolved, ClientRemoveDevice, UsbGone, RegisterUsb, ClientAddDevice,
                managerVars, clientVars
  <2> DEFINE Other(m) == Send(m) /\ m.type \notin {"OpenSocket", "GetDeviceConnection"}
  <2>3. CASE MdnsResolved(u) \/ ClientRemoveDevice(u) \/ UsbGone(u)
    <3>1. \E m \in Message : Other(m)
      BY <2>3, Messages DEF MdnsResolved, ClientRemoveDevice, UsbGone, SendDiscovery, Types
    <3> QED BY <2>1, <2>2, <3>1, SessionsAlone
  <2>4. ASSUME NEW h \in Handles, RegisterUsb(u, h) PROVE \E m \in Message : Other(m)
    BY <2>4, Messages DEF RegisterUsb, SendDiscovery
  <2>5. ASSUME NEW a \in Adders, NEW ct \in AddTypes, ClientAddDevice(a, u, ct)
        PROVE  \E m \in Message : Other(m)
    BY <2>5, Messages DEF ClientAddDevice, SendDiscovery, Types
  <2> QED BY <1>7, <2>1, <2>2, <2>3, <2>4, <2>5, SessionsAlone
<1>8. ASSUME NEW l \in Listeners, StartListen(l) \/ ListenerGone(l) PROVE SessionInv'
  <2>1. UNCHANGED <<sessions, openSockets>> /\ Next
    BY <1>8 DEF StartListen, ListenerGone, Next, ClientStep, managerVars
  <2>2. \/ inbox' = inbox
        \/ \E m \in Message : Send(m) /\ m.type \notin {"OpenSocket", "GetDeviceConnection"}
    BY <1>8, Messages DEF StartListen, ListenerGone
  <2> QED BY <2>1, <2>2, SessionsAlone
<1>9. CASE ClientStep
  BY <1>7, <1>8, <1>9, ConnectKept, DialedKept, EndKept DEF ClientStep
<1>10. CASE UNCHANGED vars
  BY <1>10 DEF vars, SessionInv, SessionsListed, KillsTrue, MessagesTrue, NoSpuriousKill,
               OpenSessionsTracked, OnItsWay, WasListed, HeldBack
<1> QED BY <1>1, <1>2, <1>3, <1>4, <1>5, <1>6, <1>9, <1>10 DEF Next, ManagerStep

(* Both invariants together: SessionInv is inductive relative to IndInv.   *)
LEMMA SessionInvHolds == Spec => [](IndInv /\ SessionInv)
<1>1. Init => IndInv /\ SessionInv
  BY InitIndInv DEF Init, SessionInv, SessionsListed, KillsTrue, MessagesTrue,
                    NoSpuriousKill, OpenSessionsTracked
<1>2. IndInv /\ SessionInv /\ [Next]_vars => IndInv' /\ SessionInv'
  BY NextIndInv, SessionInvKept
<1> QED BY <1>1, <1>2, PTL DEF Spec

(* A session is killed only when its own device is gone, whatever lookups, *)
(* dials, removals and failures overlap (manager.rs:300-348).              *)
THEOREM KillsFollowRemovals == Spec => []NoSpuriousKill
<1>1. SessionInv => NoSpuriousKill
  BY DEF SessionInv
<1> QED BY <1>1, SessionInvHolds, PTL

(* A session that is open can be killed as long as its device is listed: a *)
(* device that is removed never leaves one behind (manager.rs:328-348).    *)
THEOREM SessionsFollowDevices == Spec => []OpenSessionsTracked
<1>1. SessionInv => OpenSessionsTracked
  BY DEF SessionInv
<1> QED BY <1>1, SessionInvHolds, PTL
-----------------------------------------------------------------------------
(* The manager implements DeviceEvents, and so keeps its promises.         *)

Present == DOMAIN devices \cup detaching
Announced == {id \in Ids : id < lastIndex} \ HeldBack

(* The theorems of the abstract specification, about the manager's state. *)
Proved == INSTANCE DeviceEvents_proof
            WITH present <- Present, announced <- Announced,
                 subscribed <- Subscribed

(* A step that tells the listeners nothing and moves no device. *)
LEMMA Silent ==
  ASSUME Present' = Present, Announced' = Announced, Subscribed' = Subscribed,
         log' = log
  PROVE  UNCHANGED Events!vars
BY DEF Events!vars, Present, Announced

(* The only steps that change what is announced are those that add a task, *)
(* and those that take an id out of its task.                              *)
LEMMA SameTasks ==
  ASSUME UNCHANGED <<tasks, lastIndex>>
  PROVE  HeldBack' = HeldBack /\ Announced' = Announced
BY DEF HeldBack, Announced

LEMMA Announces ==
  ASSUME IndInv, NEW id \in Ids, id \notin Announced,
         Present' = Present \cup {id}, Announced' = Announced \cup {id},
         Broadcast(Attached(id)), sockets' = sockets
  PROVE  Events!Next
<1>1. /\ Subscribed' = Subscribed
      /\ log' = [l \in Listeners |-> IF l \in Subscribed
                   THEN Append(log[l], Attached(id)) ELSE log[l]]
  BY BroadcastReaches DEF IndInv
<1>2. Events!Announce(id)
  BY <1>1 DEF Events!Announce, Events!Publish, Events!Attached, Attached, Present, Announced
<1> QED BY <1>2 DEF Events!Next

LEMMA Withdraws ==
  ASSUME IndInv, NEW id \in Ids, id \in Present,
         Present' = Present \ {id}, Announced' = Announced,
         Broadcast(Detached(id)), sockets' = sockets
  PROVE  Events!Next
<1>1. /\ Subscribed' = Subscribed
      /\ log' = [l \in Listeners |-> IF l \in Subscribed
                   THEN Append(log[l], Detached(id)) ELSE log[l]]
  BY BroadcastReaches DEF IndInv
<1>2. Events!Withdraw(id)
  BY <1>1 DEF Events!Withdraw, Events!Publish, Events!Detached, Detached, Present, Announced
<1> QED BY <1>2 DEF Events!Next

(* The manager's next id was never announced and no task holds it. *)
LEMMA NextIdFresh ==
  ASSUME IndInv, IdsLeft
  PROVE  /\ lastIndex \in Ids /\ lastIndex \notin Announced
         /\ lastIndex \notin HeldBack /\ lastIndex \notin Present
         /\ Ids \subseteq Nat /\ lastIndex \in Nat
<1>1. lastIndex \in Ids /\ Ids \subseteq Nat /\ lastIndex \in Nat
  BY IdFacts DEF IndInv, TypeOK, IdsLeft
<1>2. ~(lastIndex < lastIndex)
  BY <1>1
<1> QED BY <1>1, <1>2 DEF IndInv, FreshIds, HeldBack, Announced, Present

LEMMA AddStepRefines ==
  ASSUME IndInv, AddNetworkDevice \/ AddUsbDevice
  PROVE  Events!Next
<1>1. /\ IdsLeft /\ lastIndex' = lastIndex + 1
      /\ UNCHANGED <<detaching, tasks, sockets>>
      /\ DOMAIN devices' = DOMAIN devices \cup {lastIndex}
      /\ Broadcast(Attached(lastIndex))
  BY DEF AddNetworkDevice, AddUsbDevice, Put, clientVars
<1>2. HeldBack' = HeldBack
  BY <1>1 DEF HeldBack
<1>3. Present' = Present \cup {lastIndex}
  BY <1>1 DEF Present
<1>4. Announced' = Announced \cup {lastIndex}
  BY <1>1, <1>2, NextIdFresh DEF Announced
<1> QED BY <1>1, <1>3, <1>4, NextIdFresh, Announces

LEMMA SpawnRefines ==
  ASSUME IndInv, SpawnHeartbeat
  PROVE  UNCHANGED Events!vars
<1>1. /\ IdsLeft /\ lastIndex' = lastIndex + 1
      /\ UNCHANGED <<devices, detaching, listeners, sockets, log>>
      /\ \E t : t.listed = FALSE /\ tasks' = Put(tasks, lastIndex, t)
  BY DEF SpawnHeartbeat, clientVars
<1>2. HeldBack' = HeldBack \cup {lastIndex}
  BY <1>1, NextIdFresh DEF Put, HeldBack
<1>3. Announced' = Announced
  BY <1>1, <1>2, NextIdFresh DEF Announced
<1>4. Present' = Present /\ Subscribed' = Subscribed
  BY <1>1 DEF Present, Subscribed
<1> QED BY <1>1, <1>3, <1>4, Silent

LEMMA DeferredRefines ==
  ASSUME IndInv, DeferredMuxerAdd
  PROVE  Events!Next
<1>1. /\ UNCHANGED <<detaching, lastIndex, sockets>>
      /\ Receive("DeferredMuxerAdd")
      /\ DOMAIN devices' = DOMAIN devices \cup {msg.id}
      /\ Broadcast(Attached(msg.id))
      /\ tasks' = [tasks EXCEPT ![msg.id].listed = TRUE]
  BY DEF DeferredMuxerAdd, Put
<1>2. msg.id \in HeldBack /\ msg.id \in DOMAIN tasks
  BY <1>1, Received DEF IndInv, DeferredOnce, HeldBack
<1>3. tasks[msg.id] \in Task /\ msg.id \in Ids /\ msg.id < lastIndex
  BY <1>2, Tables DEF IndInv, FreshIds
<1>4. HeldBack' = HeldBack \ {msg.id}
  <2>1. /\ DOMAIN tasks' = DOMAIN tasks /\ tasks'[msg.id].listed
        /\ \A id \in DOMAIN tasks : id # msg.id => tasks'[id] = tasks[id]
    BY <1>1, <1>2, <1>3 DEF Task
  <2> QED BY <2>1 DEF HeldBack
<1>5. msg.id \notin Announced /\ Announced' = Announced \cup {msg.id}
  BY <1>1, <1>2, <1>3, <1>4 DEF Announced
<1>6. Present' = Present \cup {msg.id}
  BY <1>1 DEF Present
<1> QED BY <1>1, <1>3, <1>5, <1>6, Announces

LEMMA RemoveRefines ==
  ASSUME IndInv, NEW id \in Ids, RemoveNext(id)
  PROVE  [Events!Next]_(Events!vars)
<1>1. /\ id \in DOMAIN devices /\ detaching = {}
      /\ DOMAIN devices' = DOMAIN devices \ {id}
      /\ UNCHANGED <<lastIndex, tasks, sockets>>
  BY DEF RemoveNext, IndInv, RemovalInProgress, DropEntry, Drop, Restrict
<1>2. Announced' = Announced
  BY <1>1, SameTasks
<1>3. CASE Broadcast(Detached(id)) /\ UNCHANGED detaching
  <2>1. id \in Present /\ Present' = Present \ {id}
    BY <1>1, <1>3 DEF Present
  <2> QED BY <1>1, <1>2, <1>3, <2>1, Withdraws
<1>4. CASE detaching' = {id} /\ UNCHANGED <<listeners, log>>
  <2>1. Present' = Present /\ Subscribed' = Subscribed
    BY <1>1, <1>4 DEF Present, Subscribed
  <2> QED BY <1>2, <1>4, <2>1, Silent
<1> QED BY <1>3, <1>4 DEF RemoveNext

LEMMA ShutDownRefines ==
  ASSUME IndInv, NEW id \in Ids, HandleShutDown(id)
  PROVE  Events!Next
<1>1. /\ id \in detaching /\ detaching' = {} /\ Broadcast(Detached(id))
      /\ UNCHANGED <<devices, lastIndex, tasks, sockets>>
  BY DEF HandleShutDown, clientVars
<1>2. id \in Present /\ Present' = Present \ {id}
  BY <1>1 DEF Present, IndInv, RemovalInProgress
<1> QED BY <1>1, <1>2, SameTasks, Withdraws

LEMMA FailureRefines ==
  ASSUME IndInv, HeartbeatFailed
  PROVE  [Events!Next]_(Events!vars)
<1>1. UNCHANGED <<lastIndex, detaching, tasks, sockets>> /\ Announced' = Announced
  BY SameTasks DEF HeartbeatFailed
<1>2. CASE UNCHANGED <<devices, listeners, log>>
  <2>1. Present' = Present /\ Subscribed' = Subscribed
    BY <1>1, <1>2 DEF Present, Subscribed
  <2> QED BY <1>1, <1>2, <2>1, Silent
<1>3. ASSUME NEW id \in FindDevice(msg.udid, "Network"), DropEntry(id),
             Broadcast(Detached(id))
      PROVE  Events!Next
  <2>1. id \in DOMAIN devices /\ id \in Ids
    BY Tables DEF FindDevice, IndInv
  <2>2. detaching = {}
    BY DEF HeartbeatFailed, Receive
  <2>3. id \in Present /\ Present' = Present \ {id}
    BY <1>1, <1>3, <2>1, <2>2 DEF Present, DropEntry, Drop, Restrict
  <2> QED BY <1>1, <1>3, <2>1, <2>3, Withdraws
<1> QED BY <1>2, <1>3 DEF HeartbeatFailed

LEMMA SubscribeRefines ==
  ASSUME IndInv, Subscribe
  PROVE  [Events!Next]_(Events!vars)
<1> DEFINE l == msg.listener
           S == DOMAIN devices
<1>1. /\ UNCHANGED <<devices, lastIndex, detaching, tasks, sockets>>
      /\ Receive("Subscribe")
  BY DEF Subscribe, clientVars
<1>2. l \in Listeners /\ l \notin listeners /\ log[l] = <<>>
  <2>1. msg \in Message /\ msg.type = "Subscribe" /\ 1 \in DOMAIN inbox /\ msg = inbox[1]
    BY <1>1, Received DEF IndInv
  <2> QED BY <2>1, MessageFields DEF IndInv, ListenOnce
<1>3. Present = S /\ Present' = Present /\ Announced' = Announced
  BY <1>1, SameTasks DEF Present, Receive
<1>4. ASSUME sockets[l] = "open", listeners' = listeners \cup {l},
             NEW order \in Bijection(1..Cardinality(S), S),
             log' = [log EXCEPT ![l] = [i \in 1..Cardinality(S) |-> Attached(order[i])]]
      PROVE  Events!Join(l)
  <2>1. l \notin Subscribed /\ Subscribed' = Subscribed \cup {l}
    BY <1>1, <1>2, <1>4 DEF Subscribed
  <2>2. [i \in 1..Cardinality(S) |-> Attached(order[i])] \in Events!Snapshots(S)
    <3>1. Events!Cardinality(S) = Cardinality(S)
      BY Zenon DEF Events!Cardinality, Cardinality
    <3>2. Events!Bijection(1..Cardinality(S), S) = Bijection(1..Cardinality(S), S)
      BY Zenon DEF Events!Bijection, Bijection, Events!Injection, Injection, Events!Surjection, Surjection,
         Events!IsInjective, IsInjective
    <3> QED BY <1>4, <3>1, <3>2 DEF Events!Snapshots, Events!Attached, Attached
  <2> QED BY <1>2, <1>3, <1>4, <2>1, <2>2 DEF Events!Join, Present, Announced
<1>5. CASE sockets[l] = "closed" /\ listeners' \subseteq listeners \cup {l}
             /\ listeners \subseteq listeners' /\ log' = log
  <2>1. Subscribed' = Subscribed
    BY <1>1, <1>5 DEF Subscribed
  <2> QED BY <1>3, <1>5, <2>1, Silent
<1> QED BY <1>2, <1>4, <1>5 DEF Subscribe, Events!Next

LEMMA ManagerRefines ==
  ASSUME IndInv, ManagerStep
  PROVE  [Events!Next]_(Events!vars)
<1>1. CASE IgnoreNetworkDevice \/ ReplaceUsbHandle \/ BeginRemoveDevice
             \/ GetDeviceConnection \/ OpenSocket
  <2>1. UNCHANGED <<devices, lastIndex, detaching, tasks, listeners, sockets, log>>
    BY <1>1 DEF IgnoreNetworkDevice, ReplaceUsbHandle, BeginRemoveDevice,
                GetDeviceConnection, OpenSocket, managerVars, clientVars
  <2>2. Present' = Present /\ Subscribed' = Subscribed /\ Announced' = Announced
    BY <2>1, SameTasks DEF Present, Subscribed
  <2> QED BY <2>1, <2>2, Silent
<1> QED BY <1>1, AddStepRefines, SpawnRefines, DeferredRefines, RemoveRefines,
           ShutDownRefines, FailureRefines, SubscribeRefines DEF ManagerStep

(* A heartbeat task changes its own state and what it writes to the        *)
(* channel; what it holds back stays held back.                            *)
LEMMA TaskRefines ==
  ASSUME IndInv, HeartbeatStep
  PROVE  UNCHANGED Events!vars
<1>1. PICK id \in DOMAIN tasks, pc \in HbStates :
        /\ tasks' = [tasks EXCEPT ![id].pc = pc]
        /\ UNCHANGED <<devices, lastIndex, detaching, listeners, sockets, log>>
  BY DEF HeartbeatStep, HeartbeatSetupFails, HeartbeatEstablished, HeartbeatLost,
         HbStates, managerVars, clientVars
<1>2. tasks[id] \in Task
  BY Tables DEF IndInv
<1>3. HeldBack' = HeldBack
  <2>1. /\ DOMAIN tasks' = DOMAIN tasks /\ tasks'[id].listed = tasks[id].listed
        /\ \A x \in DOMAIN tasks : x # id => tasks'[x] = tasks[x]
    BY <1>1, <1>2 DEF Task
  <2> QED BY <2>1 DEF HeldBack
<1>4. Present' = Present /\ Subscribed' = Subscribed /\ Announced' = Announced
  BY <1>1, <1>3 DEF Present, Subscribed, Announced
<1> QED BY <1>1, <1>4, Silent

LEMMA ClientRefines ==
  ASSUME IndInv, ClientStep
  PROVE  [Events!Next]_(Events!vars)
<1> DEFINE Same == UNCHANGED <<devices, lastIndex, detaching, tasks, listeners, log>>
<1>1. Same => Present' = Present /\ Announced' = Announced
  BY SameTasks DEF Present
<1>2. ASSUME Same, Subscribed' = Subscribed PROVE UNCHANGED Events!vars
  BY <1>1, <1>2, Silent
<1>3. ASSUME Same, sockets' = sockets PROVE UNCHANGED Events!vars
  BY <1>2, <1>3 DEF Subscribed
<1>4. ASSUME NEW l \in Listeners, StartListen(l) PROVE UNCHANGED Events!vars
  <2>1. Same /\ sockets[l] = "idle" /\ sockets' = [sockets EXCEPT ![l] = "open"]
    BY <1>4 DEF StartListen, managerVars
  <2>2. l \notin listeners /\ sockets \in [Listeners -> {"idle", "open", "closed"}]
    BY <2>1 DEF IndInv, ListenOnce, TypeOK
  <2>3. Subscribed' = Subscribed
    BY <2>1, <2>2 DEF Subscribed, IndInv, TypeOK
  <2> QED BY <1>2, <2>1, <2>3
<1>5. ASSUME NEW l \in Listeners, ListenerGone(l) PROVE [Events!Next]_(Events!vars)
  <2>1. Same /\ sockets[l] = "open" /\ sockets' = [sockets EXCEPT ![l] = "closed"]
    BY <1>5 DEF ListenerGone, managerVars
  <2>2. Subscribed' = Subscribed \ {l}
    BY <2>1 DEF Subscribed, IndInv, TypeOK
  <2>3. CASE l \in Subscribed
    <3>1. Events!Leave(l)
      BY <1>1, <2>1, <2>2, <2>3 DEF Events!Leave, Present, Announced
    <3> QED BY <3>1 DEF Events!Next
  <2>4. CASE l \notin Subscribed
    BY <1>2, <2>1, <2>2, <2>4
  <2> QED BY <2>3, <2>4
<1>6. CASE \E u \in Udids :
             \/ MdnsResolved(u) \/ ClientRemoveDevice(u) \/ UsbGone(u)
             \/ \E h \in Handles : RegisterUsb(u, h)
             \/ \E a \in Adders, ct \in AddTypes : ClientAddDevice(a, u, ct)
  <2>1. Same /\ sockets' = sockets
    BY <1>6 DEF MdnsResolved, ClientRemoveDevice, UsbGone, RegisterUsb, ClientAddDevice,
                managerVars, clientVars
  <2> QED BY <1>3, <2>1
<1>7. CASE \E s \in Sessions :
             \/ \E id \in FirstId..lastIndex : SessionConnect(s, id)
             \/ SessionDialed(s) \/ SessionDialFails(s) \/ SessionEnds(s)
  <2>1. Same /\ sockets' = sockets
    BY <1>7 DEF SessionConnect, SessionDialed, SessionDialFails, SessionEnds, managerVars
  <2> QED BY <1>3, <2>1
<1> QED BY <1>4, <1>5, <1>6, <1>7 DEF ClientStep

LEMMA StepRefines == IndInv /\ [Next]_vars => [Events!Next]_(Events!vars)
<1> SUFFICES ASSUME IndInv, [Next]_vars PROVE [Events!Next]_(Events!vars)
  OBVIOUS
<1>1. CASE UNCHANGED vars
  <2>1. UNCHANGED <<devices, lastIndex, detaching, tasks, listeners, sockets, log>>
    BY <1>1 DEF vars
  <2>2. Present' = Present /\ Subscribed' = Subscribed /\ Announced' = Announced
    BY <2>1, SameTasks DEF Present, Subscribed
  <2> QED BY <2>1, <2>2, Silent
<1> QED BY <1>1, ManagerRefines, TaskRefines, ClientRefines DEF Next

LEMMA InitRefines == Init => Events!Init
<1> SUFFICES ASSUME Init PROVE Events!Init
  OBVIOUS
<1>1. {id \in Ids : id < lastIndex} = {}
  BY FirstIdAssumption, BoundsAssumption DEF Init, Ids
<1> QED BY <1>1 DEF Init, Events!Init, Subscribed

(* Manager implements DeviceEvents: whatever the clients, the heartbeat    *)
(* tasks and the removals do, the listeners are sent one coherent stream.  *)
THEOREM ManagerImplementsDeviceEvents == Spec => ImplementsDeviceEvents
<1>1. Init => IndInv
  BY InitIndInv
<1>2. IndInv /\ [Next]_vars => IndInv'
  BY NextIndInv
<1> QED BY <1>1, <1>2, InitRefines, StepRefines, PTL
        DEF Spec, ImplementsDeviceEvents, Events!Spec

-----------------------------------------------------------------------------
(* The instance of the proved specification is the instance Manager names. *)
LEMMA SameSnapshots ==
  ASSUME NEW S
  PROVE  Events!Snapshots(S) = Proved!Snapshots(S)
<1>1. Events!Cardinality(S) = Proved!Cardinality(S)
  BY Zenon DEF Events!Cardinality, Proved!Cardinality
<1>2. \A n : Events!Bijection(1..n, S) = Proved!Bijection(1..n, S)
  BY Zenon DEF Events!Bijection, Proved!Bijection, Events!Injection, Proved!Injection,
     Events!Surjection, Proved!Surjection, Events!IsInjective, Proved!IsInjective
<1> QED BY <1>1, <1>2 DEF Events!Snapshots, Proved!Snapshots, Events!Attached, Proved!Attached

LEMMA SameStep == [Events!Next]_(Events!vars) => [Proved!Next]_(Proved!vars)
<1> USE DEF Present, Announced
<1>1. ASSUME NEW id \in Ids, Events!Announce(id) PROVE Proved!Announce(id)
  BY <1>1 DEF Events!Announce, Proved!Announce, Events!Publish, Proved!Publish,
              Events!Attached, Proved!Attached
<1>2. ASSUME NEW id \in Ids, Events!Withdraw(id) PROVE Proved!Withdraw(id)
  BY <1>2 DEF Events!Withdraw, Proved!Withdraw, Events!Publish, Proved!Publish,
              Events!Detached, Proved!Detached
<1>3. ASSUME NEW l \in Listeners, Events!Join(l) PROVE Proved!Join(l)
  BY <1>3, SameSnapshots DEF Events!Join, Proved!Join
<1>4. ASSUME NEW l \in Listeners, Events!Leave(l) PROVE Proved!Leave(l)
  BY <1>4 DEF Events!Leave, Proved!Leave
<1> QED BY <1>1, <1>2, <1>3, <1>4 DEF Events!Next, Proved!Next, Events!vars, Proved!vars

LEMMA SameProperties ==
  /\ Proved!IndInv => ListenerAgreement /\ EventsMakeSense
  /\ Events!Init => Proved!Init
<1>1. Proved!Agreement => ListenerAgreement
  BY DEF Proved!Agreement, ListenerAgreement, Events!Agreement, Present,
         Proved!Believed, Events!Believed, Proved!Attached, Events!Attached,
         Proved!Detached, Events!Detached
<1>2. Proved!EventsMakeSense => EventsMakeSense
  BY DEF Proved!EventsMakeSense, EventsMakeSense, Events!EventsMakeSense,
         Proved!OneLife, Events!OneLife, Proved!Attached, Events!Attached,
         Proved!Detached, Events!Detached
<1>3. Events!Init => Proved!Init
  BY DEF Events!Init, Proved!Init, Present, Announced
<1> QED BY <1>1, <1>2, <1>3 DEF Proved!IndInv

LEMMA EventInvariant == Spec => [](Proved!IndInv)
<1>1. Init => IndInv /\ Proved!IndInv
  BY InitIndInv, InitRefines, SameProperties, Proved!InitIndInv
<1>2. IndInv /\ Proved!IndInv /\ [Next]_vars => IndInv' /\ Proved!IndInv'
  BY NextIndInv, StepRefines, SameStep, Proved!NextIndInv
<1> QED BY <1>1, <1>2, PTL DEF Spec

(* What the clients believe is what is attached, for every number of       *)
(* devices, clients and heartbeat tasks.                                   *)
THEOREM ListenersAgree == Spec => []ListenerAgreement
BY EventInvariant, SameProperties, PTL

(* A DeviceID is attached once and detached at most once, in every stream. *)
THEOREM IdsLiveOnce == Spec => []EventsMakeSense
BY EventInvariant, SameProperties, PTL
=============================================================================
