------------------------------ MODULE Manager ------------------------------
(***************************************************************************)
(* The device manager (src/src/manager.rs): one task that owns the device  *)
(* table and serves one message at a time from an unbounded channel, with  *)
(* the tasks that write to that channel: mDNS discovery, the clients'      *)
(* AddDevice, RemoveDevice, Listen and Connect sessions (main.rs), USB     *)
(* hot-plug (daemon/mod.rs), and one heartbeat task per network device     *)
(* (heartbeat.rs).                                                         *)
(***************************************************************************)
EXTENDS Naturals, Sequences, FiniteSets, Functions

CONSTANTS
  Udids,          \* devices, by UDID
  Adders,         \* clients that send AddDevice
  Listeners,      \* clients that send Listen
  Sessions,       \* clients that send Connect
  Handles,        \* UsbMuxHandles, one per USB attachment
  AddTypes,       \* connection types AddDevice requests carry
  UseHeartbeat,   \* config.use_heartbeat
  FirstId,        \* 1, or SHIM_NETWORK_ID_BASE behind another muxer
  MaxDevices,     \* bound: device ids handed out
  MaxInbox,       \* bound: messages in the manager's channel
  NoClient        \* "response: None"

ASSUME FirstIdAssumption == FirstId \in Nat
ASSUME BoundsAssumption == MaxDevices \in Nat /\ MaxInbox \in Nat
ASSUME HeartbeatAssumption == UseHeartbeat \in BOOLEAN
ASSUME NoClientAssumption == NoClient \notin Adders

VARIABLES
  inbox,          \* the manager's channel, oldest message first
  devices,        \* id -> [udid, ct]: the device table
  usbHandles,     \* id -> handle
  openSockets,    \* <<id, session>>: kill senders the manager holds
  listeners,      \* listeners in the manager's list, some may be closed
  lastIndex,      \* next device id
  removing,       \* ids RemoveDevice still has to drop
  detaching,      \* id dropped whose handle is being shut down, if any
  tasks,          \* id -> heartbeat task: [udid, ct, from, pc, listed]; listed
                  \*   (history) once its DeferredMuxerAdd was served
  sockets,        \* listener -> state of the client's Listen connection
  log,            \* listener -> events sent to it, oldest first
  sessions,       \* session -> [pc, id]
  adders,         \* adder -> state of its AddDevice request
  usedHandles     \* handles registered so far

managerVars == <<devices, usbHandles, openSockets, listeners, lastIndex,
                 removing, detaching>>
clientVars == <<sockets, sessions, adders, usedHandles>>
vars == <<inbox, devices, usbHandles, openSockets, listeners, lastIndex,
          removing, detaching, tasks, sockets, log, sessions, adders,
          usedHandles>>

Ids == FirstId..(FirstId + MaxDevices - 1)
AnyType == "any"                        \* connection_type: None
Types == AddTypes \cup {"Network", "USB"}
Device == [udid : Udids, ct : Types]

Attached(id) == [type |-> "Attached", id |-> id]
Detached(id) == [type |-> "Detached", id |-> id]
Event == [type : {"Attached", "Detached"}, id : Ids]

Message ==
       [type : {"DiscoveredNetworkDevice"}, udid : Udids, ct : Types,
        from : Adders \cup {NoClient}]
  \cup [type : {"DiscoveredUsbDevice"}, udid : Udids, handle : Handles]
  \cup [type : {"DeferredMuxerAdd"}, id : Ids]
  \cup [type : {"RemoveDevice"}, udid : Udids, ct : {AnyType, "USB"}]
  \cup [type : {"GetDeviceConnection"}, id : Nat, session : Sessions]
  \cup [type : {"HeartbeatFailed"}, udid : Udids]
  \cup [type : {"OpenSocket"}, id : Nat, session : Sessions]
  \cup [type : {"Subscribe"}, listener : Listeners]

Put(f, x, v) == [y \in DOMAIN f \cup {x} |-> IF y = x THEN v ELSE f[y]]
Drop(f, x) == Restrict(f, DOMAIN f \ {x})

(* Messages that may hand out a device id; with the bound on them, the     *)
(* handlers always find an id left.                                        *)
Discoveries ==
  {i \in DOMAIN inbox :
     inbox[i].type \in {"DiscoveredNetworkDevice", "DiscoveredUsbDevice"}}

IdsLeft == lastIndex < FirstId + MaxDevices

Send(m) == Len(inbox) < MaxInbox /\ inbox' = Append(inbox, m)

SendDiscovery(m) ==
  /\ lastIndex + Cardinality(Discoveries) < FirstId + MaxDevices
  /\ Send(m)

Init ==
  /\ inbox = <<>>
  /\ devices = <<>>
  /\ usbHandles = <<>>
  /\ openSockets = {}
  /\ listeners = {}
  /\ lastIndex = FirstId
  /\ removing = {}
  /\ detaching = {}
  /\ tasks = <<>>
  /\ sockets = [l \in Listeners |-> "idle"]
  /\ log = [l \in Listeners |-> <<>>]
  /\ sessions = [s \in Sessions |-> [pc |-> "idle", id |-> 0]]
  /\ adders = [a \in Adders |-> "idle"]
  /\ usedHandles = {}

-----------------------------------------------------------------------------
(* Tasks that write to the channel.                                        *)

(* mdns.rs: a resolved service names a device that has a pairing record. *)
MdnsResolved(u) ==
  /\ SendDiscovery([type |-> "DiscoveredNetworkDevice", udid |-> u,
                    ct |-> "Network", from |-> NoClient])
  /\ UNCHANGED <<managerVars, clientVars, tasks, log>>

ClientAddDevice(a, u, ct) ==
  /\ adders[a] = "idle"
  /\ SendDiscovery([type |-> "DiscoveredNetworkDevice", udid |-> u, ct |-> ct,
                    from |-> a])
  /\ adders' = [adders EXCEPT ![a] = "waiting"]
  /\ UNCHANGED <<managerVars, tasks, log, sockets, sessions, usedHandles>>

ClientRemoveDevice(u) ==
  /\ Send([type |-> "RemoveDevice", udid |-> u, ct |-> AnyType])
  /\ UNCHANGED <<managerVars, clientVars, tasks, log>>

RegisterUsb(u, h) ==
  /\ h \notin usedHandles
  /\ SendDiscovery([type |-> "DiscoveredUsbDevice", udid |-> u, handle |-> h])
  /\ usedHandles' = usedHandles \cup {h}
  /\ UNCHANGED <<managerVars, tasks, log, sockets, sessions, adders>>

UsbGone(u) ==
  /\ usedHandles # {}
  /\ Send([type |-> "RemoveDevice", udid |-> u, ct |-> "USB"])
  /\ UNCHANGED <<managerVars, clientVars, tasks, log>>

StartListen(l) ==
  /\ sockets[l] = "idle"
  /\ Send([type |-> "Subscribe", listener |-> l])
  /\ sockets' = [sockets EXCEPT ![l] = "open"]
  /\ UNCHANGED <<managerVars, tasks, log, sessions, adders, usedHandles>>

(* The client hangs up; run_listen returns and drops its receiver. *)
ListenerGone(l) ==
  /\ sockets[l] = "open"
  /\ sockets' = [sockets EXCEPT ![l] = "closed"]
  /\ UNCHANGED <<managerVars, inbox, tasks, log, sessions, adders, usedHandles>>

SessionConnect(s, id) ==
  /\ sessions[s].pc = "idle"
  /\ Send([type |-> "GetDeviceConnection", id |-> id, session |-> s])
  /\ sessions' = [sessions EXCEPT ![s] = [pc |-> "lookup", id |-> id]]
  /\ UNCHANGED <<managerVars, tasks, log, sockets, adders, usedHandles>>

(* The device answered: Result 0 is written, then OpenSocket is sent. *)
SessionDialed(s) ==
  /\ sessions[s].pc = "dialing"
  /\ Send([type |-> "OpenSocket", id |-> sessions[s].id, session |-> s])
  /\ sessions' = [sessions EXCEPT ![s].pc = "open"]
  /\ UNCHANGED <<managerVars, tasks, log, sockets, adders, usedHandles>>

(* Result 1 is written and the client may ask again. *)
SessionDialFails(s) ==
  /\ sessions[s].pc = "dialing"
  /\ sessions' = [sessions EXCEPT ![s].pc = "idle"]
  /\ UNCHANGED <<managerVars, inbox, tasks, log, sockets, adders, usedHandles>>

(* The client or the device closes its end, or Result 0 cannot be written. *)
SessionEnds(s) ==
  /\ sessions[s].pc \in {"dialing", "open"}
  /\ sessions' = [sessions EXCEPT ![s].pc = "closed"]
  /\ UNCHANGED <<managerVars, inbox, tasks, log, sockets, adders, usedHandles>>

Reply(from, r) ==
  adders' = IF from = NoClient THEN adders ELSE [adders EXCEPT ![from] = r]

(* Mutant: a failed setup returns without answering the client. *)
HeartbeatSetupFailsQuietly(id) ==
  /\ id \in DOMAIN tasks /\ tasks[id].pc = "setup"
  /\ tasks' = [tasks EXCEPT ![id].pc = "gaveUp"]
  /\ UNCHANGED <<managerVars, inbox, log, clientVars>>

(* A step of connecting to lockdown or to the heartbeat service fails. *)
HeartbeatSetupFails(id) ==
  /\ id \in DOMAIN tasks /\ tasks[id].pc = "setup"
  /\ tasks' = [tasks EXCEPT ![id].pc = "gaveUp"]
  /\ Reply(tasks[id].from, "result0")
  /\ UNCHANGED <<managerVars, inbox, log, sockets, sessions, usedHandles>>

HeartbeatEstablished(id) ==
  /\ id \in DOMAIN tasks /\ tasks[id].pc = "setup"
  /\ Send([type |-> "DeferredMuxerAdd", id |-> id])
  /\ tasks' = [tasks EXCEPT ![id].pc = "beating"]
  /\ UNCHANGED <<managerVars, clientVars, log>>

(* Mutant: the task ends without telling the manager. *)
HeartbeatLostSilently(id) ==
  /\ id \in DOMAIN tasks /\ tasks[id].pc = "beating"
  /\ tasks' = [tasks EXCEPT ![id].pc = "ended"]
  /\ UNCHANGED <<managerVars, inbox, clientVars, log>>

(* get_marco fails or times out, or send_polo fails. *)
HeartbeatLost(id) ==
  /\ id \in DOMAIN tasks /\ tasks[id].pc = "beating"
  /\ Send([type |-> "HeartbeatFailed", udid |-> tasks[id].udid])
  /\ tasks' = [tasks EXCEPT ![id].pc = "ended"]
  /\ UNCHANGED <<managerVars, clientVars, log>>

-----------------------------------------------------------------------------
(* The manager task.                                                       *)

FindDevice(u, ct) == {id \in DOMAIN devices : devices[id] = [udid |-> u, ct |-> ct]}

(* broadcast: listeners whose receiver is gone leave the list. *)
Broadcast(e) ==
  /\ listeners' = {l \in listeners : sockets[l] = "open"}
  /\ log' = [l \in Listeners |->
               IF l \in listeners' THEN Append(log[l], e) ELSE log[l]]

KillSessions(K) ==
  sessions' = [s \in Sessions |->
                 IF sessions[s].pc = "open" /\ \E k \in K : k[2] = s
                 THEN [sessions[s] EXCEPT !.pc = "killed"] ELSE sessions[s]]

KillsOf(id) == {k \in openSockets : k[1] = id}

(* Mutants: drop_entry forgets the handle, kills the sessions of every     *)
(* device, or empties the table of kill senders.                           *)
DropEntryKeepsHandle(id) ==
  /\ devices' = Drop(devices, id)
  /\ openSockets' = openSockets \ KillsOf(id)
  /\ KillSessions(KillsOf(id))
  /\ UNCHANGED usbHandles

DropEntryKillsAll(id) ==
  /\ devices' = Drop(devices, id)
  /\ usbHandles' = Drop(usbHandles, id)
  /\ openSockets' = {}
  /\ KillSessions(openSockets)

DropEntryClearsSockets(id) ==
  /\ devices' = Drop(devices, id)
  /\ usbHandles' = Drop(usbHandles, id)
  /\ openSockets' = {}
  /\ KillSessions(KillsOf(id))

(* drop_entry: the device's kill senders fire. *)
DropEntry(id) ==
  /\ devices' = Drop(devices, id)
  /\ usbHandles' = Drop(usbHandles, id)
  /\ openSockets' = openSockets \ KillsOf(id)
  /\ KillSessions(KillsOf(id))

Receive(type) ==
  /\ removing = {} /\ detaching = {}
  /\ inbox # <<>>
  /\ Head(inbox).type = type
  /\ inbox' = Tail(inbox)

msg == Head(inbox)

(* The device is listed already, or its pairing record cannot be read: the *)
(* message, and with it the sender of the response, is dropped.            *)
IgnoreNetworkDevice ==
  /\ Receive("DiscoveredNetworkDevice")
  /\ Reply(msg.from, "dropped")
  /\ UNCHANGED <<managerVars, tasks, log, sockets, sessions, usedHandles>>

(* Mutant: the id is only used up when the device is listed. *)
SpawnHeartbeatSameId ==
  /\ Receive("DiscoveredNetworkDevice")
  /\ UseHeartbeat /\ IdsLeft
  /\ FindDevice(msg.udid, msg.ct) = {}
  /\ tasks' = Put(tasks, lastIndex, [udid |-> msg.udid, ct |-> msg.ct,
                                     from |-> msg.from, pc |-> "setup",
                                     listed |-> FALSE])
  /\ UNCHANGED <<managerVars, clientVars, log>>

SpawnHeartbeat ==
  /\ Receive("DiscoveredNetworkDevice")
  /\ UseHeartbeat /\ IdsLeft
  /\ FindDevice(msg.udid, msg.ct) = {}
  /\ tasks' = Put(tasks, lastIndex, [udid |-> msg.udid, ct |-> msg.ct,
                                     from |-> msg.from, pc |-> "setup",
                                     listed |-> FALSE])
  /\ lastIndex' = lastIndex + 1
  /\ UNCHANGED <<devices, usbHandles, openSockets, listeners, removing,
                 detaching, clientVars, log>>

AddNetworkDevice ==
  /\ Receive("DiscoveredNetworkDevice")
  /\ ~UseHeartbeat /\ IdsLeft
  /\ FindDevice(msg.udid, msg.ct) = {}
  /\ devices' = Put(devices, lastIndex, [udid |-> msg.udid, ct |-> msg.ct])
  /\ lastIndex' = lastIndex + 1
  /\ Broadcast(Attached(lastIndex))
  /\ Reply(msg.from, "result1")
  /\ UNCHANGED <<usbHandles, openSockets, removing, detaching, tasks, sockets,
                 sessions, usedHandles>>

ReplaceUsbHandle ==
  /\ Receive("DiscoveredUsbDevice")
  /\ \E id \in FindDevice(msg.udid, "USB") :
       usbHandles' = Put(usbHandles, id, msg.handle)
  /\ UNCHANGED <<devices, openSockets, listeners, lastIndex, removing,
                 detaching, clientVars, tasks, log>>

(* Mutant: a registration queued twice is added twice. *)
AddUsbDeviceAgain ==
  /\ Receive("DiscoveredUsbDevice") /\ IdsLeft
  /\ devices' = Put(devices, lastIndex, [udid |-> msg.udid, ct |-> "USB"])
  /\ usbHandles' = Put(usbHandles, lastIndex, msg.handle)
  /\ Broadcast(Attached(lastIndex))
  /\ lastIndex' = lastIndex + 1
  /\ UNCHANGED <<openSockets, removing, detaching, tasks, clientVars>>

AddUsbDevice ==
  /\ Receive("DiscoveredUsbDevice")
  /\ FindDevice(msg.udid, "USB") = {} /\ IdsLeft
  /\ devices' = Put(devices, lastIndex, [udid |-> msg.udid, ct |-> "USB"])
  /\ usbHandles' = Put(usbHandles, lastIndex, msg.handle)
  /\ Broadcast(Attached(lastIndex))
  /\ lastIndex' = lastIndex + 1
  /\ UNCHANGED <<openSockets, removing, detaching, tasks, clientVars>>

DeferredMuxerAdd ==
  /\ Receive("DeferredMuxerAdd")
  /\ LET t == tasks[msg.id]
     IN  /\ devices' = Put(devices, msg.id, [udid |-> t.udid, ct |-> t.ct])
         /\ tasks' = [tasks EXCEPT ![msg.id].listed = TRUE]
         /\ Reply(t.from, "result1")
  /\ Broadcast(Attached(msg.id))
  /\ UNCHANGED <<usbHandles, openSockets, lastIndex, removing, detaching,
                 sockets, sessions, usedHandles>>

(* Mutant: only one entry of the UDID is looked up. *)
BeginRemoveFirst ==
  /\ Receive("RemoveDevice")
  /\ LET found == {id \in DOMAIN devices :
                     /\ devices[id].udid = msg.udid
                     /\ msg.ct \in {AnyType, devices[id].ct}}
     IN  removing' \in {{id} : id \in found} \cup (IF found = {} THEN {{}} ELSE {})
  /\ UNCHANGED <<devices, usbHandles, openSockets, listeners, lastIndex,
                 detaching, clientVars, tasks, log>>

BeginRemoveDevice ==
  /\ Receive("RemoveDevice")
  /\ removing' = {id \in DOMAIN devices :
                    /\ devices[id].udid = msg.udid
                    /\ msg.ct \in {AnyType, devices[id].ct}}
  /\ UNCHANGED <<devices, usbHandles, openSockets, listeners, lastIndex,
                 detaching, clientVars, tasks, log>>

(* One turn of RemoveDevice's loop: a device without a handle is announced *)
(* as detached at once, one with a handle after h.shutdown().await.        *)
RemoveNext(id) ==
  /\ id \in removing /\ detaching = {}
  /\ removing' = removing \ {id}
  /\ DropEntry(id)
  /\ \/ /\ id \notin DOMAIN usbHandles
        /\ Broadcast(Detached(id))
        /\ UNCHANGED detaching
     \/ /\ id \in DOMAIN usbHandles
        /\ detaching' = {id}
        /\ UNCHANGED <<listeners, log>>
  /\ UNCHANGED <<inbox, lastIndex, tasks, sockets, adders, usedHandles>>

HandleShutDown(id) ==
  /\ id \in detaching
  /\ detaching' = {}
  /\ Broadcast(Detached(id))
  /\ UNCHANGED <<inbox, devices, usbHandles, openSockets, lastIndex, removing,
                 tasks, clientVars>>

GetDeviceConnection ==
  /\ Receive("GetDeviceConnection")
  /\ sessions' = [sessions EXCEPT ![msg.session].pc =
                    IF msg.id \in DOMAIN devices THEN "dialing" ELSE "idle"]
  /\ UNCHANGED <<managerVars, tasks, log, sockets, adders, usedHandles>>

(* Mutant: the entry is dropped and nobody is told. *)
HeartbeatFailedSilently ==
  /\ Receive("HeartbeatFailed")
  /\ LET found == FindDevice(msg.udid, "Network")
     IN  \/ found = {} /\ UNCHANGED <<devices, usbHandles, openSockets, sessions>>
         \/ \E id \in found : DropEntry(id)
  /\ UNCHANGED <<lastIndex, removing, detaching, tasks, sockets, adders,
                 usedHandles, listeners, log>>

(* The failed task names its device by UDID, and any network entry of that *)
(* UDID is dropped; there may be none, or one that another task feeds.     *)
HeartbeatFailed ==
  /\ Receive("HeartbeatFailed")
  /\ LET found == FindDevice(msg.udid, "Network")
     IN  \/ /\ found = {}
            /\ UNCHANGED <<devices, usbHandles, openSockets, sessions,
                           listeners, log>>
         \/ \E id \in found : DropEntry(id) /\ Broadcast(Detached(id))
  /\ UNCHANGED <<lastIndex, removing, detaching, tasks, sockets, adders,
                 usedHandles>>

(* The table is not consulted: the device may be gone already. *)
OpenSocket ==
  /\ Receive("OpenSocket")
  /\ openSockets' = openSockets \cup {<<msg.id, msg.session>>}
  /\ UNCHANGED <<devices, usbHandles, listeners, lastIndex, removing, detaching,
                 tasks, log, clientVars>>

(* Mutant: a new listener is not told of the devices that are there. *)
SubscribeWithoutSnapshot ==
  /\ Receive("Subscribe")
  /\ listeners' = listeners \cup {msg.listener}
  /\ UNCHANGED <<devices, usbHandles, openSockets, lastIndex, removing,
                 detaching, tasks, log, clientVars>>

(* The snapshot and the subscription are one step of the manager. A closed *)
(* receiver is noticed only if there is a device to send.                  *)
Subscribe ==
  /\ Receive("Subscribe")
  /\ LET l == msg.listener
         S == DOMAIN devices
     IN  \/ /\ sockets[l] = "open"
            /\ \E order \in Bijection(1..Cardinality(S), S) :
                 log' = [log EXCEPT ![l] =
                           [i \in 1..Cardinality(S) |-> Attached(order[i])]]
            /\ listeners' = listeners \cup {l}
         \/ /\ sockets[l] = "closed"
            /\ listeners' = IF S = {} THEN listeners \cup {l} ELSE listeners
            /\ UNCHANGED log
  /\ UNCHANGED <<devices, usbHandles, openSockets, lastIndex, removing,
                 detaching, tasks, clientVars>>

ManagerStep ==
  \/ IgnoreNetworkDevice \/ SpawnHeartbeat \/ AddNetworkDevice
  \/ ReplaceUsbHandle \/ AddUsbDevice
  \/ DeferredMuxerAdd \/ HeartbeatFailed
  \/ BeginRemoveDevice
  \/ \E id \in Ids : RemoveNext(id) \/ HandleShutDown(id)
  \/ GetDeviceConnection \/ OpenSocket \/ Subscribe

HeartbeatStep ==
  \E id \in Ids :
    \/ HeartbeatSetupFails(id)
    \/ HeartbeatEstablished(id)
    \/ HeartbeatLost(id)

ClientStep ==
  \/ \E u \in Udids :
       \/ MdnsResolved(u)
       \/ ClientRemoveDevice(u)
       \/ UsbGone(u)
       \/ \E h \in Handles : RegisterUsb(u, h)
       \/ \E a \in Adders, ct \in AddTypes : ClientAddDevice(a, u, ct)
  \/ \E l \in Listeners : StartListen(l) \/ ListenerGone(l)
  \/ \E s \in Sessions :
       \/ \E id \in FirstId..lastIndex : SessionConnect(s, id)
       \/ SessionDialed(s)
       \/ SessionDialFails(s)
       \/ SessionEnds(s)

Next == ManagerStep \/ HeartbeatStep \/ ClientStep

Spec == Init /\ [][Next]_vars

(* The runtime keeps polling the manager task while it has work. *)
FairSpec == Spec /\ WF_vars(ManagerStep)
-----------------------------------------------------------------------------
(* Properties.                                                             *)

HbStates == {"setup", "beating", "gaveUp", "ended"}

Task == [udid : Udids, ct : Types, from : Adders \cup {NoClient},
         pc : HbStates, listed : BOOLEAN]

(* The types of the state, and the places where an id may occur. *)
TypeOK ==
  /\ inbox \in Seq(Message)
  /\ DOMAIN devices \subseteq Ids /\ devices \in [DOMAIN devices -> Device]
  /\ DOMAIN usbHandles \subseteq Ids
  /\ usbHandles \in [DOMAIN usbHandles -> Handles]
  /\ openSockets \subseteq Nat \X Sessions
  /\ listeners \subseteq Listeners
  /\ lastIndex \in FirstId..(FirstId + MaxDevices)
  /\ removing \subseteq Ids /\ detaching \subseteq Ids
  /\ DOMAIN tasks \subseteq Ids
  /\ tasks \in [DOMAIN tasks -> Task]
  /\ sockets \in [Listeners -> {"idle", "open", "closed"}]
  /\ log \in [Listeners -> Seq(Event)]
  /\ sessions \in [Sessions ->
       [pc : {"idle", "lookup", "dialing", "open", "closed", "killed"}, id : Nat]]
  /\ adders \in [Adders -> {"idle", "waiting", "result0", "result1", "dropped"}]
  /\ usedHandles \subseteq Handles

Subscribed == {l \in listeners : sockets[l] = "open"}

(* The ids handed out that clients were not told of: the heartbeat task    *)
(* still holds the device back, or took it with it.                        *)
HeldBack == {id \in DOMAIN tasks : ~tasks[id].listed}

(* The inductive invariant behind the listeners' properties. *)
FreshIds ==
  /\ \A id \in DOMAIN devices \cup detaching \cup DOMAIN tasks : id < lastIndex
  /\ HeldBack \cap (DOMAIN devices \cup detaching) = {}
  /\ \A id \in DOMAIN tasks : tasks[id].pc \in {"setup", "gaveUp"} => id \in HeldBack

(* A device held back is added once: its task sends one DeferredMuxerAdd. *)
DeferredOnce ==
  \A i \in DOMAIN inbox : inbox[i].type = "DeferredMuxerAdd" =>
    /\ inbox[i].id \in HeldBack
    /\ tasks[inbox[i].id].pc \in {"beating", "ended"}
    /\ \A j \in DOMAIN inbox :
         inbox[j].type = "DeferredMuxerAdd" /\ inbox[j].id = inbox[i].id => j = i

(* A listener subscribes once, and nothing is sent to it before. *)
ListenOnce ==
  /\ \A l \in Listeners : sockets[l] = "idle" =>
       /\ l \notin listeners /\ log[l] = <<>>
       /\ \A i \in DOMAIN inbox : inbox[i].type = "Subscribe" => inbox[i].listener # l
  /\ \A i \in DOMAIN inbox : inbox[i].type = "Subscribe" =>
       /\ inbox[i].listener \notin listeners /\ log[inbox[i].listener] = <<>>
       /\ \A j \in DOMAIN inbox :
            inbox[j].type = "Subscribe" /\ inbox[j].listener = inbox[i].listener => j = i

RemovalInProgress ==
  /\ removing \subseteq DOMAIN devices
  /\ detaching \cap DOMAIN devices = {}
  /\ \A x, y \in detaching : x = y

IndInv == TypeOK /\ FreshIds /\ DeferredOnce /\ ListenOnce /\ RemovalInProgress

Events == INSTANCE DeviceEvents
            WITH present <- DOMAIN devices \cup detaching,
                 announced <- {id \in Ids : id < lastIndex} \ HeldBack,
                 subscribed <- Subscribed

(* The clients' view: every attached listener's replay of its events is    *)
(* the device table, whatever discoveries, heartbeats and removals ran     *)
(* (broadcast and Subscribe, manager.rs).                                  *)
ListenerAgreement == Events!Agreement

(* No listener sees an id announced twice, or withdrawn when it is not     *)
(* attached, so a DeviceID a client kept never names another device.       *)
EventsMakeSense == Events!EventsMakeSense

(* The event streams are those of DeviceEvents. *)
ImplementsDeviceEvents == Events!Spec

(* A UDID is on USB once, though registrations of it may be queued twice   *)
(* (enumeration and hot-plug report it both, pairing ends late), and the   *)
(* USB devices are those with a mux handle: Connect never meets one        *)
(* without ("usb device missing handle"), and no handle outlives its       *)
(* device. AddDevice must not claim to be USB.                             *)
UsbTableConsistent ==
  /\ DOMAIN usbHandles = {id \in DOMAIN devices : devices[id].ct = "USB"}
  /\ \A x, y \in DOMAIN usbHandles : devices[x].udid = devices[y].udid => x = y

(* A session is killed only when its own device is gone, and that device's *)
(* id is never listed again.                                               *)
NoSpuriousKill ==
  \A s \in Sessions : sessions[s].pc = "killed" => sessions[s].id \notin DOMAIN devices

(* As long as its device is listed, an open session can be killed: its     *)
(* kill sender is in the manager's table or on its way there.              *)
OpenSessionsTracked ==
  \A s \in Sessions :
    sessions[s].pc = "open" =>
      \/ sessions[s].id \notin DOMAIN devices
      \/ <<sessions[s].id, s>> \in openSockets
      \/ \E i \in DOMAIN inbox : inbox[i] = [type |-> "OpenSocket",
                                             id |-> sessions[s].id, session |-> s]

Queued(type, u) ==
  {i \in DOMAIN inbox : /\ inbox[i].type = type
                        /\ u = IF type = "DeferredMuxerAdd"
                               THEN tasks[inbox[i].id].udid ELSE inbox[i].udid}

(* No ghost on the network: a UDID has at most as many network entries as  *)
(* it has heartbeat tasks whose add was served and whose failure was not,  *)
(* although a failure names the UDID and may take another task's entry.    *)
HeartbeatBacked ==
  UseHeartbeat =>
    \A u \in Udids :
      Cardinality(FindDevice(u, "Network")) + Cardinality(Queued("DeferredMuxerAdd", u))
        <= Cardinality({id \in DOMAIN tasks : tasks[id].udid = u /\ tasks[id].pc = "beating"})
             + Cardinality(Queued("HeartbeatFailed", u))

TasksOf(u) == {id \in DOMAIN tasks : tasks[id].udid = u}

(* A device whose heartbeat tasks have all ended is taken off the list,    *)
(* unless a new task is started for it.                                    *)
DeadDeviceDelisted ==
  \A u \in Udids :
    UseHeartbeat /\ (\A id \in TasksOf(u) : tasks[id].pc \in {"gaveUp", "ended"})
      ~> \/ FindDevice(u, "Network") = {}
         \/ \E id \in TasksOf(u) : tasks[id].pc \in {"setup", "beating"}

(* RemoveDevice removes every entry the device had when it was asked for.  *)
RemovalTakesEffect ==
  \A id \in Ids :
    (id \in DOMAIN devices
      /\ \E i \in DOMAIN inbox : inbox[i] = [type |-> "RemoveDevice",
                                             udid |-> devices[id].udid, ct |-> AnyType])
    ~> id \notin DOMAIN devices \cup detaching

(* AddDevice does not wait for the manager for ever: it is answered or its *)
(* response is dropped, unless a heartbeat task is still talking to the    *)
(* device on its behalf.                                                   *)
AddDeviceResolved ==
  \A a \in Adders :
    adders[a] = "waiting" ~>
      \/ adders[a] # "waiting"
      \/ \E id \in DOMAIN tasks : tasks[id].from = a /\ tasks[id].pc = "setup"
=============================================================================
