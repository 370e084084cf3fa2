------------------------------ MODULE Hotplug ------------------------------
(***************************************************************************)
(* USB hot-plug (src/src/daemon/nusb_backend.rs, src/src/daemon/mod.rs):   *)
(* the watch loop that claims devices and starts their mux tasks, the map  *)
(* "known" from attachments to UDIDs, the pairing tasks and the exit       *)
(* watchers, which all report to the manager. Of the manager (Manager.tla) *)
(* only the table of USB entries is kept, of a mux task (UsbMux.tla) only  *)
(* whether it runs. The USB stack and the disk are external.               *)
(***************************************************************************)
EXTENDS Naturals, Sequences, FiniteSets

CONSTANTS
  Plugs,        \* attachments: DeviceIds of the USB stack
  Devices,      \* phones
  DeviceOf,     \* attachment -> phone
  Records,      \* pairing records a phone may start with
  Claims        \* bound: claims of one attachment

ASSUME DeviceOfAssumption == DeviceOf \in [Plugs -> Devices]
ASSUME ClaimsAssumption == Claims \in Nat
ASSUME RecordsAssumption == Records \subseteq {"none", "valid", "stale"}

(* A mux task is started by a claim of an attachment. It is reported at    *)
(* most twice: by the initial enumeration and by the stream.               *)
Tasks == Plugs \X (1..Claims)
PlugOf(t) == t[1]
PhoneOf(t) == DeviceOf[PlugOf(t)]

VARIABLES
  usb,          \* attachment -> "absent", "plugged" or "gone"
  events,       \* the hot-plug stream
  scan,         \* devices of the initial enumeration still to look at
  loop,         \* the watch loop: [pc, task], the task it is setting up
  known,        \* attachment -> UDID it would be removed under
  mux,          \* task -> "none", "running", "stopping" or "exited"
  watcher,      \* task -> its exit watcher: [pc, name]
  pair,         \* task -> its pairing task
  record,       \* phone -> pairing record on disk
  mail,         \* messages to the manager, oldest first
  listed,       \* the manager's USB entries: UDID -> task of the handle
  cleanups      \* attachment -> removals sent for it (history)

vars == <<usb, events, scan, loop, known, mux, watcher, pair, record, mail,
          listed, cleanups>>

Raw(d) == <<"serial", d>>         \* the USB serial number
Udid(d) == <<"udid", d>>          \* the canonical UDID
Names == {Raw(d) : d \in Devices} \cup {Udid(d) : d \in Devices}

Put(f, x, v) == [y \in DOMAIN f \cup {x} |-> IF y = x THEN v ELSE f[y]]
Without(f, x) == [y \in DOMAIN f \ {x} |-> f[y]]

At(pc, t) == [pc |-> pc, task |-> {t}]
Idle(pc) == [pc |-> pc, task |-> {}]
Inserting(t) == loop \in {At("insertUdid", t), At("insertRaw", t)}

Init ==
  /\ usb \in [Plugs -> {"absent", "plugged"}]
  /\ \A p, q \in Plugs : usb[p] = "plugged" /\ usb[q] = "plugged"
                           /\ DeviceOf[p] = DeviceOf[q] => p = q
  /\ events = <<>> /\ scan = {} /\ loop = Idle("start")
  /\ known = <<>>
  /\ mux = [t \in Tasks |-> "none"]
  /\ watcher = [t \in Tasks |-> [pc |-> "none", name |-> ""]]
  /\ pair = [t \in Tasks |-> "none"]
  /\ record \in [Devices -> Records]
  /\ mail = <<>> /\ listed = <<>>
  /\ cleanups = [p \in Plugs |-> 0]
-----------------------------------------------------------------------------
(* The USB stack: each attachment has a DeviceId of its own.               *)

Plug(p) ==
  /\ usb[p] = "absent"
  /\ \A q \in Plugs : DeviceOf[q] = DeviceOf[p] => usb[q] # "plugged"
  /\ usb' = [usb EXCEPT ![p] = "plugged"]
  /\ events' = Append(events, [type |-> "Connected", plug |-> p])
  /\ UNCHANGED <<scan, loop, known, mux, watcher, pair, record, mail, listed, cleanups>>

Unplug(p) ==
  /\ usb[p] = "plugged"
  /\ usb' = [usb EXCEPT ![p] = "gone"]
  /\ events' = Append(events, [type |-> "Disconnected", plug |-> p])
  /\ UNCHANGED <<scan, loop, known, mux, watcher, pair, record, mail, listed, cleanups>>

(* shutdown() of a handle queues a command for the task. *)
Stopped(t) == IF mux[t] = "running" THEN [mux EXCEPT ![t] = "stopping"] ELSE mux

(* The task handles a shutdown, or a read fails, because the device is gone or for another reason. *)
MuxExits(t) ==
  /\ mux[t] \in {"running", "stopping"}
  /\ mux' = [mux EXCEPT ![t] = "exited"]
  /\ UNCHANGED <<usb, events, scan, loop, known, watcher, pair, record, mail, listed, cleanups>>
-----------------------------------------------------------------------------
(* The watch loop. The stream is opened before the enumeration, so that a  *)
(* device may be reported by both.                                         *)

ListDevices ==
  /\ loop.pc = "start"
  /\ scan' = {p \in Plugs : usb[p] = "plugged"}
  /\ loop' = Idle("scan")
  /\ UNCHANGED <<usb, events, known, mux, watcher, pair, record, mail, listed, cleanups>>

Reported(p) == /\ \/ /\ loop.pc = "scan" /\ p \in scan
                  /\ scan' = scan \ {p} /\ UNCHANGED events
               \/ /\ loop.pc = "scan" /\ scan = {} /\ events # <<>>
                  /\ Head(events) = [type |-> "Connected", plug |-> p]
                  /\ events' = Tail(events) /\ UNCHANGED scan

(* Opening, configuring or claiming fails (a claimed interface is busy for *)
(* every retry), the mux interface is not exposed yet, or the device has   *)
(* no serial number.                                                       *)
ConnectFails(p) ==
  /\ Reported(p)
  /\ UNCHANGED <<usb, loop, known, mux, watcher, pair, record, mail, listed, cleanups>>

(* handle_connected up to mux::spawn: the interface is free again once a   *)
(* task has exited.                                                        *)
Claim(t) ==
  /\ Reported(PlugOf(t))
  /\ usb[PlugOf(t)] = "plugged" /\ mux[t] = "none"
  /\ \A u \in Tasks : PlugOf(u) = PlugOf(t) /\ u[2] < t[2] => mux[u] = "exited"
  /\ mux' = [mux EXCEPT ![t] = "running"]
  /\ loop' = At("connect", t)
  /\ UNCHANGED <<usb, known, watcher, pair, record, mail, listed, cleanups>>

Register(t) ==
  mail' = Append(mail, [type |-> "DiscoveredUsbDevice", name |-> Udid(PhoneOf(t)), task |-> {t}])

(* connect_device: the record is valid, or could not be checked. *)
RegisterPaired(t) ==
  /\ loop = At("connect", t)
  /\ record[PhoneOf(t)] # "none"
  /\ Register(t)
  /\ loop' = At("insertUdid", t)
  /\ UNCHANGED <<usb, events, scan, known, mux, watcher, pair, record, listed, cleanups>>

(* connect_device: no record, or one the device rejects, which is deleted  *)
(* if possible.                                                            *)
StartPairing(t) ==
  /\ loop = At("connect", t)
  /\ record[PhoneOf(t)] \in {"none", "stale"}
  /\ record' \in {record, [record EXCEPT ![PhoneOf(t)] = "none"]}
  /\ pair' = [pair EXCEPT ![t] = "running"]
  /\ loop' = At("insertRaw", t)
  /\ UNCHANGED <<usb, events, scan, known, mux, watcher, mail, listed, cleanups>>

Named(t) == IF loop.pc = "insertRaw" THEN Raw(PhoneOf(t)) ELSE Udid(PhoneOf(t))

(* Mutant: the exit watcher is not started. *)
InsertKnownOnly(t) ==
  /\ Inserting(t)
  /\ known' = Put(known, PlugOf(t), Named(t))
  /\ loop' = Idle("scan")
  /\ UNCHANGED <<usb, events, scan, mux, watcher, pair, record, mail, listed, cleanups>>

InsertKnown(t) ==
  /\ Inserting(t)
  /\ known' = Put(known, PlugOf(t), Named(t))
  /\ watcher' = [watcher EXCEPT ![t].pc = "armed"]
  /\ loop' = Idle("scan")
  /\ UNCHANGED <<usb, events, scan, mux, pair, record, mail, listed, cleanups>>

SendRemove(p, name) ==
  /\ mail' = Append(mail, [type |-> "RemoveDevice", name |-> name, task |-> {}])
  /\ cleanups' = [cleanups EXCEPT ![p] = @ + 1]

(* Mutant: the entry stays in the map. *)
DisconnectedKeepsKnown(p) ==
  /\ loop.pc = "scan" /\ scan = {} /\ events # <<>>
  /\ Head(events) = [type |-> "Disconnected", plug |-> p]
  /\ events' = Tail(events)
  /\ IF p \in DOMAIN known THEN SendRemove(p, known[p])
                           ELSE UNCHANGED <<mail, cleanups>>
  /\ UNCHANGED <<usb, scan, loop, known, mux, watcher, pair, record, listed>>

Disconnected(p) ==
  /\ loop.pc = "scan" /\ scan = {} /\ events # <<>>
  /\ Head(events) = [type |-> "Disconnected", plug |-> p]
  /\ events' = Tail(events)
  /\ known' = Without(known, p)
  /\ IF p \in DOMAIN known THEN SendRemove(p, known[p])
                           ELSE UNCHANGED <<mail, cleanups>>
  /\ UNCHANGED <<usb, scan, loop, mux, watcher, pair, record, listed>>

(* The watcher takes the entry under the lock and sends after it. *)
WatcherWakes(t) ==
  /\ watcher[t].pc = "armed" /\ mux[t] = "exited"
  /\ known' = Without(known, PlugOf(t))
  /\ watcher' = [watcher EXCEPT
       ![t] = IF PlugOf(t) \in DOMAIN known THEN [pc |-> "removing", name |-> known[PlugOf(t)]]
              ELSE [pc |-> "done", name |-> ""]]
  /\ UNCHANGED <<usb, events, scan, loop, mux, pair, record, mail, listed, cleanups>>

WatcherSends(t) ==
  /\ watcher[t].pc = "removing"
  /\ SendRemove(PlugOf(t), watcher[t].name)
  /\ watcher' = [watcher EXCEPT ![t] = [pc |-> "done", name |-> ""]]
  /\ UNCHANGED <<usb, events, scan, loop, known, mux, pair, record, listed>>
-----------------------------------------------------------------------------
(* The pairing task.                                                       *)

(* The user taps Trust and the record is written, or the device is in      *)
(* restore mode and is exposed without one.                                *)
PairSucceeds(t) ==
  /\ pair[t] = "running" /\ mux[t] # "exited"
  /\ pair' = [pair EXCEPT ![t] = "paired"]
  /\ \/ record' = [record EXCEPT ![PhoneOf(t)] = "valid"]
     \/ UNCHANGED record
  /\ UNCHANGED <<usb, events, scan, loop, known, mux, watcher, mail, listed, cleanups>>

(* handle.shutdown() *)
PairFails(t) ==
  /\ pair[t] = "running"
  /\ pair' = [pair EXCEPT ![t] = "failed"]
  /\ mux' = Stopped(t)
  /\ UNCHANGED <<usb, events, scan, loop, known, watcher, record, mail, listed, cleanups>>

(* The attachment will be removed under its UDID, if it is still known. *)
PairRenames(t) ==
  /\ pair[t] = "paired"
  /\ pair' = [pair EXCEPT ![t] = "registering"]
  /\ known' = IF PlugOf(t) \in DOMAIN known THEN [known EXCEPT ![PlugOf(t)] = Udid(PhoneOf(t))] ELSE known
  /\ UNCHANGED <<usb, events, scan, loop, mux, watcher, record, mail, listed, cleanups>>

(* The device is registered whether or not the attachment is still known. *)
PairRegisters(t) ==
  /\ pair[t] = "registering"
  /\ pair' = [pair EXCEPT ![t] = "done"]
  /\ Register(t)
  /\ UNCHANGED <<usb, events, scan, loop, known, mux, watcher, record, listed, cleanups>>
-----------------------------------------------------------------------------
(* The manager: an entry's handle is replaced, or dropped and shut down.   *)

ManagerAdds ==
  /\ mail # <<>> /\ Head(mail).type = "DiscoveredUsbDevice"
  /\ mail' = Tail(mail)
  /\ \E t \in Head(mail).task : listed' = Put(listed, Head(mail).name, t)
  /\ UNCHANGED <<usb, events, scan, loop, known, mux, watcher, pair, record, cleanups>>

ManagerRemoves ==
  /\ mail # <<>> /\ Head(mail).type = "RemoveDevice"
  /\ mail' = Tail(mail)
  /\ LET name == Head(mail).name
     IN  /\ listed' = Without(listed, name)
         /\ mux' = IF name \in DOMAIN listed THEN Stopped(listed[name]) ELSE mux
  /\ UNCHANGED <<usb, events, scan, loop, known, watcher, pair, record, cleanups>>

LoopStep ==
  \/ ListDevices
  \/ \E p \in Plugs : ConnectFails(p) \/ Disconnected(p)
  \/ \E t \in Tasks : Claim(t) \/ RegisterPaired(t) \/ StartPairing(t) \/ InsertKnown(t)

WatcherStep(t) == WatcherWakes(t) \/ WatcherSends(t)

ManagerStep == ManagerAdds \/ ManagerRemoves

Next ==
  \/ LoopStep \/ ManagerStep
  \/ \E p \in Plugs : Plug(p) \/ Unplug(p)
  \/ \E t \in Tasks :
       \/ MuxExits(t) \/ WatcherStep(t)
       \/ PairSucceeds(t) \/ PairFails(t) \/ PairRenames(t) \/ PairRegisters(t)

Spec == Init /\ [][Next]_vars

(* The runtime polls its tasks; reading from a device that is gone fails.  *)
(* The user need not tap Trust.                                            *)
FairSpec ==
  /\ Spec
  /\ WF_vars(LoopStep) /\ WF_vars(ManagerStep)
  /\ \A t \in Tasks :
       /\ WF_vars(WatcherStep(t))
       /\ WF_vars(PairRenames(t) \/ PairRegisters(t))
       /\ WF_vars((usb[PlugOf(t)] = "gone" \/ mux[t] = "stopping") /\ MuxExits(t))
-----------------------------------------------------------------------------
(* Properties.                                                             *)

(* An attachment is cleaned up once for each task it was claimed for,      *)
(* although its disconnect event and the exit of the task are both         *)
(* signalled (both paths take the entry of "known" before they send).      *)
CleanedUpOnce ==
  \A p \in Plugs : cleanups[p] <= Cardinality({t \in Tasks : PlugOf(t) = p /\ mux[t] # "none"})

(* A removal of the task's entry is on its way, or will be. *)
RemovalUnderWay(t) ==
  LET name == Udid(PhoneOf(t))
      Mine == {u \in Tasks : PlugOf(u) = PlugOf(t)}
  IN  \/ Inserting(t)
      \/ /\ PlugOf(t) \in DOMAIN known /\ known[PlugOf(t)] = name
         /\ watcher[t].pc = "armed"
      \/ \E u \in Mine : watcher[u] = [pc |-> "removing", name |-> name]
      \/ \E i \in DOMAIN mail : mail[i].type = "RemoveDevice" /\ mail[i].name = name

NeverPaired(p) == \A t \in Tasks : PlugOf(t) = p => pair[t] = "none"

(* No entry outlives its mux task unnoticed: of an attachment that did not *)
(* have to be paired, the entry of a dead task is about to be removed      *)
(* (known is filled after the registration, and the watcher started last). *)
CleanupPending ==
  \A n \in DOMAIN listed :
    LET t == listed[n]
    IN  mux[t] = "exited" /\ NeverPaired(PlugOf(t)) => RemovalUnderWay(t)

Listed(t) == \E n \in DOMAIN listed : listed[n] = t

(* "When the mux task exits (USB error / device gone), clean up": in the   *)
(* end no entry has the handle of a task that is gone. This holds of every *)
(* attachment that did not have to be paired ...                           *)
DeadPairedEntryGoes ==
  \A t \in Tasks :
    (mux[t] = "exited" /\ Listed(t)) ~> (~Listed(t) \/ ~NeverPaired(PlugOf(t)))

(* ... and not of one that is registered by its pairing task after it was  *)
(* removed, or before it is known.                                         *)
CleanUpOnExit == \A t \in Tasks : (mux[t] = "exited" /\ Listed(t)) ~> ~Listed(t)
=============================================================================
