---------------------------- MODULE PollHotplug ----------------------------
(***************************************************************************)
(* USB hot-plug on Windows (src/src/daemon/apple_mux_backend.rs and        *)
(* libusbk_backend.rs): no hot-plug events, but an enumeration every two   *)
(* seconds, compared with the map "known". What follows an opened device   *)
(* (mux task, connect_device, exit watcher, pairing task, manager) is that *)
(* of Hotplug. An attachment stands for a key of the map, an interface     *)
(* path or a device-instance id, and may be plugged in again under the     *)
(* same key; the stream of events is not used.                             *)
(***************************************************************************)
EXTENDS Hotplug

CONSTANT Pairings   \* bound: pairing tasks started because there is no record
ASSUME PairingsAssumption == Pairings \in Nat

VARIABLES
  current,      \* the keys of the last enumeration
  active,       \* the keys of "known" when it was compared
  doomed        \* names taken from "known" by the loop, whose removal is not sent yet

pollVars == <<current, active, doomed>>
allVars == <<vars, pollVars>>

PollInit ==
  /\ Init
  /\ current = {} /\ active = {} /\ doomed = {}

(* The same key appears again, with the tasks of the last time maybe alive. *)
Replug(p) ==
  /\ usb[p] = "gone"
  /\ \A q \in Plugs : DeviceOf[q] = DeviceOf[p] => usb[q] # "plugged"
  /\ usb' = [usb EXCEPT ![p] = "plugged"]
  /\ UNCHANGED <<events, scan, loop, known, mux, watcher, pair, record, mail, listed,
                 cleanups, pollVars>>

FirstPlug(p) == Plug(p) /\ UNCHANGED pollVars

(* No event says so. *)
Vanish(p) ==
  /\ usb[p] = "plugged"
  /\ usb' = [usb EXCEPT ![p] = "gone"]
  /\ UNCHANGED <<events, scan, loop, known, mux, watcher, pair, record, mail, listed,
                 cleanups, pollVars>>
-----------------------------------------------------------------------------
(* The poll loop.                                                          *)

(* The enumeration runs on a blocking thread; one that fails is repeated   *)
(* after the interval, with nothing changed.                               *)
Enumerate ==
  /\ loop.pc = "start"
  /\ current' = {p \in Plugs : usb[p] = "plugged"}
  /\ loop' = Idle("compare")
  /\ UNCHANGED <<usb, events, scan, known, mux, watcher, pair, record, mail, listed,
                 cleanups, active, doomed>>

Compare ==
  /\ loop.pc = "compare"
  /\ active' = DOMAIN known
  /\ scan' = current \ DOMAIN known
  /\ loop' = Idle("scan")
  /\ UNCHANGED <<usb, events, known, mux, watcher, pair, record, mail, listed, cleanups,
                 current, doomed>>

(* Opening or initialising fails, there is no mux interface, no serial     *)
(* number, or the device is gone. The next poll tries again.               *)
OpenFails(p) ==
  /\ loop.pc = "scan" /\ p \in scan
  /\ scan' = scan \ {p}
  /\ UNCHANGED <<usb, events, loop, known, mux, watcher, pair, record, mail, listed,
                 cleanups, pollVars>>

(* handle_connected up to mux::spawn. The files are opened shared, so that *)
(* an earlier task of the key need not have exited.                        *)
Open(t) ==
  /\ loop.pc = "scan" /\ PlugOf(t) \in scan
  /\ usb[PlugOf(t)] = "plugged" /\ mux[t] = "none"
  /\ \A u \in Tasks : PlugOf(u) = PlugOf(t) /\ u[2] < t[2] => mux[u] # "none"
  /\ record[PhoneOf(t)] = "none" => Cardinality({u \in Tasks : pair[u] # "none"}) < Pairings
  /\ scan' = scan \ {PlugOf(t)}
  /\ mux' = [mux EXCEPT ![t] = "running"]
  /\ loop' = At("connect", t)
  /\ UNCHANGED <<usb, events, known, watcher, pair, record, mail, listed, cleanups, pollVars>>

(* connect_device and the end of handle_connected, as with nusb. *)
Connecting(t) ==
  /\ RegisterPaired(t) \/ StartPairing(t) \/ InsertKnown(t)
  /\ UNCHANGED pollVars

Stale == active \ current

(* Mutant: the removal is forgotten. *)
TakeStaleSilently(p) ==
  /\ loop.pc = "scan" /\ scan = {} /\ doomed = {}
  /\ p \in Stale
  /\ active' = active \ {p}
  /\ known' = Without(known, p)
  /\ UNCHANGED <<usb, events, scan, loop, mux, watcher, pair, record, mail, listed,
                 cleanups, current, doomed>>

(* A key that was known at the comparison and is not enumerated: its entry *)
(* is taken under the lock, if it is still there, ...                      *)
TakeStale(p) ==
  /\ loop.pc = "scan" /\ scan = {} /\ doomed = {}
  /\ p \in Stale
  /\ active' = active \ {p}
  /\ known' = Without(known, p)
  /\ doomed' = IF p \in DOMAIN known THEN {<<p, known[p]>>} ELSE {}
  /\ UNCHANGED <<usb, events, scan, loop, mux, watcher, pair, record, mail, listed,
                 cleanups, current>>

(* ... and the removal is sent after it. *)
SendStale ==
  /\ \E e \in doomed : SendRemove(e[1], e[2])
  /\ doomed' = {}
  /\ UNCHANGED <<usb, events, scan, loop, known, mux, watcher, pair, record, listed,
                 current, active>>

(* Mutant: the loop ends after the first round. *)
SleepForever ==
  /\ loop.pc = "scan" /\ scan = {} /\ doomed = {} /\ Stale = {}
  /\ loop' = Idle("asleep")
  /\ UNCHANGED <<usb, events, scan, known, mux, watcher, pair, record, mail, listed,
                 cleanups, pollVars>>

Sleep ==
  /\ loop.pc = "scan" /\ scan = {} /\ doomed = {} /\ Stale = {}
  /\ loop' = Idle("start")
  /\ UNCHANGED <<usb, events, scan, known, mux, watcher, pair, record, mail, listed,
                 cleanups, pollVars>>

PollStep ==
  \/ Enumerate \/ Compare \/ SendStale \/ Sleep
  \/ \E p \in Plugs : OpenFails(p) \/ TakeStale(p)
  \/ \E t \in Tasks : Open(t) \/ Connecting(t)

(* The tasks the loop starts, and the manager. *)
OthersStep ==
  /\ \/ ManagerStep
     \/ \E t \in Tasks :
          \/ MuxExits(t) \/ WatcherStep(t)
          \/ PairSucceeds(t) \/ PairFails(t) \/ PairRenames(t) \/ PairRegisters(t)
  /\ UNCHANGED pollVars

PollNext ==
  \/ PollStep \/ OthersStep
  \/ \E p \in Plugs : FirstPlug(p) \/ Replug(p) \/ Vanish(p)

PollSpec == PollInit /\ [][PollNext]_allVars

(* As FairSpec; and a device that is tried again and again does not refuse *)
(* to be opened every time.                                                *)
PollFairSpec ==
  /\ PollSpec
  /\ WF_allVars(PollStep) /\ WF_allVars(ManagerStep /\ UNCHANGED pollVars)
  /\ \A p \in Plugs : SF_allVars(\E t \in Tasks : PlugOf(t) = p /\ Open(t))
  /\ \A t \in Tasks :
       /\ WF_allVars(WatcherStep(t) /\ UNCHANGED pollVars)
       /\ WF_allVars((PairRenames(t) \/ PairRegisters(t)) /\ UNCHANGED pollVars)
       /\ WF_allVars((usb[PlugOf(t)] = "gone" \/ mux[t] = "stopping") /\ MuxExits(t)
                       /\ UNCHANGED pollVars)
-----------------------------------------------------------------------------
(* Properties.                                                             *)

(* The entry of a dead mux task of a phone that did not have to be paired  *)
(* has its removal on the way, whichever of them took the key.             *)
PolledCleanupPending ==
  \A n \in DOMAIN listed :
    LET t == listed[n]
    IN  mux[t] = "exited" /\ NeverPaired(PlugOf(t)) =>
          RemovalUnderWay(t) \/ <<PlugOf(t), n>> \in doomed

Served(p) == \E t \in Tasks : PlugOf(t) = p /\ mux[t] = "running" /\ Listed(t)
ClaimsLeft(p) == \E t \in Tasks : PlugOf(t) = p /\ mux[t] = "none"

(* A phone that stays plugged in ends up in the list with a mux task that  *)
(* runs, whatever removals of its earlier claims arrive late: a claim that *)
(* failed, exited or was removed by mistake is repeated by a later poll    *)
(* ("diff against the previous snapshot"). Up to the bound on claims.      *)
PhoneServed ==
  \A p \in Plugs :
    usb[p] = "plugged" ~> \/ usb[p] = "gone" \/ ~NeverPaired(p)
                          \/ Served(p) \/ ~ClaimsLeft(p)
=============================================================================
