------------------------------ MODULE Session ------------------------------
(***************************************************************************)
(* Client sessions (handle_stream and run_listen in src/src/main.rs), and  *)
(* what they do in shim mode: requests are forwarded to an upstream        *)
(* usbmuxd (upstream.rs), with the local answer to fall back on, and a     *)
(* pump relays the upstream's events and reconnects. The local manager is  *)
(* what Manager.tla implements, DeviceEvents; the upstream, which may      *)
(* crash and restart, is external. Sessions are the Readers of the         *)
(* pairing store.                                                          *)
(***************************************************************************)
EXTENDS PairingStore, Sequences, SequencesExt

CONSTANTS
  Base,         \* SHIM_NETWORK_ID_BASE
  UpIds,        \* ids the upstream gives its devices
  LocalDevices, \* bound: devices the manager announces
  MaxEpochs,    \* bound: lives of the upstream
  MaxDrops,     \* bound: the last connection of a pump that breaks under a living upstream
  MaxFrames,    \* bound: frames on their way when a device of the upstream comes or goes
  Scenes        \* bound: the configurations and surroundings, see SessionAssumption

Kinds == {"Malformed", "Listen", "ListDevices", "ReadPairRecord", "SavePairRecord",
          "ReadBUID", "Connect", "Unknown"}

ASSUME SessionAssumption ==
  /\ {Base, LocalDevices, MaxEpochs, MaxDrops, MaxFrames} \subseteq Nat
  /\ UpIds \subseteq 1..(Base - 1)
  /\ Scenes \subseteq [shim : BOOLEAN,                        \* there is an upstream
                      kinds : SUBSET Kinds, requests : Nat,  \* of a client
                      devices : SUBSET {"local", "upstream"},  \* that come and go
                      store : BOOLEAN]             \* phones are paired and looked up

VARIABLES
  scene,        \* the configuration, and what happens around it
  present, announced, subscribed, log,  \* the manager, as DeviceEvents has it
  upstream,     \* [up, devices, epoch]: the upstream muxer
  session,      \* c -> [pc, request, epoch]
  asked,        \* c -> the requests the session has read
  replies,      \* c -> the tags (positions in asked) it has answered
  told,         \* c -> [local, up]: what the client was told by Listen; up names, for
                \* each device it sees, the connection that told of it
  pump,         \* c -> [pc, connection, linked, aborted]: upstream_listen_pump, how often it
                \* connected, whether that connection stands, and whether its guard is gone
  link,         \* c -> frames from the upstream to the pump
  relay         \* c -> frames from the pump to the session

managerVars == <<present, announced, subscribed, log>>
listenVars == <<told, pump, link, relay>>
vars == <<scene, managerVars, upstream, session, asked, replies, listenVars, storeVars>>

Sessions == Readers

(* new_manager_thread: the first id depends on the mode. *)
FirstId == IF scene.shim THEN Base ELSE 1
LocalIds == FirstId..(FirstId + LocalDevices - 1)

Local == INSTANCE DeviceEvents
           WITH Ids <- 1..(Base + LocalDevices), Listeners <- Sessions

Requests == {[kind |-> k, id |-> 0, phone |-> None, owner |-> "none"] :
               k \in scene.kinds \ {"Connect", "ReadPairRecord", "SavePairRecord"}}
            \cup {[kind |-> k, id |-> 0, phone |-> p, owner |-> "none"] :
                    k \in scene.kinds \cap {"ReadPairRecord", "SavePairRecord"}, p \in Phones}
            \cup {[kind |-> "Connect", id |-> i, phone |-> None, owner |-> "manager"] :
                    i \in IF "Connect" \in scene.kinds THEN announced ELSE {}}
            \cup {[kind |-> "Connect", id |-> i, phone |-> None, owner |-> "upstream"] :
                    i \in IF "Connect" \in scene.kinds /\ scene.shim THEN UpIds ELSE {}}

NoRequest == [kind |-> "none", id |-> 0, phone |-> None, owner |-> "none"]

Init ==
  /\ scene \in Scenes
  /\ Local!Init
  /\ upstream = [up |-> scene.shim, devices |-> {}, epoch |-> 1]
  /\ session = [c \in Sessions |-> [pc |-> "waiting", request |-> NoRequest, epoch |-> 0]]
  /\ asked = [c \in Sessions |-> <<>>]
  /\ replies = [c \in Sessions |-> <<>>]
  /\ told = [c \in Sessions |-> [local |-> 0, up |-> [i \in UpIds |-> 0]]]
  /\ pump = [c \in Sessions |-> [pc |-> "off", connection |-> 0, linked |-> FALSE, aborted |-> FALSE]]
  /\ link = [c \in Sessions |-> <<>>]
  /\ relay = [c \in Sessions |-> <<>>]
  /\ StoreInit
  /\ ~scene.store => /\ \A p \in Phones : disk[p] = Absent
                     /\ disk[SystemConfiguration] = Absent
                     /\ trusts = [p \in Phones |-> {}]
-----------------------------------------------------------------------------
(* Reading a request.                                                      *)

Request(c) == session[c].request
At(c, pc) == session[c].pc = pc
Goto(c, pc) == session' = [session EXCEPT ![c].pc = pc]

(* The reply to the current request is written to the client. *)
Reply(c) == replies' = [replies EXCEPT ![c] = Append(@, Len(asked[c]))]

(* Mutant: the base belongs to the upstream. *)
ForUpstreamAtMost(id) == scene.shim /\ id <= Base

(* The muxer whose device a Connect is for. *)
ForUpstream(id) == scene.shim /\ id < Base

(* Where the handler goes with a request. *)
First(r) ==
  CASE r.kind = "Malformed" -> "closed"
    [] r.kind = "Listen" -> "listen"
    [] r.kind = "Connect" -> IF ForUpstream(r.id) THEN "handover" ELSE "lookup"
    [] r.kind = "Unknown" /\ ~scene.shim -> "waiting"
    [] OTHER -> IF scene.shim THEN "forward" ELSE "local"

ReadRequest(c) ==
  /\ At(c, "waiting") /\ Len(asked[c]) < scene.requests
  /\ \E r \in Requests :
       /\ asked' = [asked EXCEPT ![c] = Append(@, r.kind)]
       /\ session' = [session EXCEPT ![c].pc = First(r), ![c].request = r]
  /\ UNCHANGED <<scene, managerVars, upstream, replies, listenVars, storeVars>>

(* The client is gone, or the other end of its splice: the next read or    *)
(* write ends the session.                                                 *)
ClientCloses(c) ==
  /\ session[c].pc \in {"waiting", "lookup", "dialing", "awaiting", "identity",
                        "spliced", "tunnel"}
  /\ Goto(c, "closed")
  /\ UNCHANGED <<scene, managerVars, upstream, asked, replies, listenVars, storeVars>>

SessionStep ==
  UNCHANGED <<scene, managerVars, upstream, asked, listenVars>>
-----------------------------------------------------------------------------
(* Forwarding (forward_to_upstream, list_devices_merged).                  *)

(* The upstream that a connection was made to is gone, so that nobody can  *)
(* answer. A connection may also break while its upstream runs on: what    *)
(* follows from a broken one is never guarded by this.                     *)
Broken(epoch) == ~upstream.up \/ upstream.epoch # epoch

(* Without an answer the request is served locally; one that is not known  *)
(* here is left unanswered.                                                *)
FallBack(c) == Goto(c, IF Request(c).kind = "Unknown" THEN "waiting" ELSE "local")

Forward(c) ==
  /\ At(c, "forward")
  /\ \/ /\ upstream.up
        /\ session' = [session EXCEPT ![c].pc = "awaiting", ![c].epoch = upstream.epoch]
     \/ FallBack(c)
  /\ SessionStep /\ UNCHANGED <<replies, storeVars>>

(* Mutant: no continue after the forwarded answer. *)
UpstreamAnswersAndOn(c) ==
  /\ At(c, "awaiting") /\ ~Broken(session[c].epoch)
  /\ Reply(c) /\ FallBack(c)
  /\ SessionStep /\ UNCHANGED storeVars

UpstreamAnswers(c) ==
  /\ At(c, "awaiting") /\ ~Broken(session[c].epoch)
  /\ Reply(c) /\ Goto(c, "waiting")
  /\ SessionStep /\ UNCHANGED storeVars

(* Mutant: a lost connection is not noticed. *)
UpstreamLostUnnoticed(c) ==
  /\ At(c, "awaiting") /\ Broken(session[c].epoch)
  /\ Request(c).kind = "Unknown"
  /\ FallBack(c)
  /\ SessionStep /\ UNCHANGED <<replies, storeVars>>

(* The upstream dies, or the connection breaks or carries no proper frame, *)
(* before or after the upstream did what it was asked.                     *)
UpstreamLost(c) ==
  /\ At(c, "awaiting")
  /\ FallBack(c)
  /\ SessionStep /\ UNCHANGED <<replies, storeVars>>
-----------------------------------------------------------------------------
(* Local answers.                                                          *)

Local_(c, kind) == At(c, "local") /\ Request(c).kind = kind

AnswerListDevices(c) ==
  /\ Local_(c, "ListDevices")
  /\ Reply(c) /\ Goto(c, "waiting")
  /\ SessionStep /\ UNCHANGED storeVars

(* A record that is not there, or does not parse, ends the session. *)
AnswerReadPairRecord(c) ==
  /\ Local_(c, "ReadPairRecord")
  /\ \/ /\ disk[Request(c).phone].state = "whole"
        /\ Reply(c) /\ Goto(c, "waiting")
     \/ /\ disk[Request(c).phone].state # "whole"
        /\ Goto(c, "closed") /\ UNCHANGED replies
  /\ SessionStep /\ UNCHANGED storeVars

(* The record of a client that paired the phone itself. A request that     *)
(* names a device the manager does not have ends the session.              *)
BeginSavePairRecord(c) ==
  /\ Local_(c, "SavePairRecord")
  /\ \/ Truncate(Request(c).phone) /\ Goto(c, "saving") /\ UNCHANGED replies
     \/ Reply(c) /\ Goto(c, "waiting") /\ UNCHANGED <<disk, lookup>>
     \/ Goto(c, "closed") /\ UNCHANGED <<replies, disk, lookup>>
  /\ SessionStep /\ UNCHANGED <<trusts, identity, pairing, hostIds, macs>>

EndSavePairRecord(c) ==
  /\ At(c, "saving")
  /\ \/ SaveRecord(Request(c).phone, AnotherHost)
     \/ UNCHANGED <<disk, lookup>>
  /\ Reply(c) /\ Goto(c, "waiting")
  /\ SessionStep /\ UNCHANGED <<trusts, identity, pairing, hostIds, macs>>

(* get_buid: the model follows one call of a session. *)
BeginReadBuid(c) ==
  /\ Local_(c, "ReadBUID")
  /\ \/ CallIdentity(c) /\ Goto(c, "identity") /\ UNCHANGED replies
     \/ /\ identity[c].pc = "done"
        /\ Reply(c) /\ Goto(c, "waiting") /\ UNCHANGED identity
  /\ SessionStep /\ UNCHANGED <<disk, trusts, pairing, hostIds, macs, lookup>>

EndReadBuid(c) ==
  /\ At(c, "identity") /\ identity[c].pc = "done"
  /\ Reply(c) /\ Goto(c, "waiting")
  /\ SessionStep /\ UNCHANGED storeVars

LocalStep(c) ==
  \/ AnswerListDevices(c) \/ AnswerReadPairRecord(c)
  \/ BeginSavePairRecord(c) \/ EndSavePairRecord(c)
  \/ BeginReadBuid(c) \/ EndReadBuid(c)
-----------------------------------------------------------------------------
(* Connect.                                                                *)

(* GetDeviceConnection. *)
Lookup(c) ==
  /\ At(c, "lookup")
  /\ \/ Request(c).id \in present /\ Goto(c, "dialing") /\ UNCHANGED replies
     \/ Request(c).id \notin present /\ Reply(c) /\ Goto(c, "waiting")
  /\ SessionStep /\ UNCHANGED storeVars

Dial(c) ==
  /\ At(c, "dialing") /\ Reply(c)
  /\ Goto(c, "spliced") \/ Goto(c, "waiting")
  /\ SessionStep /\ UNCHANGED storeVars

(* The upstream cannot be reached, or the connection fails under the       *)
(* request: netmuxd answers.                                               *)
HandOver(c) ==
  /\ At(c, "handover")
  /\ \/ /\ upstream.up
        /\ session' = [session EXCEPT ![c].pc = "tunnel", ![c].epoch = upstream.epoch]
        /\ UNCHANGED replies
     \/ Reply(c) /\ Goto(c, "waiting")
  /\ SessionStep /\ UNCHANGED storeVars

(* The upstream's Result comes over the splice. *)
TunnelAnswers(c) ==
  /\ At(c, "tunnel") /\ ~Broken(session[c].epoch)
  /\ Len(asked[c]) \notin Range(replies[c])
  /\ Reply(c) /\ UNCHANGED session
  /\ SessionStep /\ UNCHANGED storeVars

ConnectStep(c) == Lookup(c) \/ Dial(c) \/ HandOver(c) \/ TunnelAnswers(c)
-----------------------------------------------------------------------------
(* Listen (run_listen).                                                    *)

Listen(c) ==
  /\ At(c, "listen")
  /\ Reply(c) /\ Goto(c, "subscribing")
  /\ SessionStep /\ UNCHANGED storeVars

Subscribe(c) ==
  /\ At(c, "subscribing")
  /\ Local!Join(c)
  /\ Goto(c, "listening")
  /\ pump' = IF scene.shim THEN [pump EXCEPT ![c].pc = "connecting"] ELSE pump
  /\ UNCHANGED <<scene, upstream, asked, replies, told, link, relay, storeVars>>

RelayLocal(c) ==
  /\ At(c, "listening") /\ told[c].local < Len(log[c])
  /\ told' = [told EXCEPT ![c].local = @ + 1]
  /\ UNCHANGED <<scene, managerVars, upstream, session, asked, replies, pump, link,
                 relay, storeVars>>

(* What the client makes of the frame. *)
Applied(view, frame) ==
  CASE frame.type = "Attached" -> [view EXCEPT ![frame.id] = frame.connection]
    [] frame.type = "Detached" -> [view EXCEPT ![frame.id] = 0]
    [] OTHER -> view

RelayUpstream(c) ==
  /\ At(c, "listening") /\ relay[c] # <<>>
  /\ told' = [told EXCEPT ![c].up = Applied(@, Head(relay[c]))]
  /\ relay' = [relay EXCEPT ![c] = Tail(@)]
  /\ UNCHANGED <<scene, managerVars, upstream, session, asked, replies, pump, link,
                 storeVars>>

(* Mutant: the pump is not aborted, and ends with the next frame it has. *)
ListenEndsNoGuard(c) ==
  /\ session[c].pc \in {"subscribing", "listening"}
  /\ Goto(c, "closed")
  /\ subscribed' = subscribed \ {c}
  /\ relay' = [relay EXCEPT ![c] = <<>>]
  /\ UNCHANGED <<scene, present, announced, log, upstream, asked, replies, told, pump,
                 link, storeVars>>

(* The client is gone: the guard aborts the pump, and the receiver and the *)
(* listener are dropped. The pump itself does not end yet.                 *)
ListenEnds(c) ==
  /\ session[c].pc \in {"subscribing", "listening"}
  /\ Goto(c, "closed")
  /\ subscribed' = subscribed \ {c}
  /\ relay' = [relay EXCEPT ![c] = <<>>]
  /\ pump' = [pump EXCEPT ![c].aborted = pump[c].pc # "off"]
  /\ UNCHANGED <<scene, present, announced, log, upstream, asked, replies, told, link,
                 storeVars>>
-----------------------------------------------------------------------------
(* The pump (upstream_listen_pump). The length of the backoff is left out. *)

PumpStep ==
  UNCHANGED <<scene, managerVars, upstream, session, asked, replies, told, storeVars>>

PumpPc(c, pc) == pump' = [pump EXCEPT ![c].pc = pc]

(* The task is over, and its connection with it. *)
PumpEnds(c) ==
  /\ pump' = [pump EXCEPT ![c].pc = "off", ![c].linked = FALSE]
  /\ link' = [link EXCEPT ![c] = <<>>]

(* The connection that carries a frame is in it for the properties: the    *)
(* code and the client see the type and the id.                            *)
Frame(type, id, connection) == [type |-> type, id |-> id, connection |-> connection]

(* open_upstream_listen: the upstream answers Listen with a Result and its *)
(* devices.                                                                *)
PumpConnects(c) ==
  /\ pump[c].pc = "connecting"
  /\ \/ LET n == pump[c].connection + 1
        IN  /\ upstream.up
            /\ pump' = [pump EXCEPT ![c].pc = "opening", ![c].connection = n,
                                    ![c].linked = TRUE]
            /\ link' = [link EXCEPT ![c] = <<Frame("Result", 0, n)>>
                         \o SetToSeq({Frame("Attached", i, n) : i \in upstream.devices})]
     \/ ~upstream.up /\ PumpPc(c, "sleeping") /\ UNCHANGED link
  /\ UNCHANGED relay /\ PumpStep

(* Mutant: whatever has arrived is taken for the Result. *)
PumpOpensEagerly(c) ==
  /\ pump[c].pc = "opening" /\ link[c] # <<>>
  /\ link' = [link EXCEPT ![c] = <<>>]
  /\ PumpPc(c, "reading")
  /\ UNCHANGED relay /\ PumpStep

(* The Result is consumed. *)
PumpOpens(c) ==
  /\ pump[c].pc = "opening" /\ link[c] # <<>>
  /\ link' = [link EXCEPT ![c] = Tail(@)]
  /\ PumpPc(c, "reading")
  /\ UNCHANGED relay /\ PumpStep

(* A pump that was aborted while it ran still reads what has arrived; the  *)
(* receiver is gone, and it returns.                                       *)
PumpReads(c) ==
  /\ pump[c].pc = "reading" /\ link[c] # <<>>
  /\ \/ /\ At(c, "listening")
        /\ relay' = [relay EXCEPT ![c] = Append(@, Head(link[c]))]
        /\ link' = [link EXCEPT ![c] = Tail(@)] /\ UNCHANGED pump
     \/ ~At(c, "listening") /\ PumpEnds(c) /\ UNCHANGED relay
  /\ PumpStep

(* Mutant: the pump returns when the stream ends. *)
PumpGivesUp(c) ==
  /\ pump[c].pc \in {"opening", "reading"} /\ link[c] = <<>> /\ ~pump[c].linked
  /\ PumpPc(c, "off")
  /\ UNCHANGED <<link, relay>> /\ PumpStep

PumpDropped(c) ==
  /\ pump[c].pc \in {"opening", "reading"} /\ link[c] = <<>> /\ ~pump[c].linked
  /\ PumpPc(c, "sleeping")
  /\ UNCHANGED <<link, relay>> /\ PumpStep

PumpWakes(c) ==
  /\ pump[c].pc = "sleeping" /\ ~pump[c].aborted
  /\ PumpPc(c, "connecting")
  /\ UNCHANGED <<link, relay>> /\ PumpStep

PumpAct(c) ==
  PumpConnects(c) \/ PumpOpens(c) \/ PumpReads(c) \/ PumpDropped(c) \/ PumpWakes(c)

(* abort() takes effect at the await the task waits at, or comes to next. *)
PumpAborted(c) ==
  /\ pump[c].aborted /\ pump[c].pc # "off"
  /\ PumpEnds(c)
  /\ UNCHANGED relay /\ PumpStep
-----------------------------------------------------------------------------
(* The surroundings: the upstream, its devices, and the manager's.         *)

UpstreamStep ==
  /\ scene.shim
  /\ UNCHANGED <<scene, managerVars, session, asked, replies, told, relay, storeVars>>

(* The connection of the pump stands. *)
Attend(c) == pump[c].pc \in {"opening", "reading"} /\ pump[c].linked

Send(type, id) ==
  link' = [c \in Sessions |-> IF Attend(c)
                              THEN Append(link[c], Frame(type, id, pump[c].connection))
                              ELSE link[c]]

Quiet == \A c \in Sessions : Len(link[c]) + Len(relay[c]) < MaxFrames

UpstreamAttaches(id) ==
  /\ Quiet /\ upstream.up /\ "upstream" \in scene.devices /\ id \notin upstream.devices
  /\ upstream' = [upstream EXCEPT !.devices = @ \cup {id}]
  /\ Send("Attached", id) /\ UNCHANGED pump /\ UpstreamStep

UpstreamDetaches(id) ==
  /\ Quiet /\ upstream.up /\ id \in upstream.devices
  /\ upstream' = [upstream EXCEPT !.devices = @ \ {id}]
  /\ Send("Detached", id) /\ UNCHANGED pump /\ UpstreamStep

UpstreamCrashes ==
  /\ upstream.up
  /\ upstream' = [upstream EXCEPT !.up = FALSE, !.devices = {}]
  /\ pump' = [c \in Sessions |-> [pump[c] EXCEPT !.linked = FALSE]]
  /\ UNCHANGED link /\ UpstreamStep

(* The stream of one pump drops, or carries a frame shorter than its       *)
(* header, while the upstream runs on.                                     *)
StreamDrops(c) ==
  /\ Attend(c) /\ pump[c].connection <= MaxDrops
  /\ pump' = [pump EXCEPT ![c].linked = FALSE]
  /\ UNCHANGED <<upstream, link>> /\ UpstreamStep

(* What was on its way over a broken connection need not arrive. *)
FrameLost(c) ==
  /\ ~pump[c].linked /\ link[c] # <<>>
  /\ link' = [link EXCEPT ![c] = Front(@)]
  /\ UNCHANGED <<upstream, pump>> /\ UpstreamStep

(* It numbers its devices from the start again. *)
UpstreamRestarts ==
  /\ ~upstream.up /\ upstream.epoch < MaxEpochs
  /\ \E devices \in IF "upstream" \in scene.devices THEN SUBSET UpIds ELSE {{}} :
       upstream' = [up |-> TRUE, devices |-> devices, epoch |-> upstream.epoch + 1]
  /\ UNCHANGED <<pump, link>> /\ UpstreamStep

ManagerStep ==
  /\ "local" \in scene.devices
  /\ \E id \in LocalIds : Local!Announce(id) \/ Local!Withdraw(id)
  /\ UNCHANGED <<scene, upstream, session, asked, replies, listenVars, storeVars>>

IdentityCall(c) ==
  /\ IdentityStep(c)
  /\ UNCHANGED <<scene, managerVars, upstream, session, asked, replies, listenVars>>

(* In shim mode netmuxd leaves USB to the upstream. *)
StoreStep ==
  /\ scene.store
  /\ MdnsStep \/ (~scene.shim /\ \E p \in Phones : PairingStep(p))
  /\ UNCHANGED <<scene, managerVars, upstream, session, asked, replies, listenVars>>

Serve(c) ==
  \/ Forward(c) \/ UpstreamAnswers(c) \/ UpstreamLost(c)
  \/ LocalStep(c) \/ ConnectStep(c) \/ Listen(c) \/ Subscribe(c)

Next ==
  \/ \E c \in Sessions :
       \/ ReadRequest(c) \/ Serve(c) \/ ClientCloses(c)
       \/ RelayLocal(c) \/ RelayUpstream(c) \/ ListenEnds(c)
       \/ PumpAct(c) \/ PumpAborted(c) \/ StreamDrops(c) \/ FrameLost(c)
  \/ \E id \in UpIds : UpstreamAttaches(id) \/ UpstreamDetaches(id)
  \/ UpstreamCrashes \/ UpstreamRestarts
  \/ ManagerStep \/ StoreStep \/ \E c \in Callers : IdentityCall(c)

Spec == Init /\ [][Next]_vars

(* The runtime runs every task; select! takes a ready branch at random, so *)
(* neither source of events is starved; a task that is aborted ends at an  *)
(* await. The upstream answers while it is up, and a dial returns, as TCP  *)
(* makes it after a time (for USB see ConnectReturns of UsbMux). Crashes,  *)
(* restarts, dropped connections, devices and clients owe nothing.         *)
FairSpec ==
  /\ Spec
  /\ \A c \in Sessions :
       /\ WF_vars(Serve(c)) /\ WF_vars(RelayLocal(c)) /\ WF_vars(RelayUpstream(c))
       /\ WF_vars(PumpAct(c)) /\ WF_vars(PumpAborted(c)) /\ WF_vars(IdentityCall(c))
-----------------------------------------------------------------------------
(* Properties.                                                             *)

(* Requests are answered once and in turn: no answer comes twice or out of *)
(* order, and a session that reads the next request has answered the       *)
(* earlier ones, whichever of upstream and fallback did it. A request of a *)
(* type that nobody here knows may go without (handle_stream).             *)
RepliesInTurn ==
  \A c \in Sessions :
    /\ \A i, j \in DOMAIN replies[c] : i < j => replies[c][i] < replies[c][j]
    /\ At(c, "waiting") =>
         {t \in DOMAIN asked[c] : asked[c][t] # "Unknown"} \subseteq Range(replies[c])

(* A Connect goes to the muxer that announced the id, also at the limit of *)
(* their ranges.                                                           *)
RoutedToOwner ==
  \A c \in Sessions :
    /\ session[c].pc \in {"handover", "tunnel"} => Request(c).owner = "upstream"
    /\ session[c].pc \in {"lookup", "dialing", "spliced"} => Request(c).owner = "manager"

(* What the client makes of device i once it has the frames: the last one  *)
(* about i decides, or, when there is none, its view so far.               *)
Shows(view, frames, i, connection) ==
  \/ view[i] = connection /\ \A k \in DOMAIN frames : frames[k].id # i
  \/ \E k \in DOMAIN frames :
       /\ frames[k].id = i /\ frames[k].type = "Attached"
       /\ frames[k].connection = connection
       /\ \A j \in DOMAIN frames : frames[j].id = i => j <= k

(* While the connection of a pump stands, what its client was told over it *)
(* and what is on the way add up to the devices of the upstream, whatever  *)
(* was cut off, replayed or left over from earlier connections. A device   *)
(* that detaches between two connections, also those to one life of the    *)
(* upstream, is in no frame: what an earlier connection told of it stays.  *)
UpstreamViewFresh ==
  \A c \in Sessions :
    At(c, "listening") /\ Attend(c) =>
      \A i \in UpIds : Shows(told[c].up, relay[c] \o link[c], i, pump[c].connection)
                       <=> i \in upstream.devices

(* A listening client learns of every device that stays, of either muxer,  *)
(* although connections broke and the upstream crashed and came back.      *)
ListenersLearn ==
  \A c \in Sessions :
    /\ \A i \in UpIds :
         (At(c, "listening") /\ i \in upstream.devices)
           ~> (~At(c, "listening") \/ i \notin upstream.devices
                \/ told[c].up[i] = pump[c].connection)
    /\ At(c, "listening")
         ~> (~At(c, "listening")
              \/ Local!Believed(SubSeq(log[c], 1, told[c].local)) = present)

(* A session that has read a request answers it, or ends. *)
AnswersOrCloses ==
  \A c \in Sessions :
    session[c].pc \in {"forward", "awaiting", "local", "saving", "identity", "lookup",
                       "dialing", "handover", "listen"}
      ~> session[c].pc \in {"waiting", "closed", "subscribing", "spliced", "tunnel"}

(* "the guard aborts it when this Listen session ends": whatever the pump  *)
(* was at, and however often it has still to connect, none stays connected *)
(* to the upstream for a client that is gone.                              *)
PumpReleased == \A c \in Sessions : At(c, "closed") ~> pump[c].pc = "off"
=============================================================================
