------------------------------- MODULE UsbMux -------------------------------
(***************************************************************************)
(* The per-device mux task (src/src/usb/mux.rs): virtual TCP connections   *)
(* over one USB pipe, with the two tasks of each connection, the pump      *)
(* (client to device) and the forwarder (device to client). Payload is     *)
(* counted, not carried. The device and the client's end of the duplex     *)
(* stream are external: they are modelled from how the task uses them.     *)
(***************************************************************************)
EXTENDS Integers, Sequences, FiniteSets, SequencesExt, Sums

CONSTANTS
  Conns,        \* connect() calls
  MaxSport,     \* 65535
  SeqSpace,     \* 2^32
  MaxPayload,   \* MAX_PAYLOAD
  RxWindow,     \* RX_WINDOW
  DuplexBuf,    \* DUPLEX_BUF
  HighWater,    \* TX_HIGH_WATER
  LowWater,     \* TX_LOW_WATER
  CmdCap,       \* capacity of the command channel
  DataCap,      \* capacity of the pumps' channel
  Grain,        \* 256, the unit windows are advertised in
  DeviceWindow, \* receive buffer of the device, per connection
  Loads,        \* bound: the [callers, out, in] a behaviour may have
  Faults        \* whether the USB pipe may fail

ASSUME SizesAssumption ==
  /\ {MaxSport, SeqSpace, MaxPayload, CmdCap, DataCap, Grain} \subseteq Nat \ {0}
  /\ {RxWindow, DuplexBuf, HighWater, LowWater, DeviceWindow} \subseteq Nat
  /\ 0 < LowWater /\ LowWater <= HighWater /\ MaxPayload <= DuplexBuf
  /\ DeviceWindow < SeqSpace /\ RxWindow < SeqSpace
ASSUME ConnsAssumption == "Shutdown" \notin Conns     \* a command of its own
ASSUME LoadsAssumption == Loads \subseteq [callers : SUBSET Conns, out : Nat, in : Nat]
ASSUME FaultsAssumption == Faults \in BOOLEAN

VARIABLES
  mux,          \* "handshake", "running" or "exited"
  writerUp,     \* the writer task still takes frames
  nextSport,
  connections,  \* sport -> Connection
  cmds,         \* the command channel
  dataChan,     \* the pumps' channel: <<sport, n>>, n = 0 for None
  drainChan,    \* the forwarders' channel: <<sport, n>>
  toDevice,     \* frames handed to the writer, oldest first
  fromDevice,   \* frames the reader has not handed over yet
  calls,        \* c -> outcome of connect()
  sportOf,      \* c -> the sport its tasks captured
  pump,         \* c -> [pc, chunk]
  pause,        \* c -> tx_pause
  permit,       \* c -> tx_resume holds a permit
  forwarder,    \* c -> [pc, queue]
  user,         \* c -> client's end of the duplex: [side, out, in, given]
  device,       \* sport -> the device's end
  load          \* who calls, and what each client and each device has to send

taskVars == <<mux, writerUp, nextSport, connections, cmds>>
vars == <<mux, writerUp, nextSport, connections, cmds, dataChan, drainChan,
          toDevice, fromDevice, calls, sportOf, pump, pause, permit, forwarder,
          user, device>>

Sports == 1..MaxSport
Least(a, b) == IF a <= b THEN a ELSE b
Less(a, b) == IF a <= b THEN 0 ELSE a - b           \* saturating_sub
Put(f, x, v) == [y \in DOMAIN f \cup {x} |-> IF y = x THEN v ELSE f[y]]
Without(f, x) == [y \in DOMAIN f \ {x} |-> f[y]]

Closed == [open |-> FALSE, rcvd |-> 0, held |-> 0, sent |-> 0, ack |-> 0,
           win |-> 0, told |-> <<0, 0>>]

Init ==
  /\ mux = "handshake" /\ writerUp = TRUE
  /\ nextSport = 1
  /\ connections = <<>>
  /\ cmds = <<>> /\ dataChan = <<>> /\ drainChan = <<>>
  /\ toDevice = <<>> /\ fromDevice = <<>>
  /\ calls = [c \in Conns |-> "idle"]
  /\ sportOf = [c \in Conns |-> 0]
  /\ pump = [c \in Conns |-> [pc |-> "off", chunk |-> 0]]
  /\ pause = [c \in Conns |-> FALSE]
  /\ permit = [c \in Conns |-> FALSE]
  /\ forwarder = [c \in Conns |-> [pc |-> "off", queue |-> <<>>]]
  /\ user = [c \in Conns |-> [side |-> "none", out |-> 0, in |-> 0, given |-> 0]]
  /\ device = [s \in Sports |-> Closed]
  /\ load \in Loads
-----------------------------------------------------------------------------
(* Connections and frames.                                                 *)

NewConnection(c) ==
  [client |-> c, state |-> "Connecting", txSeq |-> 0, txAck |-> 0, rxAck |-> 0,
   rxWin |-> 0, rxBuffered |-> 0, pending |-> 0, clientClosed |-> FALSE]

(* Mutant: the window is always advertised as open. *)
WindowFixed(conn) == RxWindow

Window(conn) == Less(RxWindow, conn.rxBuffered)

(* send_tcp: every frame carries the connection's ack and its free space. *)
Frame(s, conn, flags, len) ==
  [sport |-> s, flags |-> flags, seq |-> conn.txSeq, ack |-> conn.txAck,
   win |-> (Window(conn) \div Grain) * Grain, len |-> len]

Inflight(conn) == (conn.txSeq - conn.rxAck) % SeqSpace

(* Mutant: the bytes already in flight are not counted. *)
SendableIgnoresInflight(conn) == Least(conn.pending, conn.rxWin)

(* What flush_pending sends: as much as the device's window admits, in     *)
(* frames of at most MAX_PAYLOAD bytes.                                    *)
Sendable(conn) == Least(conn.pending, Less(conn.rxWin, Inflight(conn)))

(* Mutant: all frames of one flush carry the same seq. *)
FlushFramesSameSeq(s, conn) ==
  LET n == Sendable(conn)
      frames == (n + MaxPayload - 1) \div MaxPayload
  IN  [i \in 1..frames |-> Frame(s, conn, "ACK", Least(MaxPayload, n - (i - 1) * MaxPayload))]

FlushFrames(s, conn) ==
  LET n == Sendable(conn)
      frames == (n + MaxPayload - 1) \div MaxPayload
  IN  [i \in 1..frames |->
         Frame(s, [conn EXCEPT !.txSeq = (@ + (i - 1) * MaxPayload) % SeqSpace],
               "ACK", Least(MaxPayload, n - (i - 1) * MaxPayload))]

(* Mutants: what does not fit is dropped; the sequence number never wraps. *)
FlushedDropsRest(conn) ==
  LET n == Sendable(conn)
  IN  [conn EXCEPT !.pending = 0, !.txSeq = (@ + n) % SeqSpace]

FlushedNoWrap(conn) ==
  LET n == Sendable(conn)
  IN  [conn EXCEPT !.pending = @ - n, !.txSeq = @ + n]

Flushed(conn) ==
  LET n == Sendable(conn)
  IN  [conn EXCEPT !.pending = @ - n, !.txSeq = (@ + n) % SeqSpace]

(* Mutant: the pause ends and the pump is not notified. *)
ResumeQuietly(c, pending) ==
  LET wake == pause[c] /\ pending < LowWater
  IN  /\ pause' = [pause EXCEPT ![c] = @ /\ ~wake]
      /\ UNCHANGED permit

(* The end of flush_pending: the pump is resumed below the low mark. *)
Resume(c, pending) ==
  LET wake == pause[c] /\ pending < LowWater
  IN  /\ pause' = [pause EXCEPT ![c] = @ /\ ~wake]
      /\ permit' = [permit EXCEPT ![c] = @ \/ wake]

Emit(frames) == writerUp /\ toDevice' = toDevice \o frames

(* Mutant: the reply of a connecting call is kept for ever. *)
TeardownSilently(s) ==
  /\ connections' = Without(connections, s)
  /\ UNCHANGED calls

(* teardown: rx_tx is dropped with the connection, and a call that still   *)
(* waits is refused.                                                       *)
Teardown(s) ==
  /\ connections' = Without(connections, s)
  /\ calls' = IF connections[s].state = "Connecting"
              THEN [calls EXCEPT ![connections[s].client] = "refused"] ELSE calls

(* The connection of a client still has its rx_tx. *)
RxOpen(c) == \E s \in DOMAIN connections :
               connections[s].client = c /\ connections[s].state = "Connected"
-----------------------------------------------------------------------------
(* The clients of the handle.                                              *)

CallConnect(c) ==
  /\ calls[c] = "idle" /\ c \in load.callers
  /\ \/ /\ mux # "exited" /\ Len(cmds) < CmdCap
        /\ cmds' = Append(cmds, c)
        /\ calls' = [calls EXCEPT ![c] = "calling"]
     \/ /\ mux = "exited"
        /\ calls' = [calls EXCEPT ![c] = "gone"]
        /\ UNCHANGED cmds
  /\ UNCHANGED <<mux, writerUp, nextSport, connections, dataChan, drainChan,
                 toDevice, fromDevice, sportOf, pump, pause, permit, forwarder,
                 user, device>>

CallShutdown ==
  /\ mux # "exited" /\ Len(cmds) < CmdCap
  /\ "Shutdown" \notin Range(cmds)
  /\ cmds' = Append(cmds, "Shutdown")
  /\ UNCHANGED <<mux, writerUp, nextSport, connections, dataChan, drainChan,
                 toDevice, fromDevice, calls, sportOf, pump, pause, permit,
                 forwarder, user, device>>

UserStep(c) ==
  /\ user[c].side # "none"
  /\ UNCHANGED <<taskVars, dataChan, drainChan, toDevice, fromDevice, calls,
                 sportOf, pump, pause, permit, forwarder, device>>

(* The read half of the duplex lives in the pump. *)
UserWrites(c) ==
  /\ user[c].side = "open" /\ pump[c].pc # "done"
  /\ user[c].given < load.out /\ user[c].out < DuplexBuf
  /\ user' = [user EXCEPT ![c].out = @ + 1, ![c].given = @ + 1]
  /\ UserStep(c)

UserReads(c) ==
  /\ user[c].in > 0 /\ user[c].side # "dropped"
  /\ user' = [user EXCEPT ![c].in = 0]
  /\ UserStep(c)

(* The client's socket ends: the splice shuts the write side down. *)
UserShuts(c) ==
  /\ user[c].side = "open"
  /\ user' = [user EXCEPT ![c].side = "shut"]
  /\ UserStep(c)

(* The splice is killed or fails: the stream is dropped. *)
UserDrops(c) ==
  /\ user[c].side \in {"open", "shut"}
  /\ user' = [user EXCEPT ![c].side = "dropped", ![c].in = 0]
  /\ UserStep(c)
-----------------------------------------------------------------------------
(* The pump and the forwarder of a connection.                             *)

PumpStep(c) ==
  UNCHANGED <<taskVars, drainChan, toDevice, fromDevice, calls, sportOf,
              forwarder, device>>

(* Mutant: the pump does not look at tx_pause. *)
PumpNeverWaits(c) ==
  /\ pump[c].pc = "check"
  /\ pump' = [pump EXCEPT ![c].pc = "reading"]
  /\ UNCHANGED <<dataChan, pause, permit, user>> /\ PumpStep(c)

(* while tx_pause: tx_resume.notified().await *)
PumpChecks(c) ==
  /\ pump[c].pc = "check"
  /\ pump' = [pump EXCEPT ![c].pc = IF pause[c] THEN "waiting" ELSE "reading"]
  /\ UNCHANGED <<dataChan, pause, permit, user>> /\ PumpStep(c)

PumpNotified(c) ==
  /\ pump[c].pc = "waiting" /\ permit[c]
  /\ permit' = [permit EXCEPT ![c] = FALSE]
  /\ pump' = [pump EXCEPT ![c].pc = "check"]
  /\ UNCHANGED <<dataChan, pause, user>> /\ PumpStep(c)

PumpReads(c) ==
  /\ pump[c].pc = "reading"
  /\ LET n == Least(user[c].out, MaxPayload)
     IN  /\ n > 0 \/ user[c].side \in {"shut", "dropped"}
         /\ pump' = [pump EXCEPT ![c] = [pc |-> "sending", chunk |-> n]]
         /\ user' = [user EXCEPT ![c].out = @ - n]
  /\ UNCHANGED <<dataChan, pause, permit>> /\ PumpStep(c)

(* None is sent after the end of the stream, and the pump returns; it also *)
(* returns when the mux task is gone.                                      *)
PumpSends(c) ==
  /\ pump[c].pc = "sending"
  /\ \/ /\ mux = "running" /\ Len(dataChan) < DataCap
        /\ dataChan' = Append(dataChan, <<sportOf[c], pump[c].chunk>>)
        /\ pump' = [pump EXCEPT ![c] = [pc |-> IF @.chunk = 0 THEN "done" ELSE "check",
                                        chunk |-> 0]]
     \/ /\ mux = "exited"
        /\ pump' = [pump EXCEPT ![c] = [pc |-> "done", chunk |-> 0]]
        /\ UNCHANGED dataChan
  /\ UNCHANGED <<pause, permit, user>> /\ PumpStep(c)

ForwarderStep(c) ==
  /\ forwarder[c].pc = "running"
  /\ UNCHANGED <<taskVars, dataChan, toDevice, fromDevice, calls, sportOf, pump,
                 pause, permit, device>>

ForwarderWrites(c) ==
  /\ forwarder[c].queue # <<>>
  /\ LET n == Head(forwarder[c].queue)
     IN  /\ user[c].side \in {"open", "shut"} /\ user[c].in + n <= DuplexBuf
         /\ user' = [user EXCEPT ![c].in = @ + n]
         /\ drainChan' = IF mux = "running" THEN Append(drainChan, <<sportOf[c], n>>)
                         ELSE drainChan
         /\ forwarder' = [forwarder EXCEPT
              ![c] = [pc |-> IF mux = "running" THEN "running" ELSE "done",
                      queue |-> IF mux = "running" THEN Tail(@.queue) ELSE <<>>]]
  /\ ForwarderStep(c)

(* The client's end is gone, or rx_tx is and nothing is left to write. *)
ForwarderEnds(c) ==
  /\ \/ forwarder[c].queue # <<>> /\ user[c].side = "dropped"
     \/ forwarder[c].queue = <<>> /\ ~RxOpen(c)
  /\ forwarder' = [forwarder EXCEPT ![c] = [pc |-> "done", queue |-> <<>>]]
  /\ UNCHANGED <<drainChan, user>>
  /\ ForwarderStep(c)
-----------------------------------------------------------------------------
(* The mux task.                                                           *)

VersionReply ==
  /\ mux = "handshake"
  /\ mux' = "running"
  /\ UNCHANGED <<writerUp, nextSport, connections, cmds, dataChan, drainChan,
                 toDevice, fromDevice, calls, sportOf, pump, pause, permit,
                 forwarder, user, device>>

(* The task returns: open connections are reset and torn down, and the     *)
(* receivers of its channels are dropped with what they hold.              *)
Exit ==
  /\ mux' = "exited"
  /\ LET resets == SetToSeq({Frame(s, connections[s], "RST", 0) : s \in DOMAIN connections})
     IN  toDevice' = IF writerUp THEN toDevice \o resets ELSE toDevice
  /\ connections' = <<>>
  /\ cmds' = <<>> /\ dataChan' = <<>> /\ drainChan' = <<>> /\ fromDevice' = <<>>
  /\ calls' = [c \in Conns |->
                 IF calls[c] # "calling" THEN calls[c]
                 ELSE IF c \in Range(cmds) THEN "gone" ELSE "refused"]
  /\ UNCHANGED <<writerUp, nextSport, sportOf, pump, pause, permit, forwarder,
                 user, device>>

MuxShutdown ==
  /\ mux = "running" /\ cmds # <<>> /\ Head(cmds) = "Shutdown"
  /\ Exit

(* A read fails, or the VERSION reply does not come or is not understood. *)
ReadFails == Faults /\ mux # "exited" /\ Exit

(* A write fails: the writer task ends, with the frames not yet written. *)
WriteFails ==
  /\ Faults /\ writerUp
  /\ writerUp' = FALSE
  /\ \E n \in 0..Len(toDevice) : toDevice' = SubSeq(toDevice, 1, n)
  /\ UNCHANGED <<mux, nextSport, connections, cmds, dataChan, drainChan, fromDevice, calls, sportOf, pump, pause, permit, forwarder,
                 user, device>>

(* Command::Connect. The sport is not checked against those in use: an     *)
(* entry of that sport is replaced, and its reply and rx_tx dropped.       *)
MuxConnect ==
  /\ mux = "running" /\ cmds # <<>> /\ Head(cmds) \in Conns
  /\ cmds' = Tail(cmds)
  /\ nextSport' = (nextSport % MaxSport) + 1
  /\ LET c == Head(cmds)
         s == nextSport
         evicted == {d \in Conns : /\ s \in DOMAIN connections
                                   /\ connections[s].client = d /\ calls[d] = "calling"}
     IN  \/ /\ Emit(<<Frame(s, NewConnection(c), "SYN", 0)>>)
            /\ connections' = Put(connections, s, NewConnection(c))
            /\ calls' = [d \in Conns |-> IF d \in evicted THEN "gone" ELSE calls[d]]
         \/ /\ ~writerUp
            /\ calls' = [calls EXCEPT ![c] = "refused"]
            /\ UNCHANGED <<connections, toDevice>>
  /\ UNCHANGED <<mux, writerUp, dataChan, drainChan, fromDevice, sportOf, pump,
                 pause, permit, forwarder, user, device>>

TakeData ==
  /\ mux = "running" /\ dataChan # <<>>
  /\ dataChan' = Tail(dataChan)
  /\ UNCHANGED <<mux, writerUp, nextSport, cmds, drainChan, fromDevice, sportOf,
                 pump, forwarder, user, device>>

Connected(s) == s \in DOMAIN connections /\ connections[s].state = "Connected"

(* Bytes of a connection that is gone, or was replaced and is connecting. *)
DataIgnored ==
  /\ TakeData
  /\ ~Connected(Head(dataChan)[1])
  /\ UNCHANGED <<connections, calls, pause, permit, toDevice>>

DataFromPump ==
  /\ TakeData
  /\ LET s == Head(dataChan)[1]
         n == Head(dataChan)[2]
     IN  /\ Connected(s) /\ n > 0
         /\ LET conn == [connections[s] EXCEPT !.pending = @ + n]
                c == conn.client
            IN  \/ /\ writerUp \/ Sendable(conn) = 0
                   /\ toDevice' = toDevice \o FlushFrames(s, conn)
                   /\ connections' = [connections EXCEPT ![s] = Flushed(conn)]
                   /\ LET left == Flushed(conn).pending
                      IN  \/ left > HighWater /\ pause' = [pause EXCEPT ![c] = TRUE]
                             /\ UNCHANGED permit
                          \/ left <= HighWater /\ Resume(c, left)
                   /\ UNCHANGED calls
                \/ /\ ~writerUp /\ Sendable(conn) > 0
                   /\ Teardown(s)
                   /\ UNCHANGED <<toDevice, pause, permit>>

(* Mutant: the connection is reset as soon as the client closes. *)
ClientClosedAtOnce ==
  /\ TakeData
  /\ LET s == Head(dataChan)[1]
     IN  /\ Connected(s) /\ Head(dataChan)[2] = 0
         /\ toDevice' = IF writerUp THEN Append(toDevice, Frame(s, connections[s], "RST", 0))
                        ELSE toDevice
         /\ Teardown(s)
  /\ UNCHANGED <<pause, permit>>

ClientClosed ==
  /\ TakeData
  /\ LET s == Head(dataChan)[1]
     IN  /\ Connected(s) /\ Head(dataChan)[2] = 0
         /\ LET conn == [connections[s] EXCEPT !.clientClosed = TRUE]
            IN  \/ /\ writerUp \/ Sendable(conn) = 0
                   /\ Flushed(conn).pending > 0
                   /\ toDevice' = toDevice \o FlushFrames(s, conn)
                   /\ connections' = [connections EXCEPT ![s] = Flushed(conn)]
                   /\ Resume(conn.client, Flushed(conn).pending)
                   /\ UNCHANGED calls
                \/ /\ ~writerUp \/ Flushed(conn).pending = 0
                   /\ ~writerUp => Sendable(conn) > 0 \/ conn.pending = 0
                   /\ toDevice' = IF writerUp
                                  THEN toDevice \o FlushFrames(s, conn)
                                         \o <<Frame(s, Flushed(conn), "RST", 0)>>
                                  ELSE toDevice
                   /\ IF writerUp \/ conn.pending = 0 THEN Resume(conn.client, 0)
                      ELSE UNCHANGED <<pause, permit>>
                   /\ Teardown(s)

(* Mutant: drained bytes are counted and the device is not told. *)
DrainedQuietly ==
  /\ mux = "running" /\ drainChan # <<>>
  /\ drainChan' = Tail(drainChan)
  /\ LET s == Head(drainChan)[1]
     IN  connections' = IF s \in DOMAIN connections
                        THEN [connections EXCEPT ![s].rxBuffered = Less(@, Head(drainChan)[2])]
                        ELSE connections
  /\ UNCHANGED <<mux, writerUp, nextSport, cmds, dataChan, fromDevice, calls, toDevice,
                 sportOf, pump, pause, permit, forwarder, user, device>>

(* A window update is sent when the free space grows past MAX_PAYLOAD. *)
Drained ==
  /\ mux = "running" /\ drainChan # <<>>
  /\ drainChan' = Tail(drainChan)
  /\ LET s == Head(drainChan)[1]
         n == Head(drainChan)[2]
     IN  IF s \in DOMAIN connections
         THEN LET conn == [connections[s] EXCEPT !.rxBuffered = Less(@, n)]
              IN  /\ connections' = [connections EXCEPT ![s] = conn]
                  /\ toDevice' =
                       IF /\ writerUp /\ conn.state = "Connected"
                          /\ Window(connections[s]) < MaxPayload
                          /\ Window(conn) >= MaxPayload
                       THEN Append(toDevice, Frame(s, conn, "ACK", 0)) ELSE toDevice
         ELSE UNCHANGED <<connections, toDevice>>
  /\ UNCHANGED <<mux, writerUp, nextSport, cmds, dataChan, fromDevice, calls,
                 sportOf, pump, pause, permit, forwarder, user, device>>

pkt == Head(fromDevice)

TakePacket ==
  /\ mux = "running" /\ fromDevice # <<>>
  /\ fromDevice' = Tail(fromDevice)
  /\ UNCHANGED <<mux, writerUp, nextSport, cmds, dataChan, drainChan, device>>

KeepTasks == UNCHANGED <<sportOf, pump, pause, permit, forwarder, user>>

UnknownConnection ==
  /\ TakePacket /\ KeepTasks
  /\ pkt.sport \notin DOMAIN connections
  /\ LET anon == [txSeq |-> 0, txAck |-> pkt.seq, rxBuffered |-> 0]
     IN  toDevice' = IF writerUp /\ pkt.flags # "RST"
                     THEN Append(toDevice, Frame(pkt.sport, anon, "RST", 0)) ELSE toDevice
  /\ UNCHANGED <<connections, calls>>

(* The frame's seq, ack and window are noted before it is looked at. *)
Heard == [connections[pkt.sport] EXCEPT !.rxAck = pkt.ack, !.rxWin = pkt.win]

Accepted ==
  /\ TakePacket
  /\ pkt.sport \in DOMAIN connections /\ Heard.state = "Connecting"
  /\ pkt.flags = "SYN|ACK"
  /\ LET s == pkt.sport
         c == Heard.client
         conn == [Heard EXCEPT !.txSeq = (@ + 1) % SeqSpace, !.txAck = (@ + 1) % SeqSpace]
     IN  \/ /\ Emit(<<Frame(s, conn, "ACK", 0)>>)
            /\ connections' = [connections EXCEPT ![s] = [conn EXCEPT !.state = "Connected"]]
            /\ calls' = [calls EXCEPT ![c] = "connected"]
            /\ sportOf' = [sportOf EXCEPT ![c] = s]
            /\ pump' = [pump EXCEPT ![c].pc = "check"]
            /\ forwarder' = [forwarder EXCEPT ![c].pc = "running"]
            /\ user' = [user EXCEPT ![c].side = "open"]
         \/ /\ ~writerUp
            /\ connections' = [connections EXCEPT ![s] = conn]
            /\ UNCHANGED <<toDevice, calls, sportOf, pump, forwarder, user>>
  /\ UNCHANGED <<pause, permit>>

(* An answer other than SYN|ACK refuses the connection; a connected one is *)
(* torn down by a reset or by any flags but ACK.                           *)
Refused ==
  /\ TakePacket /\ KeepTasks
  /\ pkt.sport \in DOMAIN connections
  /\ IF Heard.state = "Connecting" THEN pkt.flags # "SYN|ACK" ELSE pkt.flags # "ACK"
  /\ Teardown(pkt.sport)
  /\ UNCHANGED toDevice

(* The forwarder is gone: the connection is reset. *)
Undeliverable ==
  /\ TakePacket /\ KeepTasks
  /\ Connected(pkt.sport) /\ pkt.flags = "ACK" /\ pkt.len > 0
  /\ forwarder[Heard.client].pc = "done"
  /\ toDevice' = IF writerUp THEN Append(toDevice, Frame(pkt.sport, Heard, "RST", 0))
                 ELSE toDevice
  /\ Teardown(pkt.sport)

(* Payload is queued for the forwarder and acknowledged with the window    *)
(* that is left; the frame's ack and window may admit pending bytes, and   *)
(* a client that has closed is let go once they are all sent. A failing    *)
(* send leaves what was done before it.                                    *)
Received ==
  /\ TakePacket
  /\ Connected(pkt.sport) /\ pkt.flags = "ACK"
  /\ pkt.len > 0 => forwarder[Heard.client].pc = "running"
  /\ LET s == pkt.sport
         c == Heard.client
         conn == [Heard EXCEPT !.rxBuffered = @ + pkt.len,
                               !.txAck = (@ + pkt.len) % SeqSpace]
         acks == IF pkt.len > 0 THEN <<Frame(s, conn, "ACK", 0)>> ELSE <<>>
         done == conn.clientClosed /\ Flushed(conn).pending = 0
     IN  /\ forwarder' = IF pkt.len > 0
                         THEN [forwarder EXCEPT ![c].queue = Append(@, pkt.len)]
                         ELSE forwarder
         /\ \/ /\ writerUp
               /\ toDevice' = toDevice \o acks \o FlushFrames(s, conn)
                                \o (IF done THEN <<Frame(s, Flushed(conn), "RST", 0)>> ELSE <<>>)
               /\ IF done THEN Teardown(s)
                  ELSE /\ connections' = [connections EXCEPT ![s] = Flushed(conn)]
                       /\ UNCHANGED calls
               /\ Resume(c, Flushed(conn).pending)
            \/ /\ ~writerUp
               /\ LET lost == IF pkt.len > 0 THEN 0 ELSE Least(MaxPayload, Sendable(conn))
                  IN  /\ connections' = [connections EXCEPT ![s] = [conn EXCEPT !.pending = @ - lost]]
                      /\ IF pkt.len > 0 \/ lost > 0 THEN UNCHANGED <<pause, permit>>
                         ELSE Resume(c, conn.pending)
               /\ UNCHANGED <<toDevice, calls>>
  /\ UNCHANGED <<sportOf, pump, user>>
-----------------------------------------------------------------------------
(* The device: it honours the windows it is told and keeps its own.        *)

DeviceFrame(s, d, flags, len) ==
  [sport |-> s, flags |-> flags, seq |-> (1 + d.sent) % SeqSpace,
   ack |-> (1 + d.rcvd) % SeqSpace, win |-> DeviceWindow - d.held, len |-> len]

View(d) == <<(1 + d.rcvd) % SeqSpace, DeviceWindow - d.held>>

DeviceStep ==
  UNCHANGED <<mux, writerUp, nextSport, connections, cmds, dataChan, drainChan,
              calls, sportOf, pump, pause, permit, forwarder, user>>

ToHost(frame) == fromDevice' = IF mux = "exited" THEN fromDevice ELSE Append(fromDevice, frame)

DeviceTakes ==
  /\ toDevice # <<>>
  /\ toDevice' = Tail(toDevice)
  /\ LET p == Head(toDevice)
         d == device[p.sport]
     IN  \/ /\ p.flags = "SYN" /\ ~d.open
            /\ LET new == [Closed EXCEPT !.open = TRUE, !.told = View(Closed)]
               IN  /\ device' = [device EXCEPT ![p.sport] = new]
                   /\ ToHost([DeviceFrame(p.sport, new, "SYN|ACK", 0) EXCEPT !.seq = 0])
         \/ /\ p.flags = "SYN" /\ UNCHANGED device
            /\ ToHost(DeviceFrame(p.sport, d, "RST", 0))
         \/ /\ p.flags = "ACK" /\ d.open
            /\ device' = [device EXCEPT ![p.sport] =
                 [d EXCEPT !.rcvd = @ + p.len, !.held = @ + p.len, !.ack = p.ack, !.win = p.win]]
            /\ UNCHANGED fromDevice
         \/ /\ p.flags = "RST"
            /\ device' = [device EXCEPT ![p.sport].open = FALSE]
            /\ UNCHANGED fromDevice
         \/ /\ p.flags = "ACK" /\ ~d.open /\ UNCHANGED <<device, fromDevice>>
  /\ DeviceStep

(* The service behind the connection reads what the device holds. *)
DeviceConsumes(s) ==
  /\ device[s].open /\ device[s].held > 0
  /\ device' = [device EXCEPT ![s].held = 0]
  /\ UNCHANGED <<toDevice, fromDevice>> /\ DeviceStep

(* The device sends n bytes that the host's window admits, or only the     *)
(* news about its own.                                                     *)
DeviceSends(s, n) ==
  LET d == device[s]
      unacked == (1 + d.sent - d.ack) % SeqSpace
  IN  /\ mux = "running" /\ d.open
      /\ n > 0 => /\ d.sent + n <= load.in
                  /\ unacked + n <= d.win
      /\ n = 0 => View(d) # d.told
      /\ ToHost(DeviceFrame(s, d, "ACK", n))
      /\ device' = [device EXCEPT ![s].sent = @ + n, ![s].told = View(d)]
      /\ UNCHANGED toDevice /\ DeviceStep

DeviceResets(s) ==
  /\ mux = "running" /\ device[s].open
  /\ device' = [device EXCEPT ![s].open = FALSE]
  /\ ToHost(DeviceFrame(s, device[s], "RST", 0))
  /\ UNCHANGED toDevice /\ DeviceStep

DataStep == DataIgnored \/ DataFromPump \/ ClientClosed

PacketStep == UnknownConnection \/ Accepted \/ Refused \/ Undeliverable \/ Received

PumpAct(c) == PumpChecks(c) \/ PumpNotified(c) \/ PumpReads(c) \/ PumpSends(c)

ForwarderAct(c) == ForwarderWrites(c) \/ ForwarderEnds(c)

UserAct(c) ==
  CallConnect(c) \/ UserWrites(c) \/ UserReads(c) \/ UserShuts(c) \/ UserDrops(c)

Next ==
  \/ VersionReply \/ MuxConnect \/ MuxShutdown \/ ReadFails \/ WriteFails
  \/ DataStep \/ Drained \/ PacketStep
  \/ CallShutdown
  \/ \E c \in Conns : PumpAct(c) \/ ForwarderAct(c) \/ UserAct(c)
  \/ DeviceTakes
  \/ \E s \in Sports :
       \/ DeviceConsumes(s)
       \/ \E n \in 0..MaxPayload : DeviceSends(s, n)
       \/ DeviceResets(s)

Spec == Init /\ [][Next /\ UNCHANGED load]_<<vars, load>>

(* select! picks among the ready branches at random, so none is starved;   *)
(* the runtime runs the pumps and forwarders. The device reads its pipe,   *)
(* its services consume, and it acknowledges and sends; the client reads.   *)
FairSpec ==
  /\ Spec
  /\ WF_vars(MuxConnect) /\ WF_vars(MuxShutdown) /\ WF_vars(DataStep)
  /\ WF_vars(Drained) /\ WF_vars(PacketStep)
  /\ \A c \in Conns : /\ WF_vars(PumpAct(c)) /\ WF_vars(ForwarderAct(c))
                      /\ WF_vars(UserReads(c))
  /\ WF_vars(DeviceTakes)
  /\ \A s \in Sports : /\ WF_vars(DeviceConsumes(s)) /\ WF_vars(DeviceSends(s, 0))
                       /\ WF_vars(\E n \in 1..MaxPayload : DeviceSends(s, n))
-----------------------------------------------------------------------------
(* Properties.                                                             *)

ConnectionType ==
  [client : Conns, state : {"Connecting", "Connected"}, txSeq : 0..(SeqSpace - 1),
   txAck : 0..(SeqSpace - 1), rxAck : 0..(SeqSpace - 1), rxWin : Nat,
   rxBuffered : Nat, pending : Nat, clientClosed : BOOLEAN]

FrameType ==
  [sport : Sports, flags : {"SYN", "SYN|ACK", "ACK", "RST"}, seq : 0..(SeqSpace - 1),
   ack : 0..(SeqSpace - 1), win : Nat, len : Nat]

(* The types of the state. *)
TypeOK ==
  /\ mux \in {"handshake", "running", "exited"} /\ writerUp \in BOOLEAN
  /\ nextSport \in Sports
  /\ DOMAIN connections \subseteq Sports
  /\ \A s \in DOMAIN connections : connections[s] \in ConnectionType
  /\ cmds \in Seq(Conns \cup {"Shutdown"})
  /\ dataChan \in Seq(Sports \X Nat) /\ drainChan \in Seq(Sports \X Nat)
  /\ toDevice \in Seq(FrameType) /\ fromDevice \in Seq(FrameType)
  /\ calls \in [Conns -> {"idle", "calling", "connected", "refused", "gone"}]
  /\ sportOf \in [Conns -> 0..MaxSport]
  /\ pump \in [Conns -> [pc : {"off", "check", "waiting", "reading", "sending", "done"},
                         chunk : Nat]]
  /\ pause \in [Conns -> BOOLEAN] /\ permit \in [Conns -> BOOLEAN]
  /\ \A c \in Conns : /\ forwarder[c].pc \in {"off", "running", "done"}
                      /\ forwarder[c].queue \in Seq(Nat)
  /\ user \in [Conns -> [side : {"none", "open", "shut", "dropped"}, out : Nat,
                         in : Nat, given : Nat]]
  /\ device \in [Sports -> [open : BOOLEAN, rcvd : Nat, held : Nat, sent : Nat,
                            ack : 0..(SeqSpace - 1), win : Nat, told : Nat \X Int]]

(* Bytes for sport s in one of the two channels of the mux task. *)
InChan(chan, s) == Total([i \in DOMAIN chan |-> IF chan[i][1] = s THEN chan[i][2] ELSE 0])

(* Bytes for sport s in the first n of some frames. *)
Carried(frames, s, n) ==
  SumTo([i \in DOMAIN frames |-> IF frames[i].sport = s THEN frames[i].len ELSE 0], n)

(* Bytes for sport s in the first n frames on their way to the device. *)
OnPipe(s, n) == Carried(toDevice, s, n)

(* Both ends of a connection are up, and the pipe between them. *)
Live(s) == mux = "running" /\ writerUp /\ Connected(s) /\ device[s].open

(* No byte of the client is lost or sent twice: what it wrote is, in this  *)
(* order, at the device, on the pipe, pending, with the pump, or in the    *)
(* duplex (flush_pending, the pump).                                       *)
UploadConserved ==
  \A s \in Sports : Live(s) =>
    LET c == connections[s].client
    IN  user[c].given = device[s].rcvd + OnPipe(s, Len(toDevice)) + connections[s].pending
                          + InChan(dataChan, s) + pump[c].chunk + user[c].out

(* The device never sees a gap: a data frame carries the number of the     *)
(* byte it waits for, also when the numbers wrap.                          *)
NoGap ==
  \A i \in DOMAIN toDevice :
    LET p == toDevice[i]
        d == device[p.sport]
    IN  d.open /\ p.flags = "ACK" =>
          p.seq = (1 + d.rcvd + OnPipe(p.sport, i - 1)) % SeqSpace

(* The device is not sent more than it made room for (flush_pending). *)
DeviceNotOverrun ==
  \A s \in Sports : device[s].held + OnPipe(s, Len(toDevice)) <= DeviceWindow

(* A slow client holds back at most RX_WINDOW bytes of a device that keeps *)
(* to the advertised window, and every byte received is with the forwarder *)
(* or reported drained (send_tcp, Drained).                                *)
HostNotOverrun ==
  \A s \in Sports : Connected(s) =>
    /\ connections[s].rxBuffered <= RxWindow
    /\ forwarder[connections[s].client].pc = "running" =>
         connections[s].rxBuffered =
           Total(forwarder[connections[s].client].queue) + InChan(drainChan, s)

(* No stalled upload: bytes wait only for the device's window, a paused    *)
(* pump has bytes waiting, and a pump that waits for a pause that is over  *)
(* has been notified (tx_pause, tx_resume).                                *)
NoLostWakeup ==
  \A s \in Sports : Live(s) =>
    LET c == connections[s].client
    IN  /\ connections[s].pending > 0 => Sendable(connections[s]) = 0
        /\ pause[c] => connections[s].pending >= LowWater
        /\ pump[c].pc = "waiting" /\ ~pause[c] => permit[c]

(* "throttle the stream a bit": a client's bytes in memory stay bounded by *)
(* the high-water mark, what the pump's channel holds and one chunk.       *)
PendingBounded ==
  \A s \in Sports : Connected(s) =>
    connections[s].pending + InChan(dataChan, s) + pump[connections[s].client].chunk
      <= HighWater + (DataCap + 1) * MaxPayload

(* "finish writing before closing": a client that shuts its side down gets *)
(* everything it wrote to the device before the reset.                     *)
NoTruncation ==
  mux = "running" /\ writerUp =>
    \A c \in Conns, i \in DOMAIN toDevice :
      /\ user[c].side = "shut" /\ toDevice[i].sport = sportOf[c]
      /\ toDevice[i].flags = "RST" /\ device[sportOf[c]].open
      => user[c].given = device[sportOf[c]].rcvd + OnPipe(sportOf[c], i)

(* Whatever a client wrote reaches the device, unless its connection goes. *)
UploadDelivered ==
  \A s \in Sports :
    Connected(s) ~> (~Connected(s) \/ user[connections[s].client].given = device[s].rcvd)

(* Whatever the device has to send reaches the client, although it was     *)
(* stopped by a closed window, unless its connection goes.                 *)
DownloadDelivered ==
  \A s \in Sports :
    Connected(s) ~>
      \/ ~Connected(s)
      \/ LET c == connections[s].client
         IN  \/ user[c].side = "dropped"
             \/ /\ device[s].sent = load.in
                /\ connections[s].txAck = (1 + load.in) % SeqSpace
                /\ forwarder[c].queue = <<>> /\ user[c].in = 0

(* connect() returns: connected, refused, or because the task is gone. *)
ConnectReturns ==
  \A c \in Conns : (calls[c] = "calling" /\ mux = "running") ~> calls[c] # "calling"

(* "Dropping our_write closes the duplex": once the forwarder has ended,   *)
(* the client's end reads end-of-file. It does when both halves of the     *)
(* split stream are dropped, and the pump holds the other half.            *)
DroppingOurWriteClosesTheDuplex ==
  \A c \in Conns :
    forwarder[c].pc = "done" ~> pump[c].pc = "done" \/ user[c].side # "open"
=============================================================================
