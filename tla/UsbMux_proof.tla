---------------------------- MODULE UsbMux_proof ----------------------------
(* The upload of a connection, for any window, buffers, number space and   *)
(* number of connections: it does not stall, the device is never sent more *)
(* than it made room for and never sees a gap, and no byte is lost or sent *)
(* twice. But for the first the invariants say of each port what is on the *)
(* pipe, what the acknowledgements on their way admit, how the frames are  *)
(* numbered, and who names the port; they hold as long as no source port   *)
(* is handed out twice.                                                    *)
EXTENDS UsbMux, Sums_proof

Numbers == 0..(SeqSpace - 1)
NoMore(w) == w \in Int /\ w <= DeviceWindow

LEMMA Sizes ==
  /\ SeqSpace \in Nat \ {0} /\ MaxPayload \in Nat \ {0} /\ Grain \in Nat \ {0}
  /\ MaxSport \in Nat \ {0} /\ DeviceWindow \in Nat /\ DeviceWindow < SeqSpace
  /\ RxWindow \in Nat /\ HighWater \in Nat /\ LowWater \in Nat
  /\ 0 < LowWater /\ LowWater <= HighWater
<1> QED BY SizesAssumption

LEMMA ModRange == \A x \in Int : x % SeqSpace \in Numbers
<1> QED BY Sizes DEF Numbers

LEMMA ModSmall == \A x \in Numbers : x % SeqSpace = x
<1> QED BY Sizes DEF Numbers

LEMMA ModWrap ==
  ASSUME NEW x \in Numbers, NEW n \in Nat, x + n < 2 * SeqSpace
  PROVE  (x + n) % SeqSpace = IF x + n < SeqSpace THEN x + n ELSE x + n - SeqSpace
<1> QED BY Sizes DEF Numbers

LEMMA InflightIs ==
  ASSUME NEW x \in Numbers, NEW y \in Numbers
  PROVE  (x - y) % SeqSpace = IF y <= x THEN x - y ELSE x - y + SeqSpace
<1> QED BY Sizes DEF Numbers

LEMMA FrameCount ==
  ASSUME NEW n \in Nat, NEW m \in Nat \ {0}, NEW i \in 1..((n + m - 1) \div m)
  PROVE  (i - 1) * m < n
<1> QED OBVIOUS
-----------------------------------------------------------------------------
(* The types that the argument needs. That the device's window is never    *)
(* negative is not among them: it follows from what is on the pipe         *)
(* (DeviceNotOverrun).                                                     *)

Connection ==
  [client : Conns, state : {"Connecting", "Connected"}, txSeq : Numbers, txAck : Numbers,
   rxAck : Numbers, rxWin : {w \in Int : w <= DeviceWindow}, rxBuffered : Nat, pending : Nat,
   clientClosed : BOOLEAN]

Flags == {"SYN", "SYN|ACK", "ACK", "RST"}

Outgoing == [sport : Sports, flags : Flags, seq : Numbers, ack : Numbers, win : 0..RxWindow, len : Nat]

Incoming == [sport : Sports, flags : Flags, seq : Numbers, ack : Numbers,
             win : {w \in Int : w <= DeviceWindow}, len : Nat]

DeviceEnd == [open : BOOLEAN, rcvd : Nat, held : Nat, sent : Nat, ack : Numbers,
              win : 0..RxWindow, told : Nat \X Int]

ConnectionTypes ==
  /\ writerUp \in BOOLEAN /\ nextSport \in Sports
  /\ DOMAIN connections \subseteq Sports
  /\ \A s \in DOMAIN connections : connections[s] \in Connection
  /\ cmds \in Seq(Conns \cup {"Shutdown"})
  /\ calls \in [Conns -> {"idle", "calling", "connected", "refused", "gone"}]
  /\ pause \in [Conns -> BOOLEAN] /\ permit \in [Conns -> BOOLEAN]

ChannelTypes ==
  /\ dataChan \in Seq((0..MaxSport) \X Nat) /\ drainChan \in Seq((0..MaxSport) \X Nat)
  /\ sportOf \in [Conns -> 0..MaxSport]
  /\ pump \in [Conns -> [pc : {"off", "check", "waiting", "reading", "sending", "done"},
                         chunk : Nat]]
  /\ forwarder \in [Conns -> [pc : {"off", "running", "done"}, queue : Seq(Nat)]]
  /\ user \in [Conns -> [side : {"none", "open", "shut", "dropped"}, out : Nat, in : Nat,
                         given : Nat]]

PipeTypes ==
  /\ toDevice \in Seq(Outgoing) /\ fromDevice \in Seq(Incoming)
  /\ device \in [Sports -> DeviceEnd]

LEMMA SendableFacts ==
  ASSUME NEW conn \in Connection
  PROVE  /\ Sendable(conn) \in Nat /\ Sendable(conn) <= conn.pending
         /\ Inflight(conn) \in Numbers
         /\ Sendable(conn) < conn.pending => Sendable(conn) = Less(conn.rxWin, Inflight(conn))
<1>1. Inflight(conn) \in Numbers
  BY ModRange DEF Connection, Inflight, Numbers
<1>2. Less(conn.rxWin, Inflight(conn)) \in Nat
  BY <1>1, Sizes DEF Connection, Less, Numbers
<1> QED BY <1>1, <1>2 DEF Sendable, Least, Connection

LEMMA FlushedFields ==
  ASSUME NEW conn \in Connection
  PROVE  /\ Flushed(conn) \in Connection
         /\ Flushed(conn).client = conn.client /\ Flushed(conn).state = conn.state
         /\ Flushed(conn).rxWin = conn.rxWin /\ Flushed(conn).rxAck = conn.rxAck
         /\ Flushed(conn).pending = conn.pending - Sendable(conn)
         /\ Flushed(conn).txSeq = (conn.txSeq + Sendable(conn)) % SeqSpace
<1> DEFINE left == conn.pending - Sendable(conn)
           next == (conn.txSeq + Sendable(conn)) % SeqSpace
<1>1. left \in Nat /\ next \in Numbers
  BY SendableFacts, ModRange DEF Connection, Numbers
<1>2. Flushed(conn) = [conn EXCEPT !.pending = left, !.txSeq = next]
  BY DEF Flushed
<1> HIDE DEF left, next
<1>3. /\ Flushed(conn) \in Connection
      /\ Flushed(conn).client = conn.client /\ Flushed(conn).state = conn.state
      /\ Flushed(conn).rxWin = conn.rxWin /\ Flushed(conn).rxAck = conn.rxAck
      /\ Flushed(conn).pending = left /\ Flushed(conn).txSeq = next
  BY <1>1, <1>2 DEF Connection
<1> QED BY <1>3 DEF left, next

(* What flush_pending leaves is held back by the device's window. *)
LEMMA FlushedHeldBack ==
  ASSUME NEW conn \in Connection, Flushed(conn).pending > 0
  PROVE  Sendable(Flushed(conn)) = 0
<1> DEFINE n == Sendable(conn)
           w == conn.rxWin
           i == Inflight(conn)
<1>1. n \in Nat /\ n = Less(w, i) /\ i \in Numbers /\ w \in Int /\ w <= DeviceWindow
  BY SendableFacts, FlushedFields DEF Connection
<1>2. conn.txSeq \in Numbers /\ conn.rxAck \in Numbers
  BY DEF Connection
<1>3. i = (conn.txSeq - conn.rxAck) % SeqSpace
  BY DEF Inflight
<1>4. Inflight(Flushed(conn)) = (((conn.txSeq + n) % SeqSpace) - conn.rxAck) % SeqSpace
  BY FlushedFields DEF Inflight
<1>5. Flushed(conn) \in Connection /\ Flushed(conn).rxWin = w
  BY FlushedFields
<1> HIDE DEF n, w, i
<1>6. CASE n = 0
  <2>1. (conn.txSeq + n) % SeqSpace = conn.txSeq
    BY <1>2, <1>6, ModSmall DEF Numbers
  <2>2. Inflight(Flushed(conn)) = i /\ w <= i
    BY <1>1, <1>3, <1>4, <1>6, <2>1 DEF Less, Numbers
  <2>3. Less(Flushed(conn).rxWin, Inflight(Flushed(conn))) = 0
    BY <1>5, <2>2 DEF Less
  <2> QED BY <1>5, <2>3 DEF Sendable, Least, Connection
<1>7. CASE n > 0
  <2>1. n = w - i /\ i + n = w /\ i + n < SeqSpace
    BY <1>1, <1>7, Sizes DEF Less, Numbers
  <2>2. i = IF conn.rxAck <= conn.txSeq THEN conn.txSeq - conn.rxAck
            ELSE conn.txSeq - conn.rxAck + SeqSpace
    BY <1>2, <1>3, InflightIs
  <2> DEFINE x == (conn.txSeq + n) % SeqSpace
  <2>3. x = IF conn.txSeq + n < SeqSpace THEN conn.txSeq + n ELSE conn.txSeq + n - SeqSpace
    <3>1. conn.txSeq + n < 2 * SeqSpace
      BY <1>1, <1>2, <2>1, Sizes DEF Numbers
    <3> QED BY <1>1, <1>2, <3>1, ModWrap
  <2>4. x \in Numbers
    BY <1>1, <1>2, ModRange DEF Numbers
  <2> HIDE DEF x
  <2>5. (x - conn.rxAck) % SeqSpace = IF conn.rxAck <= x THEN x - conn.rxAck
                                      ELSE x - conn.rxAck + SeqSpace
    BY <1>2, <2>4, InflightIs
  <2>6. (x - conn.rxAck) % SeqSpace = i + n
    BY <1>1, <1>2, <2>1, <2>2, <2>3, <2>4, <2>5, Sizes DEF Numbers
  <2>7. Inflight(Flushed(conn)) = w
    BY <1>4, <2>1, <2>6 DEF x
  <2>8. Less(Flushed(conn).rxWin, Inflight(Flushed(conn))) = 0
    BY <1>1, <1>5, <2>7 DEF Less
  <2> QED BY <1>5, <2>8 DEF Sendable, Least, Connection
<1> QED BY <1>1, <1>6, <1>7
-----------------------------------------------------------------------------
(* The frames that are sent and the packets that are received.             *)

(* The window that a frame advertises is no more than the free space. *)
LEMMA OfferRange ==
  ASSUME NEW conn, conn.rxBuffered \in Nat
  PROVE  /\ Window(conn) \in 0..RxWindow
         /\ (Window(conn) \div Grain) * Grain \in 0..RxWindow
         /\ (Window(conn) \div Grain) * Grain <= Window(conn)
<1>0. Grain \in Nat /\ Grain > 0 /\ RxWindow \in Nat
  BY SizesAssumption
<1> DEFINE w == Window(conn)
           q == w \div Grain
<1>1. w \in 0..RxWindow
  BY <1>0 DEF Window, Less
<1> HIDE DEF w
<1>2. q \in Nat /\ q * Grain <= w
  BY <1>0, <1>1
<1>3. q * Grain \in Nat
  BY <1>0, <1>2
<1> DEFINE m == q * Grain
<1> HIDE DEF m
<1>4. m \in 0..RxWindow
  BY <1>0, <1>1, <1>2, <1>3 DEF m
<1> QED BY <1>1, <1>2, <1>4 DEF m, w

LEMMA FrameIsOutgoing ==
  ASSUME NEW conn \in Connection, NEW s \in Sports, NEW flags \in Flags, NEW len \in Nat
  PROVE  Frame(s, conn, flags, len) \in Outgoing
<1> DEFINE w == (Window(conn) \div Grain) * Grain
<1>1. w \in 0..RxWindow
  BY OfferRange DEF Connection
<1> HIDE DEF w
<1>2. Frame(s, conn, flags, len) = [sport |-> s, flags |-> flags, seq |-> conn.txSeq,
                                    ack |-> conn.txAck, win |-> w, len |-> len]
  BY DEF Frame, w
<1> QED BY <1>1, <1>2 DEF Outgoing, Connection

LEMMA FlushIsOutgoing ==
  ASSUME NEW conn \in Connection, NEW s \in Sports
  PROVE  FlushFrames(s, conn) \in Seq(Outgoing)
<1> DEFINE n == Sendable(conn)
           k == (n + MaxPayload - 1) \div MaxPayload
           later(i) == [conn EXCEPT !.txSeq = (@ + (i - 1) * MaxPayload) % SeqSpace]
           len(i) == Least(MaxPayload, n - (i - 1) * MaxPayload)
<1>1. n \in Nat /\ k \in Nat
  <2>1. n \in Nat
    BY SendableFacts
  <2> QED BY <2>1, Sizes
<1>2. ASSUME NEW i \in 1..k PROVE Frame(s, later(i), "ACK", len(i)) \in Outgoing
  <2>1. (i - 1) * MaxPayload < n /\ (i - 1) * MaxPayload \in Nat
    BY <1>1, <1>2, Sizes, FrameCount
  <2>2. len(i) \in Nat
    BY <1>1, <2>1, Sizes DEF Least
  <2>3. (conn.txSeq + (i - 1) * MaxPayload) % SeqSpace \in Numbers
    BY <2>1, ModRange DEF Connection, Numbers
  <2>4. later(i) \in Connection
    BY <2>3 DEF Connection
  <2> HIDE DEF later, len
  <2> QED BY <2>2, <2>4, FrameIsOutgoing DEF Flags
<1>3. FlushFrames(s, conn) = [i \in 1..k |-> Frame(s, later(i), "ACK", len(i))]
  BY DEF FlushFrames
<1> HIDE DEF n, k, later, len
<1> QED BY <1>1, <1>2, <1>3

LEMMA TakenPacket ==
  ASSUME PipeTypes, fromDevice # <<>>
  PROVE  pkt \in Incoming /\ Tail(fromDevice) \in Seq(Incoming)
<1> QED BY DEF PipeTypes, pkt

LEMMA HeardFields ==
  ASSUME ConnectionTypes, PipeTypes, fromDevice # <<>>, pkt.sport \in DOMAIN connections
  PROVE  /\ Heard \in Connection
         /\ Heard.client = connections[pkt.sport].client
         /\ Heard.state = connections[pkt.sport].state
         /\ Heard.pending = connections[pkt.sport].pending
<1>1. pkt \in Incoming /\ connections[pkt.sport] \in Connection
  BY TakenPacket DEF ConnectionTypes
<1>2. pkt.ack \in Numbers /\ pkt.win \in Int /\ pkt.win <= DeviceWindow
  BY <1>1 DEF Incoming
<1> QED BY <1>1, <1>2 DEF Heard, Connection

(* What a packet with payload makes of the connection. *)
LEMMA ReceivedFields ==
  ASSUME NEW conn \in Connection, NEW len \in Nat
  PROVE  LET next == [conn EXCEPT !.rxBuffered = @ + len, !.txAck = (@ + len) % SeqSpace]
         IN  /\ next \in Connection /\ next.client = conn.client /\ next.state = conn.state
             /\ next.pending = conn.pending
<1> DEFINE ack == (conn.txAck + len) % SeqSpace
           held == conn.rxBuffered + len
<1>1. ack \in Numbers /\ held \in Nat
  BY ModRange DEF Connection, Numbers
<1> HIDE DEF ack, held
<1>2. LET next == [conn EXCEPT !.rxBuffered = held, !.txAck = ack]
      IN  /\ next \in Connection /\ next.client = conn.client /\ next.state = conn.state
          /\ next.pending = conn.pending
  BY <1>1 DEF Connection
<1> QED BY <1>2 DEF ack, held

LEMMA AcceptedFields ==
  ASSUME NEW conn \in Connection
  PROVE  LET next == [conn EXCEPT !.txSeq = (@ + 1) % SeqSpace, !.txAck = (@ + 1) % SeqSpace]
         IN  /\ next \in Connection /\ next.client = conn.client /\ next.state = conn.state
             /\ next.pending = conn.pending
<1> DEFINE seq == (conn.txSeq + 1) % SeqSpace
           ack == (conn.txAck + 1) % SeqSpace
<1>1. ack \in Numbers /\ seq \in Numbers
  BY ModRange DEF Connection, Numbers
<1> HIDE DEF ack, seq
<1>2. LET next == [conn EXCEPT !.txSeq = seq, !.txAck = ack]
      IN  /\ next \in Connection /\ next.client = conn.client /\ next.state = conn.state
          /\ next.pending = conn.pending
  BY <1>1 DEF Connection
<1> QED BY <1>2 DEF ack, seq

LEMMA NewFields ==
  ASSUME NEW c \in Conns
  PROVE  /\ NewConnection(c) \in Connection /\ NewConnection(c).client = c
         /\ NewConnection(c).state = "Connecting" /\ NewConnection(c).pending = 0
<1>1. 0 \in Numbers /\ 0 <= DeviceWindow
  BY Sizes DEF Numbers
<1> QED BY <1>1 DEF NewConnection, Connection

LEMMA ShiftedFields ==
  ASSUME NEW conn \in Connection, NEW n \in Nat, NEW closed \in BOOLEAN, NEW held \in Nat,
         NEW state \in {"Connecting", "Connected"}
  PROVE  /\ [conn EXCEPT !.pending = @ + n] \in Connection
         /\ [conn EXCEPT !.pending = @ + n].client = conn.client
         /\ [conn EXCEPT !.pending = @ + n].state = conn.state
         /\ [conn EXCEPT !.clientClosed = closed] \in Connection
         /\ [conn EXCEPT !.clientClosed = closed].client = conn.client
         /\ [conn EXCEPT !.clientClosed = closed].state = conn.state
         /\ [conn EXCEPT !.clientClosed = closed].pending = conn.pending
         /\ [conn EXCEPT !.rxBuffered = held] \in Connection
         /\ [conn EXCEPT !.rxBuffered = held].client = conn.client
         /\ [conn EXCEPT !.rxBuffered = held].state = conn.state
         /\ [conn EXCEPT !.rxBuffered = held].pending = conn.pending
         /\ Sendable([conn EXCEPT !.rxBuffered = held]) = Sendable(conn)
         /\ [conn EXCEPT !.state = state] \in Connection
         /\ [conn EXCEPT !.state = state].client = conn.client
         /\ [conn EXCEPT !.state = state].state = state
         /\ [conn EXCEPT !.state = state].pending = conn.pending
<1>1. [conn EXCEPT !.pending = @ + n] \in Connection
  BY DEF Connection
<1> QED BY <1>1 DEF Connection, Sendable, Inflight
-----------------------------------------------------------------------------
(* A call is in one place: in the command channel, or with one connection, *)
(* connecting while it waits for its reply. Only a connected client's pump *)
(* is paused.                                                              *)
Tokens ==
  /\ \A i, j \in DOMAIN cmds : cmds[i] \in Conns /\ cmds[i] = cmds[j] => i = j
  /\ \A i \in DOMAIN cmds : cmds[i] \in Conns =>
       /\ calls[cmds[i]] = "calling"
       /\ \A s \in DOMAIN connections : connections[s].client # cmds[i]
  /\ \A s \in DOMAIN connections :
       calls[connections[s].client] =
         IF connections[s].state = "Connecting" THEN "calling" ELSE "connected"
  /\ \A s, q \in DOMAIN connections : connections[s].client = connections[q].client => s = q
  /\ \A c \in Conns : pause[c] => calls[c] = "connected"

Calm(conn) == conn.pending > 0 => Sendable(conn) = 0

(* While frames can be sent, bytes only wait for the device's window, and  *)
(* a pump is only paused while bytes wait; a pump whose pause is over has  *)
(* been notified.                                                          *)
Upload ==
  /\ \A c \in Conns : pump[c].pc = "waiting" /\ ~pause[c] => permit[c]
  /\ \A s \in DOMAIN connections :
       /\ connections[s].state = "Connecting" => connections[s].pending = 0
       /\ writerUp => /\ Calm(connections[s])
                      /\ pause[connections[s].client] => connections[s].pending >= LowWater

StateInv == ConnectionTypes /\ Tokens /\ Upload

(* What the mux task may do to the pump of a client. *)
Paced(c) ==
  /\ pause' \in [Conns -> BOOLEAN] /\ permit' \in [Conns -> BOOLEAN]
  /\ \A d \in Conns \ {c} : pause'[d] = pause[d] /\ permit'[d] = permit[d]
  /\ pause'[c] => calls'[c] = "connected"
  /\ permit[c] => permit'[c]
  /\ pause[c] /\ ~pause'[c] => permit'[c]

LEMMA NotWokenIfUpload == StateInv => NoLostWakeup
<1> SUFFICES ASSUME StateInv, NEW s \in Sports, Live(s)
             PROVE  LET c == connections[s].client
                    IN  /\ connections[s].pending > 0 => Sendable(connections[s]) = 0
                        /\ pause[c] => connections[s].pending >= LowWater
                        /\ pump[c].pc = "waiting" /\ ~pause[c] => permit[c]
  BY DEF NoLostWakeup
<1>1. s \in DOMAIN connections /\ writerUp
  BY DEF Live, Connected
<1>2. connections[s].client \in Conns
  BY <1>1 DEF StateInv, ConnectionTypes, Connection
<1> QED BY <1>1, <1>2 DEF StateInv, Upload, Calm

LEMMA Resumed ==
  ASSUME ConnectionTypes, Tokens, NEW c \in Conns, NEW k \in Int, Resume(c, k),
         calls'[c] = calls[c] \/ calls[c] # "connected"
  PROVE  Paced(c) /\ (pause'[c] => k >= LowWater)
<1>1. pause \in [Conns -> BOOLEAN] /\ permit \in [Conns -> BOOLEAN] /\ LowWater \in Nat
  BY Sizes DEF ConnectionTypes
<1> DEFINE wake == pause[c] /\ k < LowWater
<1>2. /\ wake \in BOOLEAN /\ pause' = [pause EXCEPT ![c] = @ /\ ~wake]
      /\ permit' = [permit EXCEPT ![c] = @ \/ wake]
  BY DEF Resume
<1>3. pause'[c] => pause[c] /\ ~wake
  BY <1>1, <1>2
<1>4. pause[c] => calls[c] = "connected"
  BY DEF Tokens
<1>5. pause'[c] => k >= LowWater
  BY <1>1, <1>3
<1> HIDE DEF wake
<1>6. /\ pause' \in [Conns -> BOOLEAN] /\ permit' \in [Conns -> BOOLEAN]
      /\ \A d \in Conns \ {c} : pause'[d] = pause[d] /\ permit'[d] = permit[d]
      /\ pause'[c] = (pause[c] /\ ~wake) /\ permit'[c] = (permit[c] \/ wake)
  BY <1>1, <1>2
<1> QED BY <1>3, <1>4, <1>5, <1>6 DEF Paced

LEMMA Unpaced ==
  ASSUME ConnectionTypes, Tokens, NEW c \in Conns, UNCHANGED <<pause, permit>>,
         calls'[c] = calls[c] \/ calls[c] # "connected"
  PROVE  Paced(c)
<1> QED BY DEF Paced, ConnectionTypes, Tokens

(* A connection is updated. *)
LEMMA Kept ==
  ASSUME StateInv, NEW s \in DOMAIN connections, NEW conn \in Connection,
         conn.client = connections[s].client, conn.state = connections[s].state,
         conn.state = "Connecting" => conn.pending = 0,
         connections' = [connections EXCEPT ![s] = conn],
         UNCHANGED <<calls, cmds, nextSport, pump, writerUp>>,
         Paced(conn.client),
         writerUp => Calm(conn) /\ (pause'[conn.client] => conn.pending >= LowWater)
  PROVE  StateInv'
<1> USE DEF StateInv
<1>1. /\ DOMAIN connections' = DOMAIN connections /\ connections'[s] = conn
      /\ \A q \in DOMAIN connections : q # s => connections'[q] = connections[q]
      /\ \A q \in DOMAIN connections : /\ connections[q] \in Connection
                                       /\ connections[q].client \in Conns
                                       /\ connections'[q].client = connections[q].client
                                       /\ connections'[q].state = connections[q].state
  BY DEF ConnectionTypes, Connection
<1>2. ConnectionTypes'
  BY <1>1 DEF ConnectionTypes, Paced
<1>3. \A d \in Conns : pause'[d] => calls'[d] = "connected"
  BY DEF Paced, Tokens
<1>4. Tokens'
  BY <1>1, <1>3 DEF Tokens
<1>5. \A d \in Conns : pump'[d].pc = "waiting" /\ ~pause'[d] => permit'[d]
  BY DEF Paced, Upload, ConnectionTypes
<1>6. ASSUME NEW q \in DOMAIN connections, q # s
      PROVE  connections[q].client # conn.client
  BY <1>6 DEF Tokens
<1>7. ASSUME NEW q \in DOMAIN connections
      PROVE  /\ connections'[q].state = "Connecting" => connections'[q].pending = 0
             /\ writerUp' => /\ Calm(connections'[q])
                             /\ pause'[connections'[q].client] => connections'[q].pending >= LowWater
  <2>1. CASE q = s
    BY <1>1, <2>1
  <2>2. CASE q # s
    BY <1>1, <1>6, <2>2 DEF Upload, Paced
  <2> QED BY <2>1, <2>2
<1>8. Upload'
  BY <1>1, <1>5, <1>7 DEF Upload, Calm, Sendable, Inflight
<1> QED BY <1>2, <1>4, <1>8

(* A connection is torn down. *)
LEMMA Dropped ==
  ASSUME StateInv, NEW s \in DOMAIN connections, Teardown(s),
         UNCHANGED <<cmds, nextSport, pump, writerUp>>, Paced(connections[s].client)
  PROVE  StateInv'
<1> USE DEF StateInv
<1> DEFINE c == connections[s].client
<1>1. /\ DOMAIN connections' = DOMAIN connections \ {s}
      /\ \A q \in DOMAIN connections' : connections'[q] = connections[q]
      /\ \A q \in DOMAIN connections : /\ connections[q] \in Connection
                                       /\ connections[q].client \in Conns
  BY DEF ConnectionTypes, Connection, Teardown, Without
<1>2. /\ \A d \in Conns : d # c => calls'[d] = calls[d]
      /\ calls' \in [Conns -> {"idle", "calling", "connected", "refused", "gone"}]
  BY <1>1 DEF Teardown, ConnectionTypes
<1>3. \A q \in DOMAIN connections' : connections'[q].client # c
  BY <1>1 DEF Tokens
<1>4. \A i \in DOMAIN cmds : cmds[i] # c
  BY <1>1 DEF Tokens
<1>5. ConnectionTypes'
  BY <1>1, <1>2 DEF ConnectionTypes, Paced
<1>6. \A d \in Conns : pause'[d] => calls'[d] = "connected"
  BY <1>2 DEF Paced, Tokens
<1>7. Tokens'
  BY <1>1, <1>2, <1>3, <1>4, <1>6 DEF Tokens
<1>8. \A d \in Conns : pump'[d].pc = "waiting" /\ ~pause'[d] => permit'[d]
  BY <1>1 DEF Paced, Upload, ConnectionTypes
<1>9. ASSUME NEW q \in DOMAIN connections'
      PROVE  /\ connections'[q].state = "Connecting" => connections'[q].pending = 0
             /\ writerUp' => /\ Calm(connections'[q])
                             /\ pause'[connections'[q].client] => connections'[q].pending >= LowWater
  BY <1>1, <1>3, <1>9 DEF Upload, Paced
<1>10. Upload'
  BY <1>8, <1>9 DEF Upload, Calm, Sendable, Inflight
<1> QED BY <1>5, <1>7, <1>10
-----------------------------------------------------------------------------
(* One lemma for each action that changes calls, connections or pumps.     *)

(* Nothing that matters here changes, but that the writer may die. *)
LEMMA Untouched ==
  ASSUME StateInv, UNCHANGED <<nextSport, connections, cmds, calls, pump, pause, permit>>,
         writerUp' \in BOOLEAN, writerUp' => writerUp
  PROVE  StateInv'
<1>1. ConnectionTypes'
  BY DEF StateInv, ConnectionTypes
<1>2. Tokens'
  BY DEF StateInv, Tokens
<1>3. Upload'
  BY DEF StateInv, Upload, Calm, Sendable, Inflight
<1> QED BY <1>1, <1>2, <1>3 DEF StateInv

LEMMA CallKeeps ==
  ASSUME StateInv, NEW c \in Conns, CallConnect(c)
  PROVE  StateInv'
<1> USE DEF StateInv
<1>0. /\ calls[c] = "idle" /\ UNCHANGED <<writerUp, nextSport, connections, pump, pause, permit>>
      /\ \A d \in Conns : d # c => calls'[d] = calls[d]
      /\ calls' \in [Conns -> {"idle", "calling", "connected", "refused", "gone"}]
      /\ \/ cmds' = Append(cmds, c) /\ calls'[c] = "calling"
         \/ cmds' = cmds
  BY DEF CallConnect, ConnectionTypes
<1>1. /\ \A s \in DOMAIN connections : connections[s].client \in Conns /\ connections[s].client # c
      /\ \A i \in DOMAIN cmds : cmds[i] # c
      /\ ~pause[c]
  <2>1. \A s \in DOMAIN connections : connections[s].client \in Conns
    BY DEF ConnectionTypes, Connection
  <2> QED BY <1>0, <2>1 DEF Tokens
<1>2. /\ cmds' \in Seq(Conns \cup {"Shutdown"})
      /\ \A i \in DOMAIN cmds' : \/ i \in DOMAIN cmds /\ cmds'[i] = cmds[i]
                                 \/ i = Len(cmds) + 1 /\ cmds'[i] = c /\ calls'[c] = "calling"
  <2>1. CASE cmds' = Append(cmds, c) /\ calls'[c] = "calling"
    BY <2>1 DEF ConnectionTypes
  <2>2. CASE cmds' = cmds
    BY <2>2 DEF ConnectionTypes
  <2> QED BY <1>0, <2>1, <2>2
<1>3. ConnectionTypes'
  BY <1>0, <1>2 DEF ConnectionTypes
<1>4. Tokens'
  BY <1>0, <1>1, <1>2 DEF Tokens
<1>5. Upload'
  BY <1>0 DEF Upload, Calm, Sendable, Inflight
<1> QED BY <1>3, <1>4, <1>5

LEMMA ShutdownKeeps ==
  ASSUME StateInv, CallShutdown
  PROVE  StateInv'
<1> USE DEF StateInv
<1>0. /\ cmds' = Append(cmds, "Shutdown")
      /\ UNCHANGED <<writerUp, nextSport, connections, calls, pump, pause, permit>>
  BY DEF CallShutdown
<1>1. /\ cmds' \in Seq(Conns \cup {"Shutdown"})
      /\ \A i \in DOMAIN cmds' : \/ i \in DOMAIN cmds /\ cmds'[i] = cmds[i]
                                 \/ cmds'[i] = "Shutdown"
  BY <1>0 DEF ConnectionTypes
<1>2. "Shutdown" \notin Conns
  BY ConnsAssumption
<1>3. ConnectionTypes'
  BY <1>0, <1>1 DEF ConnectionTypes
<1>4. Tokens'
  BY <1>0, <1>1, <1>2 DEF Tokens
<1>5. Upload'
  BY <1>0 DEF Upload, Calm, Sendable, Inflight
<1> QED BY <1>3, <1>4, <1>5

LEMMA PumpKeeps ==
  ASSUME StateInv, ChannelTypes, NEW c \in Conns, PumpAct(c)
  PROVE  StateInv'
<1> USE DEF StateInv, ChannelTypes
<1>0. UNCHANGED <<writerUp, nextSport, connections, cmds, calls, pause>>
  BY DEF PumpAct, PumpChecks, PumpNotified, PumpReads, PumpSends, PumpStep, taskVars
<1>1. /\ permit' \in [Conns -> BOOLEAN]
      /\ \A d \in Conns : pump'[d].pc = "waiting" /\ ~pause'[d] => permit'[d]
  <2>1. CASE PumpChecks(c)
    BY <2>1 DEF PumpChecks, Upload, ConnectionTypes
  <2>2. CASE PumpNotified(c)
    BY <2>2 DEF PumpNotified, Upload, ConnectionTypes
  <2>3. CASE PumpReads(c)
    BY <2>3 DEF PumpReads, Upload, ConnectionTypes
  <2>4. CASE PumpSends(c)
    <3>1. \A d \in Conns : pump'[d].pc = "waiting" => pump'[d] = pump[d]
      BY <2>4 DEF PumpSends
    <3> QED BY <2>4, <3>1 DEF PumpSends, Upload, ConnectionTypes
  <2> QED BY <2>1, <2>2, <2>3, <2>4 DEF PumpAct
<1>2. ConnectionTypes'
  BY <1>0, <1>1 DEF ConnectionTypes
<1>3. Tokens'
  BY <1>0 DEF Tokens
<1>4. Upload'
  BY <1>0, <1>1 DEF Upload, Calm, Sendable, Inflight
<1> QED BY <1>2, <1>3, <1>4

LEMMA ExitKeeps ==
  ASSUME StateInv, Exit
  PROVE  StateInv'
<1> USE DEF StateInv
<1>0. /\ connections' = <<>> /\ cmds' = <<>>
      /\ UNCHANGED <<writerUp, nextSport, pump, pause, permit>>
      /\ \A d \in Conns : calls'[d] = calls[d] \/ calls[d] # "connected"
  BY DEF Exit
<1>1. calls' \in [Conns -> {"idle", "calling", "connected", "refused", "gone"}]
  BY DEF Exit, ConnectionTypes
<1>2. DOMAIN connections' = {} /\ DOMAIN cmds' = {} /\ cmds' \in Seq(Conns \cup {"Shutdown"})
  <2>1. DOMAIN <<>> = {} /\ <<>> \in Seq(Conns \cup {"Shutdown"})
    OBVIOUS
  <2> QED BY <1>0, <2>1
<1>3. ConnectionTypes'
  BY <1>0, <1>1, <1>2 DEF ConnectionTypes
<1>4. Tokens'
  BY <1>0, <1>2 DEF Tokens
<1>5. Upload'
  BY <1>0, <1>2 DEF Upload
<1> QED BY <1>3, <1>4, <1>5

LEMMA ConnectKeeps ==
  ASSUME StateInv, MuxConnect
  PROVE  StateInv'
<1> USE DEF StateInv
<1> DEFINE c == Head(cmds)
           s == nextSport
<1>0. /\ cmds # <<>> /\ c \in Conns /\ cmds' = Tail(cmds)
      /\ nextSport' = (nextSport % MaxSport) + 1
      /\ UNCHANGED <<writerUp, pump, pause, permit>>
      /\ \/ /\ connections' = Put(connections, s, NewConnection(c))
            /\ calls' = [d \in Conns |-> IF /\ s \in DOMAIN connections
                                            /\ connections[s].client = d /\ calls[d] = "calling"
                                         THEN "gone" ELSE calls[d]]
         \/ connections' = connections /\ calls' = [calls EXCEPT ![c] = "refused"]
  BY DEF MuxConnect, Emit
<1>1. /\ cmds' \in Seq(Conns \cup {"Shutdown"}) /\ 1 \in DOMAIN cmds /\ cmds[1] = c
      /\ \A i \in DOMAIN cmds' : i + 1 \in DOMAIN cmds /\ cmds'[i] = cmds[i + 1] /\ i + 1 # 1
      /\ \A i, j \in DOMAIN cmds' : i + 1 = j + 1 => i = j
  BY <1>0 DEF ConnectionTypes
<1>2. /\ calls[c] = "calling" /\ ~pause[c] /\ \A q \in DOMAIN connections : connections[q].client # c
  BY <1>0, <1>1 DEF Tokens
<1>3. \A i \in DOMAIN cmds' : cmds'[i] # c
  BY <1>0, <1>1 DEF Tokens
<1>4. nextSport' \in Sports /\ s \in Sports
  BY <1>0, Sizes DEF ConnectionTypes, Sports
<1>5. /\ NewConnection(c) \in Connection /\ NewConnection(c).client = c
      /\ NewConnection(c).state = "Connecting" /\ NewConnection(c).pending = 0
  BY <1>0, NewFields
<1>t. \A q \in DOMAIN connections : connections[q] \in Connection /\ connections[q].client \in Conns
  BY DEF ConnectionTypes, Connection
<1>6. ASSUME connections' = Put(connections, s, NewConnection(c)),
             calls' = [d \in Conns |-> IF /\ s \in DOMAIN connections
                                            /\ connections[s].client = d /\ calls[d] = "calling"
                                         THEN "gone" ELSE calls[d]]
      PROVE  StateInv'
  <2> HIDE DEF c, s
  <2>1. /\ DOMAIN connections' = DOMAIN connections \cup {s} /\ connections'[s] = NewConnection(c)
        /\ \A q \in DOMAIN connections : q # s => connections'[q] = connections[q]
    BY <1>6 DEF Put
  <2>2. /\ calls' \in [Conns -> {"idle", "calling", "connected", "refused", "gone"}]
        /\ \A d \in Conns : calls[d] # "calling" => calls'[d] = calls[d]
        /\ \A d \in Conns : ~(s \in DOMAIN connections /\ connections[s].client = d) => calls'[d] = calls[d]
        /\ calls'[c] = "calling"
    BY <1>0, <1>2, <1>6 DEF ConnectionTypes, c
  <2>3. ConnectionTypes'
    BY <1>0, <1>1, <1>4, <1>5, <2>1, <2>2 DEF ConnectionTypes
  <2>4. ASSUME NEW i \in DOMAIN cmds', cmds'[i] \in Conns
        PROVE  /\ calls'[cmds'[i]] = "calling"
               /\ \A q \in DOMAIN connections' : connections'[q].client # cmds'[i]
    <3>1. /\ calls[cmds'[i]] = "calling" /\ cmds'[i] # c
          /\ \A q \in DOMAIN connections : connections[q].client # cmds'[i]
      BY <1>1, <1>3, <2>4 DEF Tokens
    <3> QED BY <1>5, <2>1, <2>2, <2>4, <3>1
  <2>5. ASSUME NEW q \in DOMAIN connections'
        PROVE  calls'[connections'[q].client] =
                 IF connections'[q].state = "Connecting" THEN "calling" ELSE "connected"
    <3>1. CASE q = s
      BY <1>5, <2>1, <2>2, <3>1
    <3>2. CASE q # s
      <4>1. /\ q \in DOMAIN connections /\ connections'[q] = connections[q]
            /\ s \in DOMAIN connections => connections[s].client # connections[q].client
        BY <2>1, <2>5, <3>2 DEF Tokens
      <4> QED BY <1>t, <2>2, <4>1 DEF Tokens
    <3> QED BY <3>1, <3>2
  <2>6. \A q, r \in DOMAIN connections' : connections'[q].client = connections'[r].client => q = r
    BY <1>2, <1>5, <2>1 DEF Tokens
  <2>7. \A d \in Conns : pause'[d] => calls'[d] = "connected"
    BY <1>0, <2>2 DEF Tokens
  <2>8. \A i, j \in DOMAIN cmds' : cmds'[i] \in Conns /\ cmds'[i] = cmds'[j] => i = j
    BY <1>1 DEF Tokens
  <2>9. Tokens'
    BY <2>4, <2>5, <2>6, <2>7, <2>8 DEF Tokens
  <2>10. Calm(NewConnection(c))
    BY <1>5 DEF Calm
  <2>11. ~pause'[c]
    BY <1>0, <1>2
  <2>12. ASSUME NEW q \in DOMAIN connections'
         PROVE  /\ connections'[q].state = "Connecting" => connections'[q].pending = 0
                /\ writerUp' => /\ Calm(connections'[q])
                                /\ pause'[connections'[q].client] => connections'[q].pending >= LowWater
    <3>1. CASE q = s
      BY <1>5, <2>1, <2>10, <2>11, <3>1
    <3>2. CASE q # s
      BY <1>0, <2>1, <2>12, <3>2 DEF Upload
    <3> QED BY <3>1, <3>2
  <2>13. Upload'
    BY <1>0, <2>12 DEF Upload, Calm, Sendable, Inflight
  <2> QED BY <2>3, <2>9, <2>13
<1>7. ASSUME connections' = connections, calls' = [calls EXCEPT ![c] = "refused"]
      PROVE  StateInv'
  <2> HIDE DEF c, s
  <2>1. /\ calls' \in [Conns -> {"idle", "calling", "connected", "refused", "gone"}]
        /\ \A d \in Conns : d # c => calls'[d] = calls[d]
    BY <1>7 DEF ConnectionTypes
  <2>2. ConnectionTypes'
    BY <1>0, <1>1, <1>4, <1>7, <2>1 DEF ConnectionTypes
  <2>3. ASSUME NEW i \in DOMAIN cmds', cmds'[i] \in Conns
        PROVE  /\ calls'[cmds'[i]] = "calling"
               /\ \A q \in DOMAIN connections' : connections'[q].client # cmds'[i]
    BY <1>1, <1>3, <1>7, <2>1, <2>3 DEF Tokens
  <2>4. \A i, j \in DOMAIN cmds' : cmds'[i] \in Conns /\ cmds'[i] = cmds'[j] => i = j
    BY <1>1 DEF Tokens
  <2>5. Tokens'
    BY <1>0, <1>2, <1>7, <1>t, <2>1, <2>3, <2>4 DEF Tokens
  <2>6. Upload'
    BY <1>0, <1>7 DEF Upload, Calm, Sendable, Inflight
  <2> QED BY <2>2, <2>5, <2>6
<1> QED BY <1>0, <1>6, <1>7
LEMMA FromPumpKeeps ==
  ASSUME StateInv, ChannelTypes, DataFromPump
  PROVE  StateInv'
<1> USE DEF StateInv
<1> DEFINE s == Head(dataChan)[1]
           n == Head(dataChan)[2]
           conn == [connections[s] EXCEPT !.pending = @ + n]
           c == conn.client
<1>0. /\ s \in DOMAIN connections /\ connections[s].state = "Connected" /\ n \in Nat
      /\ UNCHANGED <<writerUp, nextSport, cmds, pump>>
  <2>1. Head(dataChan) \in (0..MaxSport) \X Nat
    <3>1. dataChan # <<>> /\ dataChan \in Seq((0..MaxSport) \X Nat)
      BY DEF DataFromPump, TakeData, ChannelTypes
    <3> QED BY <3>1
  <2> QED BY <2>1 DEF DataFromPump, TakeData, Connected
<1>1. /\ connections[s] \in Connection /\ conn \in Connection
      /\ c = connections[s].client /\ conn.state = "Connected" /\ c \in Conns
  <2>1. connections[s] \in Connection
    BY <1>0 DEF ConnectionTypes
  <2> QED BY <1>0, <2>1, ShiftedFields DEF Connection
<1>2. \/ /\ writerUp \/ Sendable(conn) = 0
         /\ connections' = [connections EXCEPT ![s] = Flushed(conn)]
         /\ \/ /\ Flushed(conn).pending > HighWater /\ pause' = [pause EXCEPT ![c] = TRUE]
               /\ UNCHANGED permit
            \/ Flushed(conn).pending <= HighWater /\ Resume(c, Flushed(conn).pending)
         /\ UNCHANGED calls
      \/ Teardown(s) /\ UNCHANGED <<pause, permit>>
  BY DEF DataFromPump
<1>3. /\ Flushed(conn) \in Connection /\ Flushed(conn).client = c /\ Flushed(conn).state = "Connected"
      /\ Flushed(conn).pending \in Nat /\ Calm(Flushed(conn))
  <2>1. Flushed(conn) \in Connection
    BY <1>1, FlushedFields
  <2> QED BY <1>1, <2>1, FlushedFields, FlushedHeldBack DEF Calm, Connection
<1>c. calls[c] = "connected"
  BY <1>0, <1>1 DEF Tokens
<1> HIDE DEF s, n, conn, c
<1>4. ASSUME UNCHANGED calls, pause' = [pause EXCEPT ![c] = TRUE], UNCHANGED permit,
             Flushed(conn).pending > HighWater
      PROVE  Paced(c) /\ Flushed(conn).pending >= LowWater
  <2>1. pause' \in [Conns -> BOOLEAN] /\ permit' \in [Conns -> BOOLEAN]
    BY <1>1, <1>4 DEF ConnectionTypes
  <2>2. \A d \in Conns \ {c} : pause'[d] = pause[d] /\ permit'[d] = permit[d]
    BY <1>1, <1>4 DEF ConnectionTypes
  <2>3. pause'[c] /\ permit'[c] = permit[c] /\ calls'[c] = "connected"
    BY <1>1, <1>4, <1>c DEF ConnectionTypes
  <2>4. Flushed(conn).pending >= LowWater
    BY <1>3, <1>4, Sizes
  <2> QED BY <2>1, <2>2, <2>3, <2>4 DEF Paced
<1>5. ASSUME UNCHANGED calls, Resume(c, Flushed(conn).pending)
      PROVE  Paced(c) /\ (pause'[c] => Flushed(conn).pending >= LowWater)
  BY <1>1, <1>3, <1>5, Resumed
<1>6. ASSUME UNCHANGED calls, connections' = [connections EXCEPT ![s] = Flushed(conn)], Paced(c),
             pause'[c] => Flushed(conn).pending >= LowWater
      PROVE  StateInv'
  <2>1. /\ Flushed(conn).client = connections[s].client
        /\ Flushed(conn).state = connections[s].state /\ Flushed(conn).state # "Connecting"
    BY <1>0, <1>1, <1>3
  <2> QED BY <1>0, <1>3, <1>6, <2>1, Kept
<1>7. ASSUME Teardown(s), UNCHANGED <<pause, permit>> PROVE StateInv'
  <2>1. calls'[c] = calls[c]
    BY <1>0, <1>7 DEF Teardown
  <2>2. Paced(connections[s].client)
    BY <1>1, <1>7, <2>1, Unpaced
  <2> QED BY <1>0, <1>7, <2>2, Dropped
<1> QED BY <1>2, <1>4, <1>5, <1>6, <1>7

LEMMA ClosedKeeps ==
  ASSUME StateInv, ChannelTypes, ClientClosed
  PROVE  StateInv'
<1> USE DEF StateInv
<1> DEFINE s == Head(dataChan)[1]
           conn == [connections[s] EXCEPT !.clientClosed = TRUE]
           c == conn.client
<1>0. /\ s \in DOMAIN connections /\ connections[s].state = "Connected"
      /\ UNCHANGED <<writerUp, nextSport, cmds, pump>>
  BY DEF ClientClosed, TakeData, Connected
<1>1. /\ connections[s] \in Connection /\ conn \in Connection
      /\ c = connections[s].client /\ conn.state = "Connected" /\ c \in Conns
  <2>1. connections[s] \in Connection
    BY <1>0 DEF ConnectionTypes
  <2> QED BY <1>0, <2>1, ShiftedFields DEF Connection
<1>2. \/ /\ connections' = [connections EXCEPT ![s] = Flushed(conn)]
         /\ Resume(c, Flushed(conn).pending)
         /\ UNCHANGED calls
      \/ /\ Teardown(s)
         /\ Resume(c, 0) \/ UNCHANGED <<pause, permit>>
  BY DEF ClientClosed
<1>3. /\ Flushed(conn) \in Connection /\ Flushed(conn).client = c /\ Flushed(conn).state = "Connected"
      /\ Flushed(conn).pending \in Nat /\ Calm(Flushed(conn))
  <2>1. Flushed(conn) \in Connection
    BY <1>1, FlushedFields
  <2> QED BY <1>1, <2>1, FlushedFields, FlushedHeldBack DEF Calm, Connection
<1> HIDE DEF s, conn, c
<1>4. ASSUME UNCHANGED calls, connections' = [connections EXCEPT ![s] = Flushed(conn)],
             Resume(c, Flushed(conn).pending)
      PROVE  StateInv'
  <2>1. /\ Flushed(conn).client = connections[s].client
        /\ Flushed(conn).state = connections[s].state /\ Flushed(conn).state # "Connecting"
    BY <1>0, <1>1, <1>3
  <2>2. Paced(c) /\ (pause'[c] => Flushed(conn).pending >= LowWater)
    BY <1>1, <1>3, <1>4, Resumed
  <2> QED BY <1>0, <1>3, <1>4, <2>1, <2>2, Kept
<1>5. ASSUME Teardown(s), Resume(c, 0) \/ UNCHANGED <<pause, permit>> PROVE StateInv'
  <2>1. calls'[c] = calls[c]
    BY <1>0, <1>5 DEF Teardown
  <2>2. Paced(connections[s].client)
    BY <1>1, <1>5, <2>1, Unpaced, Resumed
  <2> QED BY <1>0, <1>5, <2>2, Dropped
<1> QED BY <1>2, <1>4, <1>5

LEMMA DrainedKeeps ==
  ASSUME StateInv, ChannelTypes, Drained
  PROVE  StateInv'
<1> USE DEF StateInv
<1> DEFINE s == Head(drainChan)[1]
           held == Less(connections[s].rxBuffered, Head(drainChan)[2])
           conn == [connections[s] EXCEPT !.rxBuffered = held]
<1>0. UNCHANGED <<writerUp, nextSport, cmds, pump, calls, pause, permit>>
  BY DEF Drained
<1>1. CASE s \notin DOMAIN connections
  <2>1. UNCHANGED connections
    BY <1>1 DEF Drained
  <2> QED BY <1>0, <2>1, Untouched DEF ConnectionTypes
<1>2. CASE s \in DOMAIN connections
  <2>1. connections' = [connections EXCEPT ![s] = conn]
    BY <1>2 DEF Drained
  <2>2. connections[s] \in Connection /\ connections[s].client \in Conns
    BY <1>2 DEF ConnectionTypes, Connection
  <2>3. held \in Nat
    <3>1. Head(drainChan) \in (0..MaxSport) \X Nat
      BY DEF Drained, ChannelTypes
    <3> QED BY <2>2, <3>1 DEF Less, Connection
  <2> HIDE DEF held
  <2>4. /\ conn \in Connection /\ conn.client = connections[s].client
        /\ conn.state = connections[s].state /\ conn.pending = connections[s].pending
        /\ Sendable(conn) = Sendable(connections[s])
    BY <2>2, <2>3, ShiftedFields
  <2> HIDE DEF conn, s
  <2>5. Paced(conn.client)
    BY <1>0, <2>2, <2>4, Unpaced
  <2>6. /\ conn.state = "Connecting" => conn.pending = 0
        /\ writerUp => Calm(conn) /\ (pause'[conn.client] => conn.pending >= LowWater)
    BY <1>0, <1>2, <2>4 DEF Upload, Calm
  <2> QED BY <1>0, <1>2, <2>1, <2>4, <2>5, <2>6, Kept
<1> QED BY <1>1, <1>2

LEMMA AcceptedKeeps ==
  ASSUME StateInv, ChannelTypes, PipeTypes, Accepted
  PROVE  StateInv'
<1> USE DEF StateInv
<1> DEFINE s == pkt.sport
           c == Heard.client
           conn == [Heard EXCEPT !.txSeq = (@ + 1) % SeqSpace, !.txAck = (@ + 1) % SeqSpace]
           next == [conn EXCEPT !.state = "Connected"]
<1>0. /\ s \in DOMAIN connections /\ Heard.state = "Connecting"
      /\ UNCHANGED <<writerUp, nextSport, cmds, pause, permit>>
      /\ \/ /\ connections' = [connections EXCEPT ![s] = next]
            /\ calls' = [calls EXCEPT ![c] = "connected"]
            /\ pump' = [pump EXCEPT ![c].pc = "check"]
         \/ /\ ~writerUp /\ UNCHANGED <<calls, pump>>
            /\ connections' = [connections EXCEPT ![s] = conn]
  BY DEF Accepted, TakePacket, Emit
<1>1. /\ Heard \in Connection /\ c = connections[s].client /\ c \in Conns
      /\ connections[s].state = "Connecting" /\ Heard.pending = 0
  <2>1. fromDevice # <<>>
    BY DEF Accepted, TakePacket
  <2>2. /\ Heard \in Connection /\ c = connections[s].client
        /\ Heard.state = connections[s].state /\ Heard.pending = connections[s].pending
    BY <1>0, <2>1, HeardFields
  <2> QED BY <1>0, <2>2 DEF Connection, Upload
<1>2. /\ conn \in Connection /\ conn.client = c /\ conn.state = "Connecting" /\ conn.pending = 0
  BY <1>0, <1>1, AcceptedFields
<1>3. /\ next \in Connection /\ next.client = c /\ next.state = "Connected" /\ next.pending = 0
  <2> HIDE DEF conn
  <2> QED BY <1>2 DEF Connection
<1> HIDE DEF conn, next, c, s
<1>4. calls[c] = "calling" /\ ~pause[c]
  BY <1>0, <1>1 DEF Tokens
<1>5. ASSUME ~writerUp, UNCHANGED <<calls, pump>>, connections' = [connections EXCEPT ![s] = conn]
      PROVE  StateInv'
  <2>1. Paced(conn.client)
    BY <1>0, <1>1, <1>2, <1>5, Unpaced
  <2>2. conn.client = connections[s].client /\ conn.state = connections[s].state
    BY <1>1, <1>2
  <2> QED BY <1>0, <1>2, <1>5, <2>1, <2>2, Kept
<1>6. ASSUME connections' = [connections EXCEPT ![s] = next],
             calls' = [calls EXCEPT ![c] = "connected"],
             pump' = [pump EXCEPT ![c].pc = "check"]
      PROVE  StateInv'
  <2>1. /\ DOMAIN connections' = DOMAIN connections /\ connections'[s] = next
        /\ \A q \in DOMAIN connections : q # s => connections'[q] = connections[q]
        /\ \A q \in DOMAIN connections : connections[q] \in Connection /\ connections[q].client \in Conns
    BY <1>0, <1>6 DEF ConnectionTypes, Connection
  <2>2. /\ calls' \in [Conns -> {"idle", "calling", "connected", "refused", "gone"}]
        /\ calls'[c] = "connected" /\ \A d \in Conns : d # c => calls'[d] = calls[d]
    BY <1>1, <1>6 DEF ConnectionTypes
  <2>3. \A q \in DOMAIN connections : q # s => connections[q].client # c
    BY <1>0, <1>1 DEF Tokens
  <2>4. \A i \in DOMAIN cmds : cmds[i] # c
    BY <1>0, <1>1 DEF Tokens
  <2>5. \A q \in DOMAIN connections : connections'[q].client = connections[q].client
    BY <1>1, <1>3, <2>1
  <2>6. ConnectionTypes'
    BY <1>0, <1>3, <2>1, <2>2 DEF ConnectionTypes
  <2>7. ASSUME NEW q \in DOMAIN connections'
        PROVE  calls'[connections'[q].client] =
                 IF connections'[q].state = "Connecting" THEN "calling" ELSE "connected"
    BY <1>3, <2>1, <2>2, <2>3, <2>7 DEF Tokens
  <2>8. \A d \in Conns : pause'[d] => calls'[d] = "connected"
    BY <1>0, <2>2 DEF Tokens
  <2>9. ASSUME NEW i \in DOMAIN cmds', cmds'[i] \in Conns
        PROVE  /\ calls'[cmds'[i]] = "calling"
               /\ \A q \in DOMAIN connections' : connections'[q].client # cmds'[i]
    BY <1>0, <2>1, <2>2, <2>4, <2>5, <2>9 DEF Tokens
  <2>10. \A q, r \in DOMAIN connections' : connections'[q].client = connections'[r].client => q = r
    BY <2>1, <2>5 DEF Tokens
  <2>11. Tokens'
    BY <1>0, <2>7, <2>8, <2>9, <2>10 DEF Tokens
  <2>12. \A d \in Conns : pump'[d].pc = "waiting" /\ ~pause'[d] => permit'[d]
    BY <1>0, <1>6 DEF Upload, ChannelTypes
  <2>13. ASSUME NEW q \in DOMAIN connections'
         PROVE  /\ connections'[q].state = "Connecting" => connections'[q].pending = 0
                /\ writerUp' => /\ Calm(connections'[q])
                                /\ pause'[connections'[q].client] => connections'[q].pending >= LowWater
    <3>1. CASE q = s
      BY <1>0, <1>3, <1>4, <2>1, <3>1 DEF Calm
    <3>2. CASE q # s
      BY <1>0, <2>1, <2>13, <3>2 DEF Upload
    <3> QED BY <3>1, <3>2
  <2>14. Upload'
    BY <2>12, <2>13 DEF Upload, Calm, Sendable, Inflight
  <2> QED BY <2>6, <2>11, <2>14
<1> QED BY <1>0, <1>5, <1>6

LEMMA TornKeeps ==
  ASSUME StateInv, Refused \/ Undeliverable
  PROVE  StateInv'
<1> USE DEF StateInv
<1>0. /\ pkt.sport \in DOMAIN connections /\ Teardown(pkt.sport)
      /\ UNCHANGED <<writerUp, nextSport, cmds, pump, pause, permit>>
  BY DEF Refused, Undeliverable, TakePacket, KeepTasks, Connected
<1> DEFINE c == connections[pkt.sport].client
<1>1. c \in Conns
  BY <1>0 DEF ConnectionTypes, Connection
<1>2. calls'[c] = calls[c] \/ calls[c] # "connected"
  BY <1>0 DEF Teardown, Tokens
<1>3. Paced(c)
  BY <1>0, <1>1, <1>2, Unpaced
<1> QED BY <1>0, <1>3, Dropped

LEMMA ReceivedKeeps ==
  ASSUME StateInv, ChannelTypes, PipeTypes, Received
  PROVE  StateInv'
<1> USE DEF StateInv
<1> DEFINE s == pkt.sport
           c == Heard.client
           conn == [Heard EXCEPT !.rxBuffered = @ + pkt.len,
                                 !.txAck = (@ + pkt.len) % SeqSpace]
           lost == IF pkt.len > 0 THEN 0 ELSE Least(MaxPayload, Sendable(conn))
           stuck == [conn EXCEPT !.pending = @ - lost]
<1>0. /\ s \in DOMAIN connections /\ connections[s].state = "Connected" /\ pkt \in Incoming
      /\ UNCHANGED <<writerUp, nextSport, cmds, pump>>
      /\ \/ /\ writerUp
            /\ \/ Teardown(s)
               \/ connections' = [connections EXCEPT ![s] = Flushed(conn)] /\ UNCHANGED calls
            /\ Resume(c, Flushed(conn).pending)
         \/ /\ ~writerUp /\ connections' = [connections EXCEPT ![s] = stuck]
            /\ UNCHANGED calls
            /\ UNCHANGED <<pause, permit>> \/ Resume(c, conn.pending)
  BY TakenPacket DEF Received, TakePacket, Connected
<1>1. /\ Heard \in Connection /\ c = connections[s].client /\ Heard.state = "Connected" /\ c \in Conns
  <2>1. fromDevice # <<>>
    BY DEF Received, TakePacket
  <2> QED BY <1>0, <2>1, HeardFields DEF Connection
<1>2. conn \in Connection /\ conn.client = c /\ conn.state = "Connected" /\ conn.pending \in Nat
  <2>1. pkt.len \in Nat
    BY <1>0 DEF Incoming
  <2> QED BY <1>1, <2>1, ReceivedFields DEF Connection
<1> HIDE DEF conn, c, s
<1>3. /\ Flushed(conn) \in Connection /\ Flushed(conn).client = c /\ Flushed(conn).state = "Connected"
      /\ Flushed(conn).pending \in Nat /\ Calm(Flushed(conn))
  <2>1. Flushed(conn) \in Connection
    BY <1>2, FlushedFields
  <2> QED BY <1>2, <2>1, FlushedFields, FlushedHeldBack DEF Calm, Connection
<1>4. stuck \in Connection /\ stuck.client = c /\ stuck.state = "Connected"
  <2>1. lost \in Nat /\ lost <= conn.pending
    BY <1>2, SendableFacts, Sizes DEF Least
  <2> HIDE DEF lost
  <2> QED BY <1>2, <2>1 DEF Connection
<1> HIDE DEF stuck, lost
<1>c. calls[c] = "connected"
  BY <1>0, <1>1 DEF Tokens
<1>5. ASSUME Teardown(s), Resume(c, Flushed(conn).pending) PROVE StateInv'
  <2>1. calls'[c] = calls[c]
    BY <1>0, <1>5 DEF Teardown
  <2>2. Paced(connections[s].client)
    BY <1>1, <1>3, <1>5, <2>1, Resumed
  <2> QED BY <1>0, <1>5, <2>2, Dropped
<1>6. ASSUME connections' = [connections EXCEPT ![s] = Flushed(conn)], UNCHANGED calls,
             Resume(c, Flushed(conn).pending)
      PROVE  StateInv'
  <2>1. /\ Flushed(conn).client = connections[s].client
        /\ Flushed(conn).state = connections[s].state /\ Flushed(conn).state # "Connecting"
    BY <1>0, <1>1, <1>3
  <2>2. Paced(c) /\ (pause'[c] => Flushed(conn).pending >= LowWater)
    BY <1>1, <1>3, <1>6, Resumed
  <2> QED BY <1>0, <1>3, <1>6, <2>1, <2>2, Kept
<1>7. ASSUME ~writerUp, connections' = [connections EXCEPT ![s] = stuck], UNCHANGED calls,
             UNCHANGED <<pause, permit>> \/ Resume(c, conn.pending)
      PROVE  StateInv'
  <2>1. /\ stuck.client = connections[s].client
        /\ stuck.state = connections[s].state /\ stuck.state # "Connecting"
    BY <1>0, <1>1, <1>4
  <2>2. Paced(c)
    BY <1>1, <1>2, <1>7, Resumed, Unpaced
  <2> QED BY <1>0, <1>4, <1>7, <2>1, <2>2, Kept
<1> QED BY <1>0, <1>5, <1>6, <1>7, SMTT(30)
-----------------------------------------------------------------------------
(* The types of the channels between the tasks.                            *)

UserType == [side : {"none", "open", "shut", "dropped"}, out : Nat, in : Nat, given : Nat]

PumpType == [pc : {"off", "check", "waiting", "reading", "sending", "done"}, chunk : Nat]

ForwarderType == [pc : {"off", "running", "done"}, queue : Seq(Nat)]

Bytes == (0..MaxSport) \X Nat

LEMMA BytesAppended ==
  ASSUME NEW chan \in Seq((0..MaxSport) \X Nat), NEW m \in Bytes
  PROVE  Append(chan, m) \in Seq((0..MaxSport) \X Nat)
<1> QED BY DEF Bytes

LEMMA UsersTyped ==
  ASSUME ChannelTypes, NEW c \in Conns,
         UserWrites(c) \/ UserReads(c) \/ UserShuts(c) \/ UserDrops(c)
  PROVE  ChannelTypes'
<1> DEFINE u == user[c]
<1>1. u \in UserType
  BY DEF ChannelTypes, UserType
<1>w. u.out + 1 \in Nat /\ u.given + 1 \in Nat
  BY <1>1 DEF UserType
<1>v. \A m, k \in Nat : [u EXCEPT !.out = m, !.given = k] \in UserType
  BY <1>1 DEF UserType
<1>2. /\ [u EXCEPT !.out = @ + 1, !.given = @ + 1] \in UserType
      /\ [u EXCEPT !.in = 0] \in UserType /\ [u EXCEPT !.side = "shut"] \in UserType
      /\ [u EXCEPT !.side = "dropped", !.in = 0] \in UserType
  <2>1. [u EXCEPT !.out = @ + 1, !.given = @ + 1] \in UserType
    BY <1>v, <1>w
  <2>2. /\ [u EXCEPT !.in = 0] \in UserType /\ [u EXCEPT !.side = "shut"] \in UserType
        /\ [u EXCEPT !.side = "dropped", !.in = 0] \in UserType
    BY <1>1 DEF UserType
  <2> QED BY <2>1, <2>2
<1>3. user' \in [Conns -> UserType]
  BY <1>2, ZenonT(40) DEF UserWrites, UserReads, UserShuts, UserDrops, ChannelTypes, UserType
<1>4. UNCHANGED <<dataChan, drainChan, sportOf, pump, forwarder>>
  BY DEF UserWrites, UserReads, UserShuts, UserDrops, UserStep
<1> QED BY <1>3, <1>4 DEF ChannelTypes, UserType

LEMMA PumpsTyped ==
  ASSUME ChannelTypes, NEW c \in Conns, PumpAct(c)
  PROVE  ChannelTypes'
<1> USE DEF ChannelTypes
<1> DEFINE p == pump[c]
           u == user[c]
<1>1. p \in PumpType /\ u \in UserType /\ pump \in [Conns -> PumpType] /\ user \in [Conns -> UserType]
  BY DEF UserType, PumpType
<1>0. UNCHANGED <<drainChan, sportOf, forwarder>>
  BY DEF PumpAct, PumpChecks, PumpNotified, PumpReads, PumpSends, PumpStep
<1>2. ASSUME PumpChecks(c) \/ PumpNotified(c) PROVE ChannelTypes'
  <2>1. /\ [p EXCEPT !.pc = IF pause[c] THEN "waiting" ELSE "reading"] \in PumpType
        /\ [p EXCEPT !.pc = "check"] \in PumpType
    BY <1>1 DEF PumpType
  <2>2. pump' \in [Conns -> PumpType] /\ UNCHANGED <<dataChan, user>>
    <3>1. CASE PumpChecks(c)
      BY <1>1, <2>1, <3>1 DEF PumpChecks
    <3>2. CASE PumpNotified(c)
      BY <1>1, <2>1, <3>2 DEF PumpNotified
    <3> QED BY <1>2, <3>1, <3>2
  <2> QED BY <1>0, <2>2 DEF PumpType
<1>3. ASSUME PumpReads(c) PROVE ChannelTypes'
  <2> DEFINE n == Least(u.out, MaxPayload)
  <2>1. n \in Nat /\ u.out - n \in Nat
    BY <1>1, Sizes DEF Least, UserType
  <2>2. /\ pump' = [pump EXCEPT ![c] = [pc |-> "sending", chunk |-> n]]
        /\ user' = [user EXCEPT ![c].out = @ - n] /\ UNCHANGED dataChan
    BY <1>3 DEF PumpReads
  <2> HIDE DEF n
  <2>3. [pc |-> "sending", chunk |-> n] \in PumpType /\ [u EXCEPT !.out = @ - n] \in UserType
    BY <1>1, <2>1 DEF PumpType, UserType
  <2>4. pump' \in [Conns -> PumpType] /\ user' \in [Conns -> UserType]
    BY <1>1, <2>2, <2>3
  <2> QED BY <1>0, <2>2, <2>4 DEF PumpType, UserType
<1>4. ASSUME PumpSends(c) PROVE ChannelTypes'
  <2>1. p.chunk \in Nat /\ <<sportOf[c], p.chunk>> \in Bytes
    BY <1>1 DEF PumpType, Bytes
  <2>2. /\ dataChan' = Append(dataChan, <<sportOf[c], p.chunk>>) \/ dataChan' = dataChan
        /\ \/ pump' = [pump EXCEPT ![c] = [pc |-> "done", chunk |-> 0]]
           \/ pump' = [pump EXCEPT ![c] = [pc |-> "check", chunk |-> 0]]
        /\ UNCHANGED user
    BY <1>1, <1>4 DEF PumpSends
  <2>3. dataChan' \in Seq((0..MaxSport) \X Nat)
    <3> DEFINE m == <<sportOf[c], p.chunk>>
    <3>2. dataChan \in Seq((0..MaxSport) \X Nat)
      OBVIOUS
    <3>1. m \in Bytes /\ (dataChan' = Append(dataChan, m) \/ dataChan' = dataChan)
      BY <2>1, <2>2
    <3> HIDE DEF m
    <3>3. Append(dataChan, m) \in Seq((0..MaxSport) \X Nat)
      BY <3>1, <3>2, BytesAppended
    <3> QED BY <3>1, <3>2, <3>3
  <2>4. /\ [pc |-> "done", chunk |-> 0] \in PumpType /\ [pc |-> "check", chunk |-> 0] \in PumpType
    BY DEF PumpType
  <2>5. pump' \in [Conns -> PumpType]
    BY <1>1, <2>2, <2>4
  <2> QED BY <1>0, <2>2, <2>3, <2>5 DEF PumpType
<1> QED BY <1>2, <1>3, <1>4 DEF PumpAct

LEMMA ForwardersTyped ==
  ASSUME ChannelTypes, NEW c \in Conns, ForwarderAct(c)
  PROVE  ChannelTypes'
<1> USE DEF ChannelTypes
<1> DEFINE f == forwarder[c]
           u == user[c]
           n == Head(f.queue)
<1>1. /\ f \in ForwarderType /\ u \in UserType /\ user \in [Conns -> UserType]
      /\ forwarder \in [Conns -> ForwarderType]
  BY DEF UserType, ForwarderType
<1>0. UNCHANGED <<dataChan, sportOf, pump>>
  BY DEF ForwarderAct, ForwarderWrites, ForwarderEnds, ForwarderStep
<1>2. ASSUME ForwarderWrites(c) PROVE ChannelTypes'
  <2>1. /\ f.queue # <<>> /\ user' = [user EXCEPT ![c].in = @ + n]
        /\ drainChan' = Append(drainChan, <<sportOf[c], n>>) \/ drainChan' = drainChan
        /\ \/ forwarder' = [forwarder EXCEPT ![c] = [pc |-> "running", queue |-> Tail(f.queue)]]
           \/ forwarder' = [forwarder EXCEPT ![c] = [pc |-> "done", queue |-> <<>>]]
    BY <1>1, <1>2 DEF ForwarderWrites
  <2>2. f.queue \in Seq(Nat)
    BY <1>1 DEF ForwarderType
  <2>3. n \in Nat /\ Tail(f.queue) \in Seq(Nat)
    BY <2>1, <2>2
  <2> HIDE DEF n
  <2>4. [u EXCEPT !.in = @ + n] \in UserType /\ <<sportOf[c], n>> \in Bytes
    <3>1. u.in + n \in Nat
      BY <1>1, <2>3 DEF UserType
    <3>2. \A m \in Nat : [u EXCEPT !.in = m] \in UserType
      BY <1>1 DEF UserType
    <3>3. <<sportOf[c], n>> \in Bytes
      BY <2>3 DEF Bytes
    <3> QED BY <3>1, <3>2, <3>3
  <2>5. /\ [pc |-> "running", queue |-> Tail(f.queue)] \in ForwarderType
        /\ [pc |-> "done", queue |-> <<>>] \in ForwarderType
    BY <2>3 DEF ForwarderType
  <2>6. user' \in [Conns -> UserType]
    BY <1>1, <2>1, <2>4
  <2>7. forwarder' \in [Conns -> ForwarderType]
    BY <1>1, <2>1, <2>5
  <2>8. drainChan' \in Seq((0..MaxSport) \X Nat)
    <3> DEFINE m == <<sportOf[c], n>>
    <3>2. drainChan \in Seq((0..MaxSport) \X Nat)
      OBVIOUS
    <3>1. m \in Bytes /\ (drainChan' = Append(drainChan, m) \/ drainChan' = drainChan)
      BY <2>1, <2>4
    <3> HIDE DEF m
    <3>3. Append(drainChan, m) \in Seq((0..MaxSport) \X Nat)
      BY <3>1, <3>2, BytesAppended
    <3> QED BY <3>1, <3>2, <3>3
  <2> QED BY <1>0, <2>6, <2>7, <2>8 DEF UserType, ForwarderType
<1>3. ASSUME ForwarderEnds(c) PROVE ChannelTypes'
  <2>1. [pc |-> "done", queue |-> <<>>] \in ForwarderType
    BY DEF ForwarderType
  <2>2. forwarder' \in [Conns -> ForwarderType] /\ UNCHANGED <<user, drainChan>>
    BY <1>1, <1>3, <2>1 DEF ForwarderEnds
  <2> QED BY <1>0, <2>2 DEF ForwarderType
<1> QED BY <1>2, <1>3 DEF ForwarderAct

LEMMA TakingTyped ==
  ASSUME ChannelTypes, DataStep \/ Drained
  PROVE  ChannelTypes'
<1>1. CASE DataStep
  <2>1. dataChan # <<>> /\ dataChan' = Tail(dataChan) /\ UNCHANGED <<drainChan, sportOf, pump, forwarder, user>>
    BY <1>1 DEF DataStep, DataIgnored, DataFromPump, ClientClosed, TakeData
  <2> QED BY <2>1 DEF ChannelTypes
<1>2. CASE Drained
  <2>1. drainChan # <<>> /\ drainChan' = Tail(drainChan) /\ UNCHANGED <<dataChan, sportOf, pump, forwarder, user>>
    BY <1>2 DEF Drained
  <2> QED BY <2>1 DEF ChannelTypes
<1> QED BY <1>1, <1>2

LEMMA PacketsTyped ==
  ASSUME StateInv, ChannelTypes, PipeTypes, PacketStep
  PROVE  ChannelTypes'
<1> USE DEF ChannelTypes
<1>0. /\ UNCHANGED <<dataChan, drainChan>> /\ fromDevice # <<>>
  BY DEF PacketStep, UnknownConnection, Accepted, Refused, Undeliverable, Received, TakePacket
<1>1. pkt \in Incoming
  BY <1>0, TakenPacket
<1>2. CASE UnknownConnection \/ Refused \/ Undeliverable
  BY <1>0, <1>2 DEF UnknownConnection, Refused, Undeliverable, KeepTasks
<1>3. CASE Accepted
  <2> DEFINE c == Heard.client
  <2>1. pkt.sport \in Sports /\ c \in Conns
    <3>1. pkt.sport \in DOMAIN connections
      BY <1>3 DEF Accepted
    <3> QED BY <1>0, <1>1, <3>1, HeardFields DEF StateInv, Connection, Incoming
  <2>2. /\ \/ /\ sportOf' = [sportOf EXCEPT ![c] = pkt.sport]
              /\ pump' = [pump EXCEPT ![c].pc = "check"]
              /\ forwarder' = [forwarder EXCEPT ![c].pc = "running"]
              /\ user' = [user EXCEPT ![c].side = "open"]
           \/ UNCHANGED <<sportOf, pump, forwarder, user>>
    BY <1>3 DEF Accepted
  <2> HIDE DEF c
  <2>3. /\ [pump[c] EXCEPT !.pc = "check"] \in PumpType
        /\ [forwarder[c] EXCEPT !.pc = "running"] \in ForwarderType
        /\ [user[c] EXCEPT !.side = "open"] \in UserType
    BY <2>1, ZenonT(40) DEF PumpType, ForwarderType, UserType
  <2>4. pump' \in [Conns -> PumpType]
    BY <2>1, <2>2, <2>3 DEF PumpType
  <2>5. forwarder' \in [Conns -> ForwarderType]
    BY <2>1, <2>2, <2>3 DEF ForwarderType
  <2>6. user' \in [Conns -> UserType]
    BY <2>1, <2>2, <2>3 DEF UserType
  <2>7. sportOf' \in [Conns -> 0..MaxSport]
    <3>1. pkt.sport \in 0..MaxSport
      BY <2>1, Sizes DEF Sports
    <3> QED BY <2>1, <2>2, <3>1
  <2> QED BY <1>0, <2>4, <2>5, <2>6, <2>7 DEF PumpType, ForwarderType, UserType
<1>4. CASE Received
  <2> DEFINE c == Heard.client
  <2>1. c \in Conns /\ pkt.len \in Nat
    <3>1. pkt.sport \in DOMAIN connections
      BY <1>4, SMTT(30) DEF Received, Connected
    <3> QED BY <1>0, <1>1, <3>1, HeardFields DEF StateInv, Connection, Incoming
  <2>2. /\ UNCHANGED <<sportOf, pump, user>>
        /\ \/ forwarder' = [forwarder EXCEPT ![c].queue = Append(@, pkt.len)]
           \/ forwarder' = forwarder
    BY <1>4 DEF Received
  <2> HIDE DEF c
  <2>3. Append(forwarder[c].queue, pkt.len) \in Seq(Nat)
    BY <2>1
  <2>4. [forwarder[c] EXCEPT !.queue = Append(@, pkt.len)] \in ForwarderType
    BY <2>1, <2>3 DEF ForwarderType
  <2>5. forwarder' \in [Conns -> ForwarderType]
    BY <2>1, <2>2, <2>4 DEF ForwarderType
  <2> QED BY <1>0, <2>2, <2>5 DEF ForwarderType
<1> QED BY <1>2, <1>3, <1>4 DEF PacketStep
-----------------------------------------------------------------------------
(* The types of what is on the pipe, while the task is there.              *)

PipeInv == mux # "exited" => PipeTypes

LEMMA SentTyped ==
  ASSUME PipeTypes, UNCHANGED device, NEW f \in Seq(Outgoing), toDevice' = toDevice \o f,
         fromDevice' = fromDevice \/ (fromDevice # <<>> /\ fromDevice' = Tail(fromDevice))
  PROVE  PipeTypes'
<1>1. toDevice \o f \in Seq(Outgoing)
  BY DEF PipeTypes
<1>2. fromDevice' \in Seq(Incoming)
  BY DEF PipeTypes
<1> QED BY <1>1, <1>2 DEF PipeTypes

LEMMA QuietTyped ==
  ASSUME PipeTypes, UNCHANGED <<device, toDevice>>,
         fromDevice' = fromDevice \/ (fromDevice # <<>> /\ fromDevice' = Tail(fromDevice))
  PROVE  PipeTypes'
<1>1. fromDevice' \in Seq(Incoming)
  BY DEF PipeTypes
<1> QED BY <1>1 DEF PipeTypes

LEMMA OneFrame ==
  ASSUME NEW f \in Outgoing
  PROVE  <<f>> \in Seq(Outgoing) /\ Append(toDevice, f) = toDevice \o <<f>>
<1> QED OBVIOUS

LEMMA ConnectPipe ==
  ASSUME StateInv, PipeTypes, MuxConnect
  PROVE  PipeTypes'
<1> DEFINE c == Head(cmds)
           f == Frame(nextSport, NewConnection(c), "SYN", 0)
<1>1. f \in Outgoing
  <2>1. c \in Conns /\ nextSport \in Sports
    BY DEF MuxConnect, StateInv, ConnectionTypes
  <2>2. NewConnection(c) \in Connection
    BY <2>1, NewFields
  <2> QED BY <2>1, <2>2, FrameIsOutgoing DEF Flags
<1>2. (toDevice' = toDevice \o <<f>> \/ UNCHANGED toDevice) /\ UNCHANGED <<device, fromDevice>>
  BY DEF MuxConnect, Emit
<1> HIDE DEF f
<1>3. <<f>> \in Seq(Outgoing)
  BY <1>1, OneFrame
<1> QED BY <1>2, <1>3, SentTyped, QuietTyped

LEMMA DataPipe ==
  ASSUME StateInv, ChannelTypes, PipeTypes, DataStep
  PROVE  PipeTypes'
<1>0. UNCHANGED <<fromDevice, device>>
  BY DEF DataStep, DataIgnored, DataFromPump, ClientClosed, TakeData
<1>1. CASE DataIgnored
  BY <1>0, <1>1, QuietTyped DEF DataIgnored
<1>2. CASE DataFromPump
  <2> DEFINE s == Head(dataChan)[1]
             n == Head(dataChan)[2]
             conn == [connections[s] EXCEPT !.pending = @ + n]
  <2>1. s \in DOMAIN connections /\ n \in Nat
    <3>1. dataChan # <<>> /\ dataChan \in Seq((0..MaxSport) \X Nat) /\ s \in DOMAIN connections
      BY <1>2 DEF DataFromPump, TakeData, ChannelTypes, Connected
    <3>2. Head(dataChan) \in (0..MaxSport) \X Nat
      BY <3>1
    <3> QED BY <3>1, <3>2
  <2>2. connections[s] \in Connection /\ s \in Sports
    BY <2>1 DEF StateInv, ConnectionTypes
  <2>3. conn \in Connection
    <3> HIDE DEF s, n
    <3> QED BY <2>1, <2>2 DEF Connection
  <2>4. toDevice' = toDevice \o FlushFrames(s, conn) \/ UNCHANGED toDevice
    BY <1>2 DEF DataFromPump
  <2> HIDE DEF s, n, conn
  <2>5. FlushFrames(s, conn) \in Seq(Outgoing)
    BY <2>2, <2>3, FlushIsOutgoing
  <2> QED BY <1>0, <2>4, <2>5, SentTyped, QuietTyped
<1>3. CASE ClientClosed
  <2> DEFINE s == Head(dataChan)[1]
             conn == [connections[s] EXCEPT !.clientClosed = TRUE]
             f == Frame(s, Flushed(conn), "RST", 0)
  <2>1. connections[s] \in Connection /\ s \in Sports
    BY <1>3 DEF ClientClosed, Connected, StateInv, ConnectionTypes
  <2>2. conn \in Connection
    BY <2>1 DEF Connection
  <2>3. \/ toDevice' = toDevice \o FlushFrames(s, conn)
        \/ toDevice' = toDevice \o FlushFrames(s, conn) \o <<f>>
        \/ UNCHANGED toDevice
    BY <1>3 DEF ClientClosed
  <2> HIDE DEF s, conn
  <2>4. FlushFrames(s, conn) \in Seq(Outgoing) /\ f \in Outgoing
    BY <2>1, <2>2, FlushIsOutgoing, FlushedFields, FrameIsOutgoing DEF Flags
  <2> DEFINE flush == FlushFrames(s, conn)
  <2> HIDE DEF flush, f
  <2>5. /\ flush \in Seq(Outgoing) /\ flush \o <<f>> \in Seq(Outgoing)
        /\ toDevice \o flush \o <<f>> = toDevice \o (flush \o <<f>>)
    <3>1. toDevice \in Seq(Outgoing) /\ flush \in Seq(Outgoing) /\ <<f>> \in Seq(Outgoing)
      BY <2>4 DEF PipeTypes, flush
    <3> QED BY <3>1
  <2>6. \/ toDevice' = toDevice \o flush
        \/ toDevice' = toDevice \o (flush \o <<f>>)
        \/ UNCHANGED toDevice
    BY <2>3, <2>5 DEF flush
  <2> QED BY <1>0, <2>5, <2>6, SentTyped, QuietTyped
<1> QED BY <1>1, <1>2, <1>3 DEF DataStep

LEMMA DrainedPipe ==
  ASSUME StateInv, ChannelTypes, PipeTypes, Drained
  PROVE  PipeTypes'
<1> DEFINE s == Head(drainChan)[1]
           held == Less(connections[s].rxBuffered, Head(drainChan)[2])
           conn == [connections[s] EXCEPT !.rxBuffered = held]
           f == Frame(s, conn, "ACK", 0)
<1>0. UNCHANGED <<fromDevice, device>>
  BY DEF Drained
<1>1. \/ s \in DOMAIN connections /\ toDevice' = Append(toDevice, f)
      \/ UNCHANGED toDevice
  BY DEF Drained
<1>2. ASSUME s \in DOMAIN connections PROVE <<f>> \in Seq(Outgoing) /\ Append(toDevice, f) = toDevice \o <<f>>
  <2>1. connections[s] \in Connection /\ s \in Sports
    BY <1>2 DEF StateInv, ConnectionTypes
  <2>2. held \in Nat
    <3>1. drainChan # <<>> /\ drainChan \in Seq((0..MaxSport) \X Nat)
      BY DEF Drained, ChannelTypes
    <3>2. Head(drainChan) \in (0..MaxSport) \X Nat
      BY <3>1
    <3> QED BY <2>1, <3>2 DEF Less, Connection
  <2> HIDE DEF held, s
  <2>3. conn \in Connection
    BY <2>1, <2>2, ShiftedFields
  <2> HIDE DEF conn
  <2> QED BY <2>1, <2>3, FrameIsOutgoing, OneFrame DEF Flags
<1> HIDE DEF f, s
<1> QED BY <1>0, <1>1, <1>2, SentTyped, QuietTyped
LEMMA OneSent ==
  ASSUME PipeTypes, UNCHANGED device, NEW f \in Outgoing,
         toDevice' = Append(toDevice, f) \/ toDevice' = toDevice \o <<f>> \/ toDevice' = toDevice,
         fromDevice' = fromDevice \/ (fromDevice # <<>> /\ fromDevice' = Tail(fromDevice))
  PROVE  PipeTypes'
<1>1. <<f>> \in Seq(Outgoing) /\ Append(toDevice, f) = toDevice \o <<f>>
  BY OneFrame
<1>2. (toDevice' = toDevice \o <<f>>) \/ UNCHANGED toDevice
  BY <1>1, SMTT(30)
<1> QED BY <1>1, <1>2, SentTyped, QuietTyped

LEMMA PacketPipe ==
  ASSUME StateInv, ChannelTypes, PipeTypes, PacketStep
  PROVE  PipeTypes'
<1>0. UNCHANGED device /\ fromDevice # <<>> /\ fromDevice' = Tail(fromDevice)
  BY DEF PacketStep, UnknownConnection, Accepted, Refused, Undeliverable, Received, TakePacket
<1>1. pkt \in Incoming /\ pkt.sport \in Sports /\ pkt.len \in Nat /\ pkt.seq \in Numbers
  BY <1>0, TakenPacket DEF Incoming
<1>2. CASE UnknownConnection
  <2> DEFINE anon == [txSeq |-> 0, txAck |-> pkt.seq, rxBuffered |-> 0]
             f == Frame(pkt.sport, anon, "RST", 0)
             w == (Window(anon) \div Grain) * Grain
  <2>1. toDevice' = Append(toDevice, f) \/ toDevice' = toDevice
    BY <1>2 DEF UnknownConnection
  <2>2. w \in 0..RxWindow
    BY OfferRange
  <2>3. f = [sport |-> pkt.sport, flags |-> "RST", seq |-> 0, ack |-> pkt.seq, win |-> w, len |-> 0]
    BY DEF Frame
  <2> HIDE DEF w
  <2>4. f \in Outgoing
    <3>1. 0 \in Numbers
      BY Sizes DEF Numbers
    <3> QED BY <1>1, <2>2, <2>3, <3>1 DEF Outgoing, Flags
  <2> HIDE DEF f
  <2> QED BY <1>0, <2>1, <2>4, OneSent
<1>h. pkt.sport \in DOMAIN connections => Heard \in Connection
  BY <1>0, HeardFields DEF StateInv
<1>3. CASE Accepted
  <2> DEFINE conn == [Heard EXCEPT !.txSeq = (@ + 1) % SeqSpace, !.txAck = (@ + 1) % SeqSpace]
             f == Frame(pkt.sport, conn, "ACK", 0)
  <2>1. pkt.sport \in DOMAIN connections /\ (toDevice' = toDevice \o <<f>> \/ toDevice' = toDevice)
    BY <1>3 DEF Accepted, Emit
  <2>2. conn \in Connection
    BY <1>h, <2>1, AcceptedFields
  <2> HIDE DEF conn
  <2>3. f \in Outgoing
    BY <1>1, <2>2, FrameIsOutgoing DEF Flags
  <2> HIDE DEF f
  <2> QED BY <1>0, <2>1, <2>3, OneSent
<1>4. CASE Refused
  BY <1>0, <1>4, QuietTyped DEF Refused
<1>5. CASE Undeliverable
  <2> DEFINE f == Frame(pkt.sport, Heard, "RST", 0)
  <2>1. pkt.sport \in DOMAIN connections /\ (toDevice' = Append(toDevice, f) \/ toDevice' = toDevice)
    BY <1>5 DEF Undeliverable, Connected
  <2>2. f \in Outgoing
    BY <1>1, <1>h, <2>1, FrameIsOutgoing DEF Flags
  <2> HIDE DEF f
  <2> QED BY <1>0, <2>1, <2>2, OneSent
<1>6. CASE Received
  <2> DEFINE s == pkt.sport
             conn == [Heard EXCEPT !.rxBuffered = @ + pkt.len, !.txAck = (@ + pkt.len) % SeqSpace]
             first == Frame(s, conn, "ACK", 0)
             acks == IF pkt.len > 0 THEN <<first>> ELSE <<>>
             flush == FlushFrames(s, conn)
             last == Frame(s, Flushed(conn), "RST", 0)
             bye == IF conn.clientClosed /\ Flushed(conn).pending = 0 THEN <<last>> ELSE <<>>
  <2>1. /\ pkt.sport \in DOMAIN connections
        /\ toDevice' = toDevice \o acks \o flush \o bye \/ toDevice' = toDevice
    BY <1>6 DEF Received, Connected
  <2>2. conn \in Connection
    BY <1>1, <1>h, <2>1, ReceivedFields
  <2> HIDE DEF conn
  <2>3. /\ first \in Outgoing /\ flush \in Seq(Outgoing) /\ last \in Outgoing
    BY <1>1, <2>2, FrameIsOutgoing, FlushIsOutgoing, FlushedFields DEF Flags
  <2> HIDE DEF first, flush, last
  <2>4. <<>> \in Seq(Outgoing) /\ <<first>> \in Seq(Outgoing) /\ <<last>> \in Seq(Outgoing)
    BY <2>3, OneFrame
  <2>5. acks \in Seq(Outgoing) /\ bye \in Seq(Outgoing)
    BY <2>4
  <2> HIDE DEF acks, bye
  <2>6. /\ acks \o flush \o bye \in Seq(Outgoing)
        /\ toDevice \o acks \o flush \o bye = toDevice \o (acks \o flush \o bye)
    <3>1. toDevice \in Seq(Outgoing)
      BY DEF PipeTypes
    <3> QED BY <2>3, <2>5, <3>1, SMTT(30)
  <2> DEFINE all == acks \o flush \o bye
  <2>7. all \in Seq(Outgoing) /\ (toDevice' = toDevice \o all \/ toDevice' = toDevice)
    BY <2>1, <2>6
  <2> HIDE DEF all
  <2> QED BY <1>0, <2>7, SentTyped, QuietTyped
<1> QED BY <1>2, <1>3, <1>4, <1>5, <1>6 DEF PacketStep

LEMMA FramesIncoming ==
  ASSUME NEW s \in Sports, NEW d \in DeviceEnd, NEW flags \in Flags, NEW len \in Nat
  PROVE  /\ DeviceFrame(s, d, flags, len) \in Incoming
         /\ [DeviceFrame(s, d, flags, len) EXCEPT !.seq = 0] \in Incoming
         /\ View(d) \in Nat \X Int
<1> DEFINE seq == (1 + d.sent) % SeqSpace
           ack == (1 + d.rcvd) % SeqSpace
           win == DeviceWindow - d.held
<1>1. seq \in Numbers /\ ack \in Numbers /\ win \in Int /\ win <= DeviceWindow /\ 0 \in Numbers
  <2>1. d.sent \in Nat /\ d.rcvd \in Nat /\ d.held \in Nat
    BY DEF DeviceEnd
  <2> QED BY <2>1, ModRange, Sizes DEF Numbers
<1>2. DeviceFrame(s, d, flags, len) = [sport |-> s, flags |-> flags, seq |-> seq, ack |-> ack,
                                       win |-> win, len |-> len]
  BY DEF DeviceFrame
<1>3. View(d) = <<ack, win>>
  BY DEF View
<1> HIDE DEF seq, ack, win
<1> QED BY <1>1, <1>2, <1>3 DEF Incoming, Numbers

LEMMA Answered ==
  ASSUME PipeTypes, NEW p \in Incoming, ToHost(p) \/ UNCHANGED fromDevice
  PROVE  fromDevice' \in Seq(Incoming)
<1>1. fromDevice \in Seq(Incoming)
  BY DEF PipeTypes
<1>2. Append(fromDevice, p) \in Seq(Incoming)
  BY <1>1
<1> QED BY <1>1, <1>2 DEF ToHost

LEMMA TakesPipe ==
  ASSUME PipeTypes, DeviceTakes
  PROVE  PipeTypes'
<1> DEFINE p == Head(toDevice)
           s == p.sport
           d == device[s]
           new == [Closed EXCEPT !.open = TRUE, !.told = View(Closed)]
           synAck == [DeviceFrame(s, new, "SYN|ACK", 0) EXCEPT !.seq = 0]
           rst == DeviceFrame(s, d, "RST", 0)
           more == [d EXCEPT !.rcvd = @ + p.len, !.held = @ + p.len, !.ack = p.ack, !.win = p.win]
           shut == [d EXCEPT !.open = FALSE]
<1>1. p \in Outgoing /\ Tail(toDevice) \in Seq(Outgoing) /\ toDevice' = Tail(toDevice)
  <2>1. toDevice # <<>> /\ toDevice \in Seq(Outgoing) /\ toDevice' = Tail(toDevice)
    BY DEF DeviceTakes, PipeTypes
  <2> QED BY <2>1
<1>2. s \in Sports /\ p.len \in Nat /\ p.ack \in Numbers /\ p.win \in 0..RxWindow
  BY <1>1 DEF Outgoing
<1>3. d \in DeviceEnd
  BY <1>2 DEF PipeTypes
<1>4. Closed \in DeviceEnd
  <2>1. 0 \in Numbers /\ 0 \in 0..RxWindow
    BY Sizes DEF Numbers
  <2> QED BY <2>1 DEF Closed, DeviceEnd
<1>5. \/ device' = [device EXCEPT ![s] = new] /\ ToHost(synAck)
      \/ device' = device /\ ToHost(rst)
      \/ device' = [device EXCEPT ![s] = more] /\ UNCHANGED fromDevice
      \/ device' = [device EXCEPT ![s].open = FALSE] /\ UNCHANGED fromDevice
      \/ device' = device /\ UNCHANGED fromDevice
  BY DEF DeviceTakes
<1> HIDE DEF p, s, d
<1>6. new \in DeviceEnd
  <2>1. View(Closed) \in Nat \X Int
    BY <1>2, <1>4, FramesIncoming DEF Flags
  <2> DEFINE v == View(Closed)
  <2> HIDE DEF v
  <2>2. [Closed EXCEPT !.open = TRUE, !.told = v] \in DeviceEnd
    <3>1. v \in Nat \X Int
      BY <2>1 DEF v
    <3> QED BY <1>4, <3>1 DEF DeviceEnd
  <2> QED BY <2>2 DEF v
<1>7. more \in DeviceEnd
  <2> DEFINE got == d.rcvd + p.len
             holds == d.held + p.len
             ack == p.ack
             win == p.win
  <2>1. got \in Nat /\ holds \in Nat /\ ack \in Numbers /\ win \in 0..RxWindow
    BY <1>2, <1>3 DEF DeviceEnd
  <2> HIDE DEF got, holds, ack, win
  <2>2. [d EXCEPT !.rcvd = got, !.held = holds, !.ack = ack, !.win = win] \in DeviceEnd
    BY <1>3, <2>1 DEF DeviceEnd
  <2> QED BY <2>2 DEF got, holds, ack, win
<1>8. shut \in DeviceEnd
  BY <1>3 DEF DeviceEnd
<1> HIDE DEF new, more
<1>9. synAck \in Incoming /\ rst \in Incoming
  BY <1>2, <1>3, <1>6, FramesIncoming DEF Flags
<1>10. device \in [Sports -> DeviceEnd]
  BY DEF PipeTypes
<1>11. device' \in [Sports -> DeviceEnd]
  <2>1. [device EXCEPT ![s].open = FALSE] = [device EXCEPT ![s] = shut]
    BY <1>2, <1>10 DEF d
  <2> HIDE DEF shut
  <2> QED BY <1>2, <1>5, <1>6, <1>7, <1>8, <1>10, <2>1
<1> HIDE DEF synAck, rst
<1>12. fromDevice' \in Seq(Incoming)
  BY <1>5, <1>9, Answered
<1> QED BY <1>1, <1>11, <1>12 DEF PipeTypes

LEMMA DevicePipe ==
  ASSUME PipeTypes, NEW s \in Sports, NEW n \in Nat,
         DeviceConsumes(s) \/ DeviceSends(s, n) \/ DeviceResets(s)
  PROVE  PipeTypes'
<1> DEFINE d == device[s]
           f == DeviceFrame(s, d, "ACK", n)
           rst == DeviceFrame(s, d, "RST", 0)
           view == View(d)
           eaten == [d EXCEPT !.held = 0]
           sent == [d EXCEPT !.sent = @ + n, !.told = view]
           shut == [d EXCEPT !.open = FALSE]
<1>0. UNCHANGED toDevice
  BY DEF DeviceConsumes, DeviceSends, DeviceResets
<1>1. d \in DeviceEnd /\ device \in [Sports -> DeviceEnd]
  BY DEF PipeTypes
<1>2. f \in Incoming /\ rst \in Incoming /\ view \in Nat \X Int
  BY <1>1, FramesIncoming DEF Flags
<1>3. \/ device' = [device EXCEPT ![s] = eaten] /\ UNCHANGED fromDevice
      \/ device' = [device EXCEPT ![s] = sent] /\ ToHost(f)
      \/ device' = [device EXCEPT ![s] = shut] /\ ToHost(rst)
  <2>1. CASE DeviceConsumes(s)
    <3>1. device' = [device EXCEPT ![s].held = 0] /\ UNCHANGED fromDevice
      BY <2>1 DEF DeviceConsumes
    <3> QED BY <1>1, <3>1
  <2>2. CASE DeviceSends(s, n)
    <3>1. device' = [device EXCEPT ![s].sent = @ + n, ![s].told = view] /\ ToHost(f)
      BY <2>2 DEF DeviceSends
    <3> HIDE DEF view
    <3>2. device' = [device EXCEPT ![s] = sent]
      BY <1>1, <3>1
    <3> QED BY <3>1, <3>2
  <2>3. CASE DeviceResets(s)
    <3>1. device' = [device EXCEPT ![s].open = FALSE] /\ ToHost(rst)
      BY <2>3 DEF DeviceResets
    <3> QED BY <1>1, <3>1
  <2> QED BY <2>1, <2>2, <2>3
<1> HIDE DEF view, f, rst
<1>4. eaten \in DeviceEnd /\ shut \in DeviceEnd
  BY <1>1 DEF DeviceEnd
<1>5. sent \in DeviceEnd
  <2> DEFINE m == d.sent + n
  <2>1. m \in Nat
    BY <1>1 DEF DeviceEnd
  <2> HIDE DEF m
  <2>2. [d EXCEPT !.sent = m, !.told = view] \in DeviceEnd
    BY <1>1, <1>2, <2>1 DEF DeviceEnd
  <2> QED BY <2>2 DEF m
<1> HIDE DEF eaten, sent, shut
<1>6. device' \in [Sports -> DeviceEnd]
  BY <1>1, <1>3, <1>4, <1>5
<1>7. fromDevice' \in Seq(Incoming)
  BY <1>2, <1>3, Answered
<1> QED BY <1>0, <1>6, <1>7 DEF PipeTypes
-----------------------------------------------------------------------------
(* The invariant holds, and with it the theorem.                           *)

UploadInv == StateInv /\ ChannelTypes /\ PipeInv

(* The variables a step of the clients, the pumps or the device leaves alone. *)
LEMMA PipeUntouched ==
  ASSUME PipeInv, UNCHANGED <<mux, toDevice, fromDevice, device>>
  PROVE  PipeInv'
<1> QED BY DEF PipeInv, PipeTypes

LEMMA ChannelsUntouched ==
  ASSUME ChannelTypes, UNCHANGED <<dataChan, drainChan, sportOf, pump, forwarder, user>>
  PROVE  ChannelTypes'
<1> QED BY DEF ChannelTypes

LEMMA ClientStep ==
  ASSUME UploadInv, NEW c \in Conns, PumpAct(c) \/ ForwarderAct(c) \/ UserAct(c)
  PROVE  UploadInv'
<1> USE DEF UploadInv
<1>1. UNCHANGED <<mux, toDevice, fromDevice, device>>
  <2>1. CASE PumpAct(c)
    BY <2>1 DEF PumpAct, PumpChecks, PumpNotified, PumpReads, PumpSends, PumpStep, taskVars
  <2>2. CASE ForwarderAct(c)
    BY <2>2 DEF ForwarderAct, ForwarderWrites, ForwarderEnds, ForwarderStep, taskVars
  <2>3. CASE UserAct(c)
    BY <2>3 DEF UserAct, CallConnect, UserWrites, UserReads, UserShuts, UserDrops, UserStep, taskVars
  <2> QED BY <2>1, <2>2, <2>3
<1>2. PipeInv'
  BY <1>1, PipeUntouched
<1>3. CASE PumpAct(c)
  BY <1>2, <1>3, PumpKeeps, PumpsTyped
<1>4. CASE ForwarderAct(c)
  <2>1. UNCHANGED <<writerUp, nextSport, connections, cmds, calls, pump, pause, permit>>
    BY <1>4 DEF ForwarderAct, ForwarderWrites, ForwarderEnds, ForwarderStep, taskVars
  <2>2. StateInv'
    BY <2>1, Untouched DEF StateInv, ConnectionTypes
  <2> QED BY <1>2, <1>4, <2>2, ForwardersTyped
<1>5. CASE CallConnect(c)
  <2>1. ChannelTypes'
    BY <1>5, ChannelsUntouched DEF CallConnect
  <2> QED BY <1>2, <1>5, <2>1, CallKeeps
<1>6. CASE UserWrites(c) \/ UserReads(c) \/ UserShuts(c) \/ UserDrops(c)
  <2>1. UNCHANGED <<writerUp, nextSport, connections, cmds, calls, pump, pause, permit>>
    BY <1>6 DEF UserWrites, UserReads, UserShuts, UserDrops, UserStep, taskVars
  <2>2. StateInv'
    BY <2>1, Untouched DEF StateInv, ConnectionTypes
  <2> QED BY <1>2, <1>6, <2>2, UsersTyped
<1> QED BY <1>3, <1>4, <1>5, <1>6 DEF UserAct

LEMMA TaskStep ==
  ASSUME UploadInv, MuxConnect \/ DataStep \/ Drained \/ PacketStep
  PROVE  UploadInv'
<1> USE DEF UploadInv
<1>1. mux = "running" /\ UNCHANGED mux
  <2>1. CASE MuxConnect \/ Drained
    BY <2>1 DEF MuxConnect, Drained
  <2>2. CASE DataStep
    BY <2>2, ZenonT(40) DEF DataStep, DataIgnored, DataFromPump, ClientClosed, TakeData
  <2>3. CASE PacketStep
    BY <2>3 DEF PacketStep, UnknownConnection, Accepted, Refused, Undeliverable, Received, TakePacket
  <2> QED BY <2>1, <2>2, <2>3
<1>2. PipeTypes
  BY <1>1 DEF PipeInv
<1>3. PipeTypes'
  BY <1>2, ConnectPipe, DataPipe, DrainedPipe, PacketPipe
<1>4. ChannelTypes'
  <2>1. CASE MuxConnect
    BY <2>1, ChannelsUntouched DEF MuxConnect
  <2> QED BY <1>2, <2>1, TakingTyped, PacketsTyped
<1>5. StateInv'
  <2>1. CASE DataStep
    <3>1. CASE DataIgnored
      <4>1. UNCHANGED <<writerUp, nextSport, connections, cmds, calls, pump, pause, permit>>
        BY <3>1 DEF DataIgnored, TakeData
      <4> QED BY <4>1, Untouched DEF StateInv, ConnectionTypes
    <3> QED BY <2>1, <3>1, FromPumpKeeps, ClosedKeeps DEF DataStep
  <2>2. CASE PacketStep
    <3>1. CASE UnknownConnection
      <4>1. UNCHANGED <<writerUp, nextSport, connections, cmds, calls, pump, pause, permit>>
        BY <3>1 DEF UnknownConnection, TakePacket, KeepTasks
      <4> QED BY <4>1, Untouched DEF StateInv, ConnectionTypes
    <3> QED BY <1>2, <2>2, <3>1, AcceptedKeeps, TornKeeps, ReceivedKeeps DEF PacketStep
  <2> QED BY <2>1, <2>2, ConnectKeeps, DrainedKeeps
<1> QED BY <1>3, <1>4, <1>5 DEF PipeInv

LEMMA DeviceTurn ==
  ASSUME UploadInv,
         DeviceTakes \/ \E s \in Sports : \/ DeviceConsumes(s) \/ DeviceResets(s)
                                          \/ \E n \in 0..MaxPayload : DeviceSends(s, n)
  PROVE  UploadInv'
<1> USE DEF UploadInv
<1>1. UNCHANGED <<mux, writerUp, nextSport, connections, cmds, dataChan, drainChan,
                  calls, sportOf, pump, pause, permit, forwarder, user>>
  BY DEF DeviceTakes, DeviceConsumes, DeviceResets, DeviceSends, DeviceStep
<1>2. StateInv'
  BY <1>1, Untouched DEF StateInv, ConnectionTypes
<1>3. ChannelTypes'
  BY <1>1, ChannelsUntouched
<1>4. ASSUME PipeTypes PROVE PipeTypes'
  <2>1. \A n \in 0..MaxPayload : n \in Nat
    BY Sizes
  <2> QED BY <1>4, <2>1, TakesPipe, DevicePipe, Sizes
<1> QED BY <1>1, <1>2, <1>3, <1>4 DEF PipeInv

LEMMA FaultStep ==
  ASSUME UploadInv, VersionReply \/ MuxShutdown \/ ReadFails \/ WriteFails
  PROVE  UploadInv'
<1> USE DEF UploadInv
<1>1. CASE VersionReply
  <2>1. /\ UNCHANGED <<writerUp, nextSport, connections, cmds, calls, pump, pause, permit>>
        /\ UNCHANGED <<dataChan, drainChan, sportOf, forwarder, user>>
        /\ UNCHANGED <<toDevice, fromDevice, device>> /\ mux = "handshake"
    BY <1>1 DEF VersionReply
  <2>2. StateInv'
    BY <2>1, Untouched DEF StateInv, ConnectionTypes
  <2>3. PipeTypes'
    BY <2>1 DEF PipeInv, PipeTypes
  <2> QED BY <2>1, <2>2, <2>3, ChannelsUntouched DEF PipeInv
<1>2. CASE MuxShutdown \/ ReadFails
  <2>1. Exit
    BY <1>2 DEF MuxShutdown, ReadFails
  <2>2. /\ mux' = "exited" /\ dataChan' = <<>> /\ drainChan' = <<>>
        /\ UNCHANGED <<sportOf, pump, forwarder, user>>
    BY <2>1 DEF Exit
  <2>3. <<>> \in Seq((0..MaxSport) \X Nat)
    OBVIOUS
  <2>4. ChannelTypes'
    BY <2>2, <2>3 DEF ChannelTypes
  <2> QED BY <2>1, <2>2, <2>4, ExitKeeps DEF PipeInv
<1>3. CASE WriteFails
  <2>1. /\ UNCHANGED <<nextSport, connections, cmds, calls, pump, pause, permit>>
        /\ UNCHANGED <<dataChan, drainChan, sportOf, forwarder, user>>
        /\ UNCHANGED <<mux, fromDevice, device>> /\ writerUp' = FALSE
    BY <1>3 DEF WriteFails
  <2>2. PICK n \in 0..Len(toDevice) : toDevice' = SubSeq(toDevice, 1, n)
    BY <1>3 DEF WriteFails
  <2>3. StateInv'
    BY <2>1, Untouched
  <2>4. ASSUME PipeTypes PROVE PipeTypes'
    <3>1. toDevice' \in Seq(Outgoing)
      BY <2>2, <2>4 DEF PipeTypes
    <3> QED BY <2>1, <2>4, <3>1 DEF PipeTypes
  <2> QED BY <2>1, <2>3, <2>4, ChannelsUntouched DEF PipeInv
<1> QED BY <1>1, <1>2, <1>3

LEMMA UploadInvInit == Init => UploadInv
<1> SUFFICES ASSUME Init PROVE UploadInv
  OBVIOUS
<1>1. /\ DOMAIN connections = {} /\ DOMAIN cmds = {} /\ cmds \in Seq(Conns \cup {"Shutdown"})
  <2>1. DOMAIN <<>> = {} /\ <<>> \in Seq(Conns \cup {"Shutdown"})
    OBVIOUS
  <2> QED BY <2>1 DEF Init
<1>2. ConnectionTypes
  <2>1. nextSport \in Sports
    BY Sizes DEF Init, Sports
  <2> QED BY <1>1, <2>1 DEF Init, ConnectionTypes
<1>3. Tokens
  BY <1>1 DEF Init, Tokens
<1>4. Upload
  BY <1>1 DEF Init, Upload
<1>5. ChannelTypes
  <2>1. /\ dataChan \in Seq((0..MaxSport) \X Nat) /\ drainChan \in Seq((0..MaxSport) \X Nat)
    <3>1. <<>> \in Seq((0..MaxSport) \X Nat)
      OBVIOUS
    <3> QED BY <3>1 DEF Init
  <2>2. sportOf \in [Conns -> 0..MaxSport]
    BY Sizes DEF Init
  <2>3. pump \in [Conns -> PumpType]
    BY DEF Init, PumpType
  <2>4. forwarder \in [Conns -> ForwarderType]
    BY DEF Init, ForwarderType
  <2>5. user \in [Conns -> UserType]
    BY DEF Init, UserType
  <2> QED BY <2>1, <2>2, <2>3, <2>4, <2>5 DEF ChannelTypes, PumpType, ForwarderType, UserType
<1>6. PipeTypes
  <2>1. Closed \in DeviceEnd
    <3>1. 0 \in Numbers /\ 0 \in 0..RxWindow
      BY Sizes DEF Numbers
    <3> QED BY <3>1 DEF Closed, DeviceEnd
  <2>2. <<>> \in Seq(Outgoing) /\ <<>> \in Seq(Incoming)
    OBVIOUS
  <2>3. device \in [Sports -> DeviceEnd]
    BY <2>1 DEF Init
  <2> QED BY <2>2, <2>3 DEF Init, PipeTypes
<1> QED BY <1>2, <1>3, <1>4, <1>5, <1>6 DEF UploadInv, StateInv, PipeInv

(* Bytes of a client wait only for the device's window, a paused pump has  *)
(* bytes waiting, and one whose pause is over has been notified.           *)
THEOREM NoUploadStalls == Spec => []NoLostWakeup
<1>1. UploadInv /\ [Next /\ UNCHANGED load]_<<vars, load>> => UploadInv'
  <2> SUFFICES ASSUME UploadInv, Next \/ UNCHANGED vars PROVE UploadInv'
    BY DEF vars
  <2>1. CASE UNCHANGED vars
    <3>1. /\ UNCHANGED <<writerUp, nextSport, connections, cmds, calls, pump, pause, permit>>
          /\ UNCHANGED <<dataChan, drainChan, sportOf, forwarder, user>>
          /\ UNCHANGED <<mux, toDevice, fromDevice, device>>
      BY <2>1 DEF vars
    <3>2. StateInv'
      BY <3>1, Untouched DEF UploadInv, StateInv, ConnectionTypes
    <3> QED BY <3>1, <3>2, PipeUntouched, ChannelsUntouched DEF UploadInv
  <2>2. ASSUME NEW c \in Conns, PumpAct(c) \/ ForwarderAct(c) \/ UserAct(c) PROVE UploadInv'
    BY <2>2, ClientStep
  <2>3. CASE CallShutdown
    <3>1. UNCHANGED <<mux, toDevice, fromDevice, device>>
      BY <2>3 DEF CallShutdown
    <3>2. ChannelTypes'
      BY <2>3, ChannelsUntouched DEF CallShutdown, UploadInv
    <3> QED BY <2>3, <3>1, <3>2, PipeUntouched, ShutdownKeeps DEF UploadInv
  <2>4. CASE MuxConnect \/ DataStep \/ Drained \/ PacketStep
    BY <2>4, TaskStep
  <2>5. CASE VersionReply \/ MuxShutdown \/ ReadFails \/ WriteFails
    BY <2>5, FaultStep
  <2>6. ASSUME DeviceTakes \/ \E s \in Sports : \/ DeviceConsumes(s) \/ DeviceResets(s)
                                                \/ \E n \in 0..MaxPayload : DeviceSends(s, n)
        PROVE  UploadInv'
    BY <2>6, DeviceTurn
  <2> QED BY <2>1, <2>2, <2>3, <2>4, <2>5, <2>6 DEF Next
<1>2. UploadInv => NoLostWakeup
  BY NotWokenIfUpload DEF UploadInv
<1> QED BY <1>1, <1>2, UploadInvInit, PTL DEF Spec
-----------------------------------------------------------------------------
(* Bytes in frames and in channels.                                        *)

LEMMA CarriedStep ==
  ASSUME NEW S, NEW q \in Seq(S), NEW s, NEW n \in Nat, n < Len(q)
  PROVE  Carried(q, s, n + 1)
           = Carried(q, s, n) + (IF q[n + 1].sport = s THEN q[n + 1].len ELSE 0)
<1> DEFINE f == [i \in DOMAIN q |-> IF q[i].sport = s THEN q[i].len ELSE 0]
<1>1. SumTo(f, n + 1) = SumTo(f, n) + f[n + 1]
  BY SumOfMore
<1>2. n + 1 \in DOMAIN q
  OBVIOUS
<1> QED BY <1>1, <1>2 DEF Carried

LEMMA CarriedNat ==
  ASSUME NEW S, NEW q \in Seq(S), NEW s, \A x \in S : x.len \in Nat,
         NEW n \in Nat, n <= Len(q)
  PROVE  /\ Carried(q, s, n) \in Nat
         /\ \A m \in Nat : m <= n => Carried(q, s, m) <= Carried(q, s, n)
         /\ Carried(q, s, 0) = 0
<1> DEFINE f == [i \in DOMAIN q |-> IF q[i].sport = s THEN q[i].len ELSE 0]
<1>1. \A k \in 1..n : f[k] \in Nat
  OBVIOUS
<1> HIDE DEF f
<1>2. SumTo(f, n) \in Nat /\ SumTo(f, 0) = 0
  BY <1>1, SumIsNatural, SumOfNone
<1>3. \A m \in Nat : m <= n => SumTo(f, m) <= SumTo(f, n)
  BY <1>1, SumGrows
<1> QED BY <1>2, <1>3 DEF Carried, f

LEMMA CarriedSame ==
  ASSUME NEW p, NEW q, NEW s, NEW n \in Nat,
         \A i \in 1..n : i \in DOMAIN p /\ i \in DOMAIN q /\ p[i] = q[i]
  PROVE  Carried(p, s, n) = Carried(q, s, n)
<1> DEFINE f == [i \in DOMAIN p |-> IF p[i].sport = s THEN p[i].len ELSE 0]
           g == [i \in DOMAIN q |-> IF q[i].sport = s THEN q[i].len ELSE 0]
<1>1. \A k \in 1..n : f[k] = g[k]
  OBVIOUS
<1>2. SumTo(f, n) = SumTo(g, n)
  BY <1>1, SumOfSame
<1> QED BY <1>2 DEF Carried

LEMMA CarriedMore ==
  ASSUME NEW S, NEW p \in Seq(S), NEW q \in Seq(S), NEW s, \A x \in S : x.len \in Nat
  PROVE  /\ \A n \in Nat : n <= Len(p) => Carried(p \o q, s, n) = Carried(p, s, n)
         /\ \A k \in Nat : k <= Len(q) =>
              Carried(p \o q, s, Len(p) + k) = Carried(p, s, Len(p)) + Carried(q, s, k)
<1>1. ASSUME NEW n \in Nat, n <= Len(p) PROVE Carried(p \o q, s, n) = Carried(p, s, n)
  <2>1. \A i \in 1..n : i \in DOMAIN p /\ i \in DOMAIN (p \o q) /\ p[i] = (p \o q)[i]
    BY <1>1
  <2> QED BY <2>1, CarriedSame
<1>2. ASSUME NEW k \in Nat, k <= Len(q)
      PROVE  Carried(p \o q, s, Len(p) + k) = Carried(p, s, Len(p)) + Carried(q, s, k)
  <2> DEFINE f == [i \in DOMAIN (p \o q) |-> IF (p \o q)[i].sport = s THEN (p \o q)[i].len ELSE 0]
             g == [i \in DOMAIN q |-> IF q[i].sport = s THEN q[i].len ELSE 0]
  <2>0. p \o q \in Seq(S) /\ Len(p \o q) = Len(p) + Len(q)
    OBVIOUS
  <2>1. \A i \in 1..(Len(p) + k) : f[i] \in Nat
    <3> TAKE i \in 1..(Len(p) + k)
    <3>1. i \in DOMAIN (p \o q) /\ (p \o q)[i] \in S
      BY <1>2, <2>0
    <3> QED BY <3>1
  <2>2. \A i \in 1..k : g[i] = f[Len(p) + i]
    <3> TAKE i \in 1..k
    <3>1. i \in DOMAIN q /\ Len(p) + i \in DOMAIN (p \o q) /\ (p \o q)[Len(p) + i] = q[i]
      BY <1>2, <2>0
    <3> QED BY <3>1
  <2>3. SumTo(f, Len(p) + k) = SumTo(f, Len(p)) + SumTo(g, k)
    <3> HIDE DEF f, g
    <3> QED BY <2>1, <2>2, SumOfParts
  <2>4. Carried(p \o q, s, Len(p)) = Carried(p, s, Len(p))
    BY <1>1
  <2> QED BY <2>3, <2>4 DEF Carried
<1> QED BY <1>1, <1>2

LEMMA CarriedNone ==
  ASSUME NEW S, NEW q \in Seq(S), NEW s, NEW n \in Nat, n <= Len(q),
         \A i \in 1..n : q[i].sport = s => q[i].len = 0
  PROVE  Carried(q, s, n) = 0
<1> DEFINE f == [i \in DOMAIN q |-> IF q[i].sport = s THEN q[i].len ELSE 0]
<1>1. \A k \in 1..n : f[k] = 0
  OBVIOUS
<1>2. SumTo(f, n) = 0
  BY <1>1, SumOfZeroes
<1> QED BY <1>2 DEF Carried

LEMMA CarriedOne ==
  ASSUME NEW x, NEW s, x.len \in Nat
  PROVE  Carried(<<x>>, s, 1) = IF x.sport = s THEN x.len ELSE 0
<1> DEFINE q == <<x>>
<1>1. q \in Seq({x}) /\ Len(q) = 1 /\ q[1] = x /\ 0 \in Nat /\ 0 < Len(q)
  OBVIOUS
<1>2. \A y \in {x} : y.len \in Nat
  OBVIOUS
<1> HIDE DEF q
<1>3. Carried(q, s, 0 + 1) = Carried(q, s, 0) + (IF q[0 + 1].sport = s THEN q[0 + 1].len ELSE 0)
  BY <1>1, CarriedStep
<1>4. Carried(q, s, 0) = 0
  <2>1. 0 <= Len(q)
    BY <1>1
  <2> QED BY <1>1, <1>2, <2>1, CarriedNat
<1>5. Carried(q, s, 1) = IF x.sport = s THEN x.len ELSE 0
  BY <1>1, <1>3, <1>4
<1> QED BY <1>5 DEF q

LEMMA CarriedTaken ==
  ASSUME NEW S, NEW q \in Seq(S), q # <<>>, NEW s, \A x \in S : x.len \in Nat,
         NEW n \in Nat, n < Len(q)
  PROVE  Carried(q, s, n + 1)
           = (IF Head(q).sport = s THEN Head(q).len ELSE 0) + Carried(Tail(q), s, n)
<1> DEFINE h == <<Head(q)>>
           t == Tail(q)
<1>1. h \in Seq(S) /\ t \in Seq(S) /\ h \o t = q /\ Len(h) = 1 /\ n <= Len(t) /\ Head(q) \in S
  OBVIOUS
<1>2. Carried(h, s, 1) = IF Head(q).sport = s THEN Head(q).len ELSE 0
  BY <1>1, CarriedOne
<1> HIDE DEF h, t
<1>3. \A k \in Nat : k <= Len(t) => Carried(h \o t, s, Len(h) + k) = Carried(h, s, Len(h)) + Carried(t, s, k)
  <2>1. h \in Seq(S) /\ t \in Seq(S)
    BY <1>1
  <2> QED BY <2>1, CarriedMore
<1>4. Carried(q, s, n + 1) = Carried(h, s, 1) + Carried(t, s, n)
  <2>1. 1 + n = n + 1
    OBVIOUS
  <2>2. Carried(h \o t, s, Len(h) + n) = Carried(h, s, Len(h)) + Carried(t, s, n)
    BY <1>1, <1>3
  <2> QED BY <1>1, <2>1, <2>2
<1> QED BY <1>2, <1>4 DEF t
-----------------------------------------------------------------------------
BytesFor(chan, s) == [i \in DOMAIN chan |-> IF chan[i][1] = s THEN chan[i][2] ELSE 0]

LEMMA InChanIs ==
  ASSUME NEW chan \in Seq((0..MaxSport) \X Nat), NEW s
  PROVE  /\ InChan(chan, s) = SumTo(BytesFor(chan, s), Len(chan)) /\ Len(chan) \in Nat
         /\ \A i \in 1..Len(chan) : /\ BytesFor(chan, s)[i] \in Nat
                                    /\ BytesFor(chan, s)[i] = IF chan[i][1] = s THEN chan[i][2] ELSE 0
<1> DEFINE f == BytesFor(chan, s)
<1>1. /\ DOMAIN f = 1..Len(chan) /\ Len(chan) \in Nat
      /\ \A i \in 1..Len(chan) : f[i] \in Nat /\ f[i] = IF chan[i][1] = s THEN chan[i][2] ELSE 0
  BY DEF BytesFor
<1>2. f \in Seq(Nat) /\ Len(f) = Len(chan)
  <2>1. f = [i \in 1..Len(chan) |-> f[i]]
    BY <1>1 DEF BytesFor
  <2> HIDE DEF f
  <2> DEFINE n == Len(chan)
  <2>2. f \in [1..n -> Nat] /\ n \in Nat
    BY <1>1, <2>1
  <2> HIDE DEF n
  <2>3. f \in Seq(Nat) /\ Len(f) = n
    BY <2>2
  <2> QED BY <2>3 DEF n
<1> QED BY <1>1, <1>2 DEF InChan, Total, BytesFor

LEMMA InChanNat ==
  ASSUME NEW chan \in Seq((0..MaxSport) \X Nat), NEW s
  PROVE  /\ InChan(chan, s) \in Nat
         /\ (\A i \in DOMAIN chan : chan[i][1] # s) => InChan(chan, s) = 0
<1> DEFINE n == Len(chan)
           f == BytesFor(chan, s)
<1>1. /\ InChan(chan, s) = SumTo(f, n) /\ n \in Nat
      /\ \A i \in 1..n : f[i] \in Nat /\ f[i] = IF chan[i][1] = s THEN chan[i][2] ELSE 0
  BY InChanIs
<1>2. DOMAIN chan = 1..n
  OBVIOUS
<1> HIDE DEF f, n
<1>3. SumTo(f, n) \in Nat
  BY <1>1, SumIsNatural
<1>4. ASSUME \A i \in DOMAIN chan : chan[i][1] # s PROVE SumTo(f, n) = 0
  <2>1. \A i \in 1..n : f[i] = 0
    BY <1>1, <1>2, <1>4
  <2> QED BY <1>1, <2>1, SumOfZeroes
<1> QED BY <1>1, <1>3, <1>4

LEMMA InChansAre ==
  \A s : \A chan \in Seq((0..MaxSport) \X Nat) :
    /\ InChan(chan, s) = SumTo(BytesFor(chan, s), Len(chan))
    /\ \A i \in 1..Len(chan) : /\ BytesFor(chan, s)[i] \in Nat
                               /\ BytesFor(chan, s)[i] = IF chan[i][1] = s THEN chan[i][2] ELSE 0
<1> QED BY InChanIs

LEMMA InChanPut ==
  ASSUME NEW chan \in Seq((0..MaxSport) \X Nat), NEW s, NEW x \in 0..MaxSport, NEW n \in Nat
  PROVE  InChan(Append(chan, <<x, n>>), s) = InChan(chan, s) + (IF x = s THEN n ELSE 0)
<1> DEFINE more == Append(chan, <<x, n>>)
           k == Len(chan)
           f == BytesFor(chan, s)
           g == BytesFor(more, s)
<1>1. /\ more \in Seq((0..MaxSport) \X Nat) /\ Len(more) = k + 1 /\ k \in Nat
      /\ \A i \in 1..k : more[i] = chan[i]
      /\ more[k + 1] = <<x, n>>
  OBVIOUS
<1> HIDE DEF more
<1>2. /\ InChan(chan, s) = SumTo(f, k)
      /\ \A i \in 1..k : f[i] = IF chan[i][1] = s THEN chan[i][2] ELSE 0
  BY InChanIs
<1>0. more \in Seq((0..MaxSport) \X Nat)
  BY <1>1
<1>9. /\ InChan(more, s) = SumTo(g, Len(more))
      /\ \A i \in 1..Len(more) : g[i] = IF more[i][1] = s THEN more[i][2] ELSE 0
  <2>1. /\ InChan(more, s) = SumTo(BytesFor(more, s), Len(more))
        /\ \A i \in 1..Len(more) : /\ BytesFor(more, s)[i] \in Nat
                                   /\ BytesFor(more, s)[i] = IF more[i][1] = s THEN more[i][2] ELSE 0
    BY <1>0, InChansAre, Zenon
  <2> QED BY <2>1
<1> HIDE DEF f, g, k
<1>3. /\ InChan(more, s) = SumTo(g, k + 1)
      /\ \A i \in 1..(k + 1) : g[i] = IF more[i][1] = s THEN more[i][2] ELSE 0
  BY <1>1, <1>9
<1>4. g[k + 1] = (IF x = s THEN n ELSE 0) /\ \A i \in 1..k : g[i] = f[i]
  <2>1. k \in Nat /\ k + 1 \in 1..(k + 1) /\ \A i \in 1..k : i \in 1..(k + 1)
    BY <1>1 DEF k
  <2>2. \A i \in 1..k : more[i] = chan[i]
    BY <1>1 DEF k
  <2>3. more[k + 1] = <<x, n>>
    BY <1>1 DEF k
  <2>4. g[k + 1] = IF x = s THEN n ELSE 0
    BY <1>3, <2>1, <2>3
  <2> QED BY <1>2, <1>3, <2>1, <2>2, <2>4
<1>5. SumTo(g, k + 1) = SumTo(g, k) + g[k + 1]
  BY <1>1, SumOfMore
<1>6. SumTo(g, k) = SumTo(f, k)
  BY <1>1, <1>4, SumOfSame
<1>7. InChan(more, s) = InChan(chan, s) + (IF x = s THEN n ELSE 0)
  BY <1>2, <1>3, <1>4, <1>5, <1>6
<1> QED BY <1>7 DEF more

LEMMA SumOfFirst ==
  ASSUME NEW f, NEW g, NEW k \in Nat, \A i \in 1..(1 + k) : f[i] \in Nat,
         \A i \in 1..k : g[i] = f[1 + i]
  PROVE  SumTo(f, 1 + k) = f[1] + SumTo(g, k)
<1> DEFINE m == 1
<1>1. m \in Nat
  OBVIOUS
<1>2. \A i \in 1..(m + k) : f[i] \in Nat
  OBVIOUS
<1>3. \A i \in 1..k : g[i] = f[m + i]
  OBVIOUS
<1> HIDE DEF m
<1>4. SumTo(f, m + k) = SumTo(f, m) + SumTo(g, k)
  BY <1>1, <1>2, <1>3, SumOfParts, SMTT(30)
<1>5. SumTo(f, 0 + 1) = SumTo(f, 0) + f[0 + 1] /\ SumTo(f, 0) = 0 /\ f[1] \in Nat
  <2>1. 0 \in Nat /\ 1 \in 1..(1 + k)
    OBVIOUS
  <2>2. f[1] \in Nat
    BY <2>1
  <2>3. SumTo(f, 0 + 1) = SumTo(f, 0) + f[0 + 1]
    BY <2>1, SumOfMore
  <2> QED BY <2>2, <2>3, SumOfNone
<1>6. SumTo(f, 1) = f[1]
  BY <1>5
<1> QED BY <1>4, <1>6 DEF m

LEMMA InChanTaken ==
  ASSUME NEW chan \in Seq((0..MaxSport) \X Nat), chan # <<>>, NEW s
  PROVE  InChan(chan, s) = (IF Head(chan)[1] = s THEN Head(chan)[2] ELSE 0) + InChan(Tail(chan), s)
<1> DEFINE rest == Tail(chan)
           k == Len(rest)
           f == BytesFor(chan, s)
           g == BytesFor(rest, s)
<1>1. /\ rest \in Seq((0..MaxSport) \X Nat) /\ Len(chan) = 1 + k /\ k \in Nat
      /\ \A i \in 1..k : rest[i] = chan[1 + i]
      /\ chan[1] = Head(chan)
  OBVIOUS
<1> HIDE DEF rest
<1>2. /\ InChan(chan, s) = SumTo(f, 1 + k)
      /\ \A i \in 1..(1 + k) : f[i] \in Nat /\ f[i] = IF chan[i][1] = s THEN chan[i][2] ELSE 0
  BY <1>1, InChanIs
<1>3. /\ InChan(rest, s) = SumTo(g, k)
      /\ \A i \in 1..k : g[i] = IF rest[i][1] = s THEN rest[i][2] ELSE 0
  <2>1. rest \in Seq((0..MaxSport) \X Nat)
    BY <1>1
  <2>2. /\ InChan(rest, s) = SumTo(BytesFor(rest, s), Len(rest))
        /\ \A i \in 1..Len(rest) : /\ BytesFor(rest, s)[i] \in Nat
                                   /\ BytesFor(rest, s)[i] = IF rest[i][1] = s THEN rest[i][2] ELSE 0
    BY <2>1, InChansAre, Zenon
  <2> QED BY <2>2
<1> HIDE DEF f, g, k
<1>4. \A i \in 1..k : g[i] = f[1 + i]
  <2>1. \A i \in 1..k : 1 + i \in 1..(1 + k)
    BY <1>1
  <2> QED BY <1>1, <1>2, <1>3, <2>1
<1>5. f[1] = IF Head(chan)[1] = s THEN Head(chan)[2] ELSE 0
  BY <1>1, <1>2
<1>6. SumTo(f, 1 + k) = f[1] + SumTo(g, k)
  <2>1. \A i \in 1..(1 + k) : f[i] \in Nat
    BY <1>2
  <2>2. k \in Nat
    BY <1>1
  <2> QED BY <1>4, <2>1, <2>2, SumOfFirst
<1>7. InChan(chan, s) = (IF Head(chan)[1] = s THEN Head(chan)[2] ELSE 0) + InChan(rest, s)
  BY <1>2, <1>3, <1>5, <1>6
<1> QED BY <1>7 DEF rest

LEMMA InChanBounded ==
  ASSUME NEW chan \in Seq((0..MaxSport) \X Nat), NEW s, NEW b \in Nat,
         \A i \in DOMAIN chan : chan[i][2] <= b
  PROVE  InChan(chan, s) <= Len(chan) * b
<1> DEFINE n == Len(chan)
           f == BytesFor(chan, s)
<1>1. /\ InChan(chan, s) = SumTo(f, n) /\ n \in Nat
      /\ \A i \in 1..n : f[i] \in Nat /\ f[i] = IF chan[i][1] = s THEN chan[i][2] ELSE 0
  BY InChanIs
<1>2. DOMAIN chan = 1..n
  OBVIOUS
<1> HIDE DEF f, n
<1>3. \A i \in 1..n : f[i] \in 0..b
  <2> TAKE i \in 1..n
  <2>1. f[i] \in Nat /\ chan[i][2] <= b
    BY <1>1, <1>2
  <2>2. f[i] = chan[i][2] \/ f[i] = 0
    BY <1>1
  <2> QED BY <2>1, <2>2
<1>4. SumTo(f, n) <= n * b
  BY <1>1, <1>3, SumIsBounded
<1> QED BY <1>1, <1>4 DEF n

LEMMA TotalFacts ==
  ASSUME NEW q \in Seq(Nat)
  PROVE  /\ Total(q) \in Nat
         /\ \A n \in Nat : Total(Append(q, n)) = Total(q) + n
         /\ q # <<>> => Total(q) = Head(q) + Total(Tail(q))
<1> DEFINE k == Len(q)
<1>0. k \in Nat /\ (\A i \in 1..k : q[i] \in Nat)
  OBVIOUS
<1>1. Total(q) \in Nat
  <2> HIDE DEF k
  <2>1. SumTo(q, k) \in Nat
    BY <1>0, SumIsNatural
  <2> QED BY <2>1 DEF Total, k
<1>2. ASSUME NEW n \in Nat PROVE Total(Append(q, n)) = Total(q) + n
  <2> DEFINE g == Append(q, n)
  <2>1. Len(g) = k + 1 /\ g[k + 1] = n /\ \A i \in 1..k : g[i] = q[i]
    OBVIOUS
  <2>2. Total(g) = SumTo(g, k + 1) /\ Total(q) = SumTo(q, k)
    BY <2>1 DEF Total
  <2> HIDE DEF g, k
  <2>3. SumTo(g, k + 1) = SumTo(g, k) + g[k + 1]
    BY <1>0, SumOfMore
  <2>4. SumTo(g, k) = SumTo(q, k)
    BY <1>0, <2>1, SumOfSame
  <2>5. Total(g) = Total(q) + n
    BY <2>1, <2>2, <2>3, <2>4
  <2> QED BY <2>5 DEF g
<1>3. ASSUME q # <<>> PROVE Total(q) = Head(q) + Total(Tail(q))
  <2> DEFINE g == Tail(q)
             m == Len(g)
  <2>1. /\ m \in Nat /\ Len(q) = 1 + m /\ \A i \in 1..m : g[i] = q[1 + i]
        /\ \A i \in 1..(1 + m) : q[i] \in Nat
        /\ q[1] = Head(q) /\ Head(q) \in Nat
    BY <1>3
  <2>2. Total(q) = SumTo(q, 1 + m) /\ Total(g) = SumTo(g, m)
    BY <2>1 DEF Total
  <2> HIDE DEF g, m, k
  <2>3. \A i \in 1..m : g[i] = q[1 + i]
    BY <2>1
  <2>4. SumTo(q, 1 + m) = q[1] + SumTo(g, m)
    BY <2>1, <2>3, SumOfFirst
  <2>6. Total(q) = Head(q) + Total(g)
    BY <2>1, <2>2, <2>4
  <2> QED BY <2>6 DEF g
<1> QED BY <1>1, <1>2, <1>3
-----------------------------------------------------------------------------
(* Numbers modulo SeqSpace.                                                *)

LEMMA ModOf ==
  ASSUME NEW N \in Nat \ {0}, NEW q \in Nat, NEW r \in 0..(N - 1)
  PROVE  (N * q + r) % N = r
<1> QED OBVIOUS

LEMMA Divided ==
  ASSUME NEW N \in Nat \ {0}, NEW y \in Nat
  PROVE  y = N * (y \div N) + (y % N) /\ y % N \in 0..(N - 1) /\ y \div N \in Nat
<1> QED OBVIOUS

LEMMA ModAdded ==
  ASSUME NEW y \in Nat, NEW n \in Nat
  PROVE  ((y % SeqSpace) + n) % SeqSpace = (y + n) % SeqSpace
<1> DEFINE N == SeqSpace
           q == y \div N
           r == y % N
           p == (r + n) \div N
           t == (r + n) % N
<1>0. N \in Nat \ {0}
  BY Sizes
<1>1. y = N * q + r /\ r \in 0..(N - 1) /\ q \in Nat
  BY <1>0, Divided
<1>2. r + n \in Nat
  BY <1>0, <1>1
<1>3. r + n = N * p + t /\ t \in 0..(N - 1) /\ p \in Nat
  BY <1>0, <1>2, Divided
<1> HIDE DEF N, q, r, p, t
<1>4. q + p \in Nat /\ y + n = N * (q + p) + t
  <2>1. N * (q + p) = N * q + N * p /\ N * q \in Nat /\ N * p \in Nat
    BY <1>0, <1>1, <1>3
  <2> QED BY <1>1, <1>3, <2>1
<1>5. (N * (q + p) + t) % N = t
  BY <1>0, <1>3, <1>4, ModOf
<1>6. (y + n) % N = t
  BY <1>4, <1>5
<1> QED BY <1>6 DEF t, r, N

(* How far x is behind seq. *)
Lag(seq, x) == (seq - x) % SeqSpace

LEMMA LagRange ==
  ASSUME NEW seq \in Numbers, NEW x \in Numbers
  PROVE  Lag(seq, x) \in Numbers /\ Lag(seq, seq) = 0
<1> QED BY InflightIs, Sizes DEF Lag, Numbers

LEMMA LagShift ==
  ASSUME NEW seq \in Numbers, NEW x \in Numbers, NEW n \in Nat, Lag(seq, x) + n < SeqSpace
  PROVE  /\ Lag((seq + n) % SeqSpace, x) = Lag(seq, x) + n
         /\ (seq + n) % SeqSpace \in Numbers
<1> DEFINE y == (seq + n) % SeqSpace
<1>1. Lag(seq, x) = IF x <= seq THEN seq - x ELSE seq - x + SeqSpace
  BY InflightIs DEF Lag
<1>2. y = IF seq + n < SeqSpace THEN seq + n ELSE seq + n - SeqSpace
  <2>1. seq + n < 2 * SeqSpace
    BY <1>1, Sizes DEF Numbers
  <2> QED BY <2>1, ModWrap
<1>3. y \in Numbers
  BY <1>1, <1>2, Sizes DEF Numbers
<1> HIDE DEF y
<1>4. Lag(y, x) = IF x <= y THEN y - x ELSE y - x + SeqSpace
  BY <1>3, InflightIs DEF Lag
<1>5. Lag(y, x) = Lag(seq, x) + n
  BY <1>1, <1>2, <1>3, <1>4, Sizes DEF Numbers
<1> QED BY <1>3, <1>5 DEF y

LEMMA LagBehind ==
  ASSUME NEW y \in Nat, NEW o \in Nat, o < SeqSpace
  PROVE  Lag((y + o) % SeqSpace, y % SeqSpace) = o
<1> DEFINE a == y % SeqSpace
<1>1. a \in Numbers
  BY ModRange
<1>2. (a + o) % SeqSpace = (y + o) % SeqSpace
  BY ModAdded
<1> HIDE DEF a
<1>3. Lag(a, a) = 0
  BY <1>1, LagRange
<1>4. Lag((a + o) % SeqSpace, a) = Lag(a, a) + o
  BY <1>1, <1>3, LagShift
<1> QED BY <1>2, <1>3, <1>4 DEF a
-----------------------------------------------------------------------------
(* What a connection may send: o bytes of it are on the pipe and the device *)
(* holds h; the device takes it from ack on for win bytes, and so it does   *)
(* for every packet that is still to come.                                  *)

Admits(seq, ack, win, o, h) ==
  o <= Lag(seq, ack) /\ o + h + win - Lag(seq, ack) <= DeviceWindow

Heeds(seq, ack, win, G, s, o, h) ==
  /\ Admits(seq, ack, win, o, h)
  /\ \A i \in DOMAIN G : G[i].sport = s =>
       Admits(seq, G[i].ack, G[i].win, o, h) /\ Lag(seq, G[i].ack) <= Lag(seq, ack)
  /\ \A i, j \in DOMAIN G : i < j /\ G[i].sport = s /\ G[j].sport = s =>
       Lag(seq, G[j].ack) <= Lag(seq, G[i].ack)

LEMMA AdmitsSend ==
  ASSUME NEW seq \in Numbers, NEW x \in Numbers, NEW w \in Int, NEW o \in Nat, NEW h \in Nat,
         Admits(seq, x, w, o, h), NEW n \in Nat, Lag(seq, x) + n < SeqSpace
  PROVE  Admits((seq + n) % SeqSpace, x, w, o + n, h)
<1>1. Lag((seq + n) % SeqSpace, x) = Lag(seq, x) + n
  BY LagShift
<1>2. Lag(seq, x) \in Int
  BY LagRange DEF Numbers
<1> DEFINE k == Lag((seq + n) % SeqSpace, x)
<1> HIDE DEF k
<1>3. k = Lag(seq, x) + n
  BY <1>1 DEF k
<1>4. o + n <= k /\ o + n + h + w - k <= DeviceWindow
  BY <1>2, <1>3, Sizes DEF Admits
<1> QED BY <1>4 DEF Admits, k

LEMMA HeedsSend ==
  ASSUME NEW seq \in Numbers, NEW ack \in Numbers, NEW win \in Int, win <= DeviceWindow,
         NEW G \in Seq(Incoming), NEW s, NEW o \in Nat, NEW h \in Nat,
         Heeds(seq, ack, win, G, s, o, h),
         NEW n \in Nat, n = 0 \/ n <= win - Lag(seq, ack)
  PROVE  /\ Heeds((seq + n) % SeqSpace, ack, win, G, s, o + n, h)
         /\ n > 0 => o + n + h <= DeviceWindow
<1>1. Lag(seq, ack) \in Numbers
  BY LagRange
<1>2. Lag(seq, ack) + n < SeqSpace
  BY <1>1, Sizes DEF Numbers
<1>3. ASSUME NEW i \in DOMAIN G
      PROVE  G[i].ack \in Numbers /\ Lag(seq, G[i].ack) \in Numbers /\ G[i].win \in Int
  <2>1. G[i] \in Incoming
    OBVIOUS
  <2>2. G[i].ack \in Numbers /\ G[i].win \in Int
    BY <2>1 DEF Incoming
  <2> QED BY <2>2, LagRange
<1>4. ASSUME NEW i \in DOMAIN G, G[i].sport = s
      PROVE  Lag(seq, G[i].ack) <= Lag(seq, ack) /\ Lag(seq, G[i].ack) + n < SeqSpace
  <2>1. Lag(seq, G[i].ack) <= Lag(seq, ack)
    BY <1>4 DEF Heeds
  <2>2. Lag(seq, G[i].ack) \in Numbers
    BY <1>3
  <2> DEFINE a == Lag(seq, G[i].ack)
             b == Lag(seq, ack)
  <2>3. a <= b /\ a \in Numbers /\ b \in Numbers /\ b + n < SeqSpace
    BY <1>1, <1>2, <2>1, <2>2
  <2> HIDE DEF a, b
  <2>4. a <= b /\ a + n < SeqSpace
    BY <2>3, Sizes DEF Numbers
  <2> QED BY <2>4 DEF a, b
<1> DEFINE z == (seq + n) % SeqSpace
<1>5. ASSUME NEW i \in DOMAIN G, G[i].sport = s
      PROVE  /\ Lag(z, G[i].ack) = Lag(seq, G[i].ack) + n
             /\ Admits(z, G[i].ack, G[i].win, o + n, h)
  <2>1. Admits(seq, G[i].ack, G[i].win, o, h)
    BY <1>5 DEF Heeds
  <2> QED BY <1>3, <1>4, <1>5, <2>1, LagShift, AdmitsSend
<1>6. Lag(z, ack) = Lag(seq, ack) + n /\ Admits(z, ack, win, o + n, h)
  <2>1. Admits(seq, ack, win, o, h)
    BY DEF Heeds
  <2> QED BY <1>2, <2>1, LagShift, AdmitsSend
<1>7. n > 0 => o + n + h <= DeviceWindow
  <2>1. o + h + win - Lag(seq, ack) <= DeviceWindow
    BY DEF Heeds, Admits
  <2> QED BY <1>1, <2>1, Sizes DEF Numbers
<1> HIDE DEF z
<1>8. \A i \in DOMAIN G : G[i].sport = s => Lag(z, G[i].ack) <= Lag(z, ack)
  BY <1>1, <1>3, <1>4, <1>5, <1>6 DEF Numbers
<1>9. \A i, j \in DOMAIN G : i < j /\ G[i].sport = s /\ G[j].sport = s =>
        Lag(z, G[j].ack) <= Lag(z, G[i].ack)
  <2> SUFFICES ASSUME NEW i \in DOMAIN G, NEW j \in DOMAIN G, i < j, G[i].sport = s, G[j].sport = s
               PROVE  Lag(z, G[j].ack) <= Lag(z, G[i].ack)
    OBVIOUS
  <2>1. Lag(seq, G[j].ack) <= Lag(seq, G[i].ack)
    BY DEF Heeds
  <2>2. Lag(seq, G[j].ack) \in Int /\ Lag(seq, G[i].ack) \in Int
    BY <1>3 DEF Numbers
  <2> QED BY <1>5, <2>1, <2>2
<1>10. Heeds(z, ack, win, G, s, o + n, h)
  BY <1>5, <1>6, <1>8, <1>9 DEF Heeds
<1> QED BY <1>7, <1>10 DEF z

LEMMA HeedsLess ==
  ASSUME NEW seq \in Numbers, NEW ack \in Numbers, NEW win \in Int,
         NEW G \in Seq(Incoming), NEW s, NEW o \in Nat, NEW h \in Nat, NEW o2 \in Nat, NEW h2 \in Nat,
         Heeds(seq, ack, win, G, s, o, h), o2 <= o, o2 + h2 <= o + h
  PROVE  Heeds(seq, ack, win, G, s, o2, h2)
<1>1. \A x \in Numbers, w \in Int : Admits(seq, x, w, o, h) => Admits(seq, x, w, o2, h2)
  <2> TAKE x \in Numbers, w \in Int
  <2>1. Lag(seq, x) \in Int
    BY LagRange DEF Numbers
  <2> QED BY <2>1, Sizes DEF Admits
<1>2. \A i \in DOMAIN G : G[i].ack \in Numbers /\ G[i].win \in Int
  <2> TAKE i \in DOMAIN G
  <2>1. G[i] \in Incoming
    OBVIOUS
  <2> QED BY <2>1 DEF Incoming
<1>3. Admits(seq, ack, win, o2, h2)
  BY <1>1 DEF Heeds
<1>4. \A i \in DOMAIN G : G[i].sport = s =>
       Admits(seq, G[i].ack, G[i].win, o2, h2) /\ Lag(seq, G[i].ack) <= Lag(seq, ack)
  BY <1>1, <1>2 DEF Heeds
<1>5. \A i, j \in DOMAIN G : i < j /\ G[i].sport = s /\ G[j].sport = s =>
       Lag(seq, G[j].ack) <= Lag(seq, G[i].ack)
  BY DEF Heeds
<1> QED BY <1>3, <1>4, <1>5 DEF Heeds

(* The packets of s in G2 are among those of G, in their order. *)
Among(G2, G, s) ==
  \E k \in Nat : \A j \in DOMAIN G2 : G2[j].sport = s => j + k \in DOMAIN G /\ G2[j] = G[j + k]

LEMMA HeedsFewer ==
  ASSUME NEW seq, NEW ack, NEW win, NEW G, NEW s, NEW o, NEW h, NEW G2 \in Seq(Incoming),
         Heeds(seq, ack, win, G, s, o, h), Among(G2, G, s)
  PROVE  Heeds(seq, ack, win, G2, s, o, h)
<1>1. PICK k \in Nat : \A j \in DOMAIN G2 : G2[j].sport = s => j + k \in DOMAIN G /\ G2[j] = G[j + k]
  BY DEF Among
<1>2. \A i \in DOMAIN G2 : G2[i].sport = s =>
        Admits(seq, G2[i].ack, G2[i].win, o, h) /\ Lag(seq, G2[i].ack) <= Lag(seq, ack)
  BY <1>1 DEF Heeds
<1>3. \A i, j \in DOMAIN G2 : i < j /\ G2[i].sport = s /\ G2[j].sport = s =>
        Lag(seq, G2[j].ack) <= Lag(seq, G2[i].ack)
  <2> SUFFICES ASSUME NEW i \in DOMAIN G2, NEW j \in DOMAIN G2, i < j,
                      G2[i].sport = s, G2[j].sport = s
               PROVE  Lag(seq, G2[j].ack) <= Lag(seq, G2[i].ack)
    OBVIOUS
  <2>1. i + k \in DOMAIN G /\ j + k \in DOMAIN G /\ i + k < j + k
    BY <1>1
  <2>2. G2[i] = G[i + k] /\ G2[j] = G[j + k]
    BY <1>1
  <2> QED BY <2>1, <2>2 DEF Heeds
<1>4. Admits(seq, ack, win, o, h)
  BY DEF Heeds
<1> QED BY <1>2, <1>3, <1>4 DEF Heeds

(* The first packet is heard. *)
LEMMA HeedsHeard ==
  ASSUME NEW seq, NEW ack, NEW win, NEW s, NEW o, NEW h, NEW G \in Seq(Incoming), G # <<>>,
         Heeds(seq, ack, win, G, s, o, h), Head(G).sport = s
  PROVE  Heeds(seq, Head(G).ack, Head(G).win, Tail(G), s, o, h)
<1>1. /\ Head(G) = G[1] /\ 1 \in DOMAIN G /\ Tail(G) \in Seq(Incoming)
      /\ \A j \in DOMAIN Tail(G) : j + 1 \in DOMAIN G /\ Tail(G)[j] = G[j + 1] /\ 1 < j + 1
  OBVIOUS
<1> DEFINE T == Tail(G)
<1>2. Among(T, G, s)
  BY <1>1 DEF Among
<1>3. Heeds(seq, ack, win, T, s, o, h)
  <2>1. T \in Seq(Incoming)
    BY <1>1
  <2> HIDE DEF T
  <2> QED BY <1>2, <2>1, HeedsFewer
<1>4. Admits(seq, Head(G).ack, Head(G).win, o, h)
  BY <1>1 DEF Heeds
<1>5. \A i \in DOMAIN T : T[i].sport = s => Lag(seq, T[i].ack) <= Lag(seq, Head(G).ack)
  BY <1>1 DEF Heeds
<1> HIDE DEF T
<1>6. Heeds(seq, Head(G).ack, Head(G).win, T, s, o, h)
  BY <1>3, <1>4, <1>5 DEF Heeds
<1> QED BY <1>6 DEF T

(* The device sends what it took and has room for. *)
LEMMA HeedsTold ==
  ASSUME NEW seq \in Numbers, NEW ack \in Numbers, NEW win, NEW s, NEW o \in Nat, NEW h \in Nat,
         NEW G \in Seq(Incoming), Heeds(seq, ack, win, G, s, o, h), NEW g \in Incoming,
         g.sport = s => Lag(seq, g.ack) = o /\ g.win = DeviceWindow - h
  PROVE  Heeds(seq, ack, win, Append(G, g), s, o, h)
<1> DEFINE H == Append(G, g)
           m == Len(G) + 1
<1>1. /\ DOMAIN H = DOMAIN G \cup {m} /\ H[m] = g /\ m \in Nat
      /\ \A i \in DOMAIN G : H[i] = G[i] /\ i < m
  OBVIOUS
<1> HIDE DEF H, m
<1>2. ASSUME g.sport = s PROVE Admits(seq, g.ack, g.win, o, h)
  BY <1>2, Sizes DEF Admits
<1>3. o <= Lag(seq, ack) /\ \A i \in DOMAIN G : G[i].sport = s => o <= Lag(seq, G[i].ack)
  BY DEF Heeds, Admits
<1>4. \A i \in DOMAIN H : H[i].sport = s =>
        Admits(seq, H[i].ack, H[i].win, o, h) /\ Lag(seq, H[i].ack) <= Lag(seq, ack)
  <2> SUFFICES ASSUME NEW i \in DOMAIN H, H[i].sport = s
               PROVE  Admits(seq, H[i].ack, H[i].win, o, h) /\ Lag(seq, H[i].ack) <= Lag(seq, ack)
    OBVIOUS
  <2>1. CASE i = m
    BY <1>1, <1>2, <1>3, <2>1
  <2>2. CASE i \in DOMAIN G
    BY <1>1, <2>2 DEF Heeds
  <2> QED BY <1>1, <2>1, <2>2
<1>5. \A i, j \in DOMAIN H : i < j /\ H[i].sport = s /\ H[j].sport = s =>
        Lag(seq, H[j].ack) <= Lag(seq, H[i].ack)
  <2> SUFFICES ASSUME NEW i \in DOMAIN H, NEW j \in DOMAIN H, i < j, H[i].sport = s, H[j].sport = s
               PROVE  Lag(seq, H[j].ack) <= Lag(seq, H[i].ack)
    OBVIOUS
  <2>1. i \in DOMAIN G
    <3>1. \A k \in DOMAIN G : k \in Nat
      OBVIOUS
    <3> QED BY <1>1, <3>1
  <2>2. CASE j = m
    BY <1>1, <1>3, <2>1, <2>2
  <2>3. CASE j \in DOMAIN G
    BY <1>1, <2>1, <2>3 DEF Heeds
  <2> QED BY <1>1, <2>2, <2>3
<1>6. Heeds(seq, ack, win, H, s, o, h)
  BY <1>4, <1>5 DEF Heeds
<1> QED BY <1>6 DEF H
-----------------------------------------------------------------------------
(* Data frames of s in a list of frames are numbered from x on.            *)
InOrder(F, s, x) ==
  \A i \in DOMAIN F : F[i].sport = s /\ F[i].flags = "ACK" =>
    F[i].seq = (x + Carried(F, s, i - 1)) % SeqSpace

(* What Q shows of s is what P shows of it, from some place on, and resets. *)
Onward(Q, P, s) ==
  \E k \in Nat : \A j \in DOMAIN Q : Q[j].sport = s =>
    \/ Q[j].flags = "RST" /\ Q[j].len = 0
    \/ j + k \in DOMAIN P /\ Q[j] = P[j + k] /\ Carried(Q, s, j - 1) = Carried(P, s, (j + k) - 1)

LEMMA LengthsOut == \A x \in Outgoing : x.len \in Nat
<1> QED BY DEF Outgoing

LEMMA CarriedJoined ==
  ASSUME NEW P \in Seq(Outgoing), NEW F \in Seq(Outgoing), NEW s
  PROVE  /\ \A i \in Nat : i <= Len(P) => Carried(P \o F, s, i) = Carried(P, s, i)
         /\ \A k \in Nat : k <= Len(F) =>
              Carried(P \o F, s, Len(P) + k) = Carried(P, s, Len(P)) + Carried(F, s, k)
<1>1. \A x \in Outgoing : x.len \in Nat
  BY LengthsOut
<1>2. ASSUME NEW i \in Nat, i <= Len(P) PROVE Carried(P \o F, s, i) = Carried(P, s, i)
  <2>1. \A j \in 1..i : j \in DOMAIN (P \o F) /\ j \in DOMAIN P /\ (P \o F)[j] = P[j]
    BY <1>2
  <2> QED BY <2>1, CarriedSame
<1>3. \A k \in Nat : k <= Len(F) =>
        Carried(P \o F, s, Len(P) + k) = Carried(P, s, Len(P)) + Carried(F, s, k)
  BY <1>1, CarriedMore
<1> QED BY <1>2, <1>3

LEMMA CarriedsJoined ==
  \A s : \A P \in Seq(Outgoing) : \A F \in Seq(Outgoing) :
    /\ \A i \in Nat : i <= Len(P) => Carried(P \o F, s, i) = Carried(P, s, i)
    /\ \A k \in Nat : k <= Len(F) =>
         Carried(P \o F, s, Len(P) + k) = Carried(P, s, Len(P)) + Carried(F, s, k)
<1> TAKE s
<1> TAKE P \in Seq(Outgoing)
<1> TAKE F \in Seq(Outgoing)
<1>1. \A i \in Nat : i <= Len(P) => Carried(P \o F, s, i) = Carried(P, s, i)
  BY CarriedJoined
<1>2. \A k \in Nat : k <= Len(F) =>
        Carried(P \o F, s, Len(P) + k) = Carried(P, s, Len(P)) + Carried(F, s, k)
  BY CarriedJoined
<1> QED BY <1>1, <1>2

LEMMA InOrderOnward ==
  ASSUME NEW P, NEW Q, NEW s, NEW x, InOrder(P, s, x), Onward(Q, P, s)
  PROVE  InOrder(Q, s, x)
<1>1. PICK k \in Nat : \A j \in DOMAIN Q : Q[j].sport = s =>
        \/ Q[j].flags = "RST" /\ Q[j].len = 0
        \/ j + k \in DOMAIN P /\ Q[j] = P[j + k] /\ Carried(Q, s, j - 1) = Carried(P, s, (j + k) - 1)
  BY DEF Onward
<1>2. ASSUME NEW j \in DOMAIN Q, Q[j].sport = s, Q[j].flags = "ACK"
      PROVE  Q[j].seq = (x + Carried(Q, s, j - 1)) % SeqSpace
  <2>1. j + k \in DOMAIN P /\ Q[j] = P[j + k] /\ Carried(Q, s, j - 1) = Carried(P, s, (j + k) - 1)
    BY <1>1, <1>2
  <2> DEFINE i == j + k
  <2>2. i \in DOMAIN P /\ Q[j] = P[i] /\ Carried(Q, s, j - 1) = Carried(P, s, i - 1)
    BY <2>1
  <2> HIDE DEF i
  <2>3. P[i].sport = s /\ P[i].flags = "ACK"
    BY <1>2, <2>2
  <2>4. P[i].seq = (x + Carried(P, s, i - 1)) % SeqSpace
    BY <2>2, <2>3 DEF InOrder
  <2> QED BY <2>2, <2>4
<1> QED BY <1>2 DEF InOrder

(* Frames of others, and resets, are appended. *)
LEMMA OnwardPut ==
  ASSUME NEW P \in Seq(Outgoing), NEW F \in Seq(Outgoing), NEW s,
         \A i \in DOMAIN F : F[i].sport = s => F[i].flags = "RST" /\ F[i].len = 0
  PROVE  /\ Onward(P \o F, P, s)
         /\ Carried(P \o F, s, Len(P \o F)) = Carried(P, s, Len(P))
<1> DEFINE Q == P \o F
           n == Len(P)
           m == Len(F)
<1>1. /\ n \in Nat /\ m \in Nat /\ Q \in Seq(Outgoing) /\ Len(Q) = n + m
      /\ DOMAIN Q = 1..(n + m) /\ DOMAIN P = 1..n /\ DOMAIN F = 1..m
      /\ \A i \in 1..n : Q[i] = P[i]
      /\ \A i \in 1..m : Q[n + i] = F[i]
  OBVIOUS
<1>2. /\ \A i \in Nat : i <= n => Carried(Q, s, i) = Carried(P, s, i)
      /\ \A k \in Nat : k <= m => Carried(Q, s, n + k) = Carried(P, s, n) + Carried(F, s, k)
  BY CarriedsJoined, Zenon
<1>3. Carried(F, s, m) = 0
  <2>1. m <= Len(F) /\ m \in Nat /\ \A i \in 1..m : F[i].sport = s => F[i].len = 0
    BY <1>1
  <2> QED BY <2>1, CarriedNone
<1>4. Carried(P, s, n) \in Nat
  <2>1. n <= Len(P)
    BY <1>1
  <2> QED BY <1>1, <2>1, CarriedNat, LengthsOut
<1> HIDE DEF Q, n, m
<1>5. Carried(Q, s, Len(Q)) = Carried(P, s, n)
  <2>1. m <= m
    BY <1>1
  <2>2. Carried(Q, s, n + m) = Carried(P, s, n) + Carried(F, s, m)
    BY <1>1, <1>2, <2>1
  <2> QED BY <1>1, <1>3, <1>4, <2>2
<1>6. \A j \in DOMAIN Q : Q[j].sport = s =>
        \/ Q[j].flags = "RST" /\ Q[j].len = 0
        \/ j + 0 \in DOMAIN P /\ Q[j] = P[j + 0] /\ Carried(Q, s, j - 1) = Carried(P, s, (j + 0) - 1)
  <2> SUFFICES ASSUME NEW j \in DOMAIN Q, Q[j].sport = s
               PROVE  \/ Q[j].flags = "RST" /\ Q[j].len = 0
                      \/ /\ j + 0 \in DOMAIN P /\ Q[j] = P[j + 0]
                         /\ Carried(Q, s, j - 1) = Carried(P, s, (j + 0) - 1)
    OBVIOUS
  <2>1. CASE j <= n
    <3>1. j \in 1..n /\ j - 1 \in Nat /\ j - 1 <= n /\ j + 0 = j /\ (j + 0) - 1 = j - 1
      BY <1>1, <2>1
    <3>2. Carried(Q, s, j - 1) = Carried(P, s, j - 1)
      BY <1>2, <3>1
    <3>3. Q[j] = P[j]
      BY <1>1, <3>1
    <3> QED BY <1>1, <3>1, <3>2, <3>3
  <2>2. CASE ~(j <= n)
    <3> DEFINE i == j - n
    <3>1. i \in 1..m /\ j = n + i
      BY <1>1, <2>2
    <3> HIDE DEF i
    <3>2. Q[j] = F[i]
      BY <1>1, <3>1
    <3> QED BY <1>1, <3>1, <3>2
  <2> QED BY <2>1, <2>2
<1>7. Onward(Q, P, s)
  <2>1. 0 \in Nat
    OBVIOUS
  <2> QED BY <1>6, <2>1 DEF Onward
<1> QED BY <1>5, <1>7 DEF Q, n

(* The first frame, of another connection, is taken. *)
LEMMA OnwardTaken ==
  ASSUME NEW P \in Seq(Outgoing), P # <<>>, NEW s, Head(P).sport # s
  PROVE  /\ Onward(Tail(P), P, s)
         /\ Carried(Tail(P), s, Len(Tail(P))) = Carried(P, s, Len(P))
<1> DEFINE Q == Tail(P)
           m == Len(Q)
<1>1. /\ Q \in Seq(Outgoing) /\ m \in Nat /\ Len(P) = m + 1 /\ DOMAIN Q = 1..m
      /\ \A j \in DOMAIN Q : j + 1 \in DOMAIN P /\ Q[j] = P[j + 1] /\ j \in Nat /\ j <= m /\ j >= 1
  OBVIOUS
<1>2. \A n \in Nat : n < Len(P) => Carried(P, s, n + 1) = 0 + Carried(Q, s, n)
  <2> TAKE n \in Nat
  <2> HAVE n < Len(P)
  <2>1. Carried(P, s, n + 1) = (IF Head(P).sport = s THEN Head(P).len ELSE 0) + Carried(Q, s, n)
    BY CarriedTaken, LengthsOut
  <2> QED BY <2>1
<1>3. \A n \in Nat : n <= m => Carried(Q, s, n) \in Nat
  BY <1>1, CarriedNat, LengthsOut
<1> HIDE DEF Q, m
<1>4. \A n \in Nat : n <= m => Carried(P, s, n + 1) = Carried(Q, s, n)
  BY <1>1, <1>2, <1>3
<1>5. Carried(Q, s, Len(Q)) = Carried(P, s, Len(P))
  <2>1. m <= m
    BY <1>1
  <2> QED BY <1>1, <1>4, <2>1 DEF m
<1>6. \A j \in DOMAIN Q : Q[j].sport = s =>
        \/ Q[j].flags = "RST" /\ Q[j].len = 0
        \/ j + 1 \in DOMAIN P /\ Q[j] = P[j + 1] /\ Carried(Q, s, j - 1) = Carried(P, s, (j + 1) - 1)
  <2> TAKE j \in DOMAIN Q
  <2>1. j - 1 \in Nat /\ j - 1 <= m /\ (j - 1) + 1 = (j + 1) - 1
    BY <1>1
  <2>2. Carried(P, s, (j - 1) + 1) = Carried(Q, s, j - 1)
    BY <1>4, <2>1
  <2> QED BY <1>1, <2>1, <2>2
<1>7. Onward(Q, P, s)
  <2>1. 1 \in Nat
    OBVIOUS
  <2> QED BY <1>6, <2>1 DEF Onward
<1> QED BY <1>5, <1>7 DEF Q

(* Only the first frames are written. *)
LEMMA OnwardCut ==
  ASSUME NEW P \in Seq(Outgoing), NEW s, NEW n \in 0..Len(P)
  PROVE  /\ Onward(SubSeq(P, 1, n), P, s)
         /\ SubSeq(P, 1, n) \in Seq(Outgoing)
         /\ Carried(SubSeq(P, 1, n), s, Len(SubSeq(P, 1, n))) <= Carried(P, s, Len(P))
<1> DEFINE Q == SubSeq(P, 1, n)
<1>1. /\ Q \in Seq(Outgoing) /\ Len(Q) = n /\ n \in Nat /\ n <= Len(P) /\ DOMAIN Q = 1..n
      /\ \A j \in 1..n : j \in DOMAIN P /\ Q[j] = P[j] /\ j \in DOMAIN Q
  OBVIOUS
<1> HIDE DEF Q
<1>2. \A i \in Nat : i <= n => Carried(Q, s, i) = Carried(P, s, i)
  <2> TAKE i \in Nat
  <2> HAVE i <= n
  <2>1. \A j \in 1..i : j \in DOMAIN Q /\ j \in DOMAIN P /\ Q[j] = P[j]
    BY <1>1
  <2> QED BY <2>1, CarriedSame
<1>3. Carried(Q, s, Len(Q)) <= Carried(P, s, Len(P))
  <2>1. Len(P) \in Nat /\ Len(P) <= Len(P)
    OBVIOUS
  <2>2. \A i \in Nat : i <= Len(P) => Carried(P, s, i) <= Carried(P, s, Len(P))
    BY <2>1, CarriedNat, LengthsOut
  <2>3. n <= n
    BY <1>1
  <2> QED BY <1>1, <1>2, <2>2, <2>3
<1>4. \A j \in DOMAIN Q : Q[j].sport = s =>
        \/ Q[j].flags = "RST" /\ Q[j].len = 0
        \/ j + 0 \in DOMAIN P /\ Q[j] = P[j + 0] /\ Carried(Q, s, j - 1) = Carried(P, s, (j + 0) - 1)
  <2> TAKE j \in DOMAIN Q
  <2>1. j \in 1..n /\ j - 1 \in Nat /\ j - 1 <= n /\ j + 0 = j /\ (j + 0) - 1 = j - 1
    BY <1>1
  <2>2. Carried(Q, s, j - 1) = Carried(P, s, j - 1)
    BY <1>2, <2>1
  <2> QED BY <1>1, <2>1, <2>2
<1>5. Onward(Q, P, s)
  <2>1. 0 \in Nat
    OBVIOUS
  <2> QED BY <1>4, <2>1 DEF Onward
<1> QED BY <1>1, <1>3, <1>5 DEF Q

LEMMA InOrderJoined ==
  ASSUME NEW P \in Seq(Outgoing), NEW F \in Seq(Outgoing), NEW s, NEW x \in Nat,
         InOrder(P, s, x), InOrder(F, s, (x + Carried(P, s, Len(P))) % SeqSpace)
  PROVE  InOrder(P \o F, s, x)
<1> DEFINE Q == P \o F
           n == Len(P)
           m == Len(F)
           c == Carried(P, s, n)
<1>1. /\ n \in Nat /\ m \in Nat
      /\ DOMAIN Q = 1..(n + m) /\ DOMAIN P = 1..n /\ DOMAIN F = 1..m
      /\ \A i \in 1..n : Q[i] = P[i]
      /\ \A i \in 1..m : Q[n + i] = F[i]
  OBVIOUS
<1>2. /\ \A i \in Nat : i <= n => Carried(Q, s, i) = Carried(P, s, i)
      /\ \A k \in Nat : k <= m => Carried(Q, s, n + k) = c + Carried(F, s, k)
  BY CarriedJoined
<1>3. c \in Nat
  <2>1. n <= Len(P)
    BY <1>1
  <2> QED BY <1>1, <2>1, CarriedNat, LengthsOut
<1>4. \A k \in Nat : k <= m => Carried(F, s, k) \in Nat
  BY <1>1, CarriedNat, LengthsOut
<1>5. InOrder(F, s, (x + c) % SeqSpace)
  OBVIOUS
<1> HIDE DEF Q, n, m, c
<1>6. ASSUME NEW j \in DOMAIN Q, Q[j].sport = s, Q[j].flags = "ACK"
      PROVE  Q[j].seq = (x + Carried(Q, s, j - 1)) % SeqSpace
  <2>1. CASE j <= n
    <3>1. j \in 1..n /\ j - 1 \in Nat /\ j - 1 <= n /\ j \in DOMAIN P
      BY <1>1, <2>1
    <3>2. Carried(Q, s, j - 1) = Carried(P, s, j - 1)
      BY <1>2, <3>1
    <3>3. Q[j] = P[j]
      BY <1>1, <3>1
    <3>4. P[j].seq = (x + Carried(P, s, j - 1)) % SeqSpace
      BY <1>6, <3>1, <3>3 DEF InOrder
    <3> QED BY <3>2, <3>3, <3>4
  <2>2. CASE ~(j <= n)
    <3> DEFINE i == j - n
               k == i - 1
               d == Carried(F, s, k)
    <3>1. i \in 1..m /\ j = n + i /\ k \in Nat /\ k <= m /\ j - 1 = n + k
      BY <1>1, <2>2
    <3>2. Q[j] = F[i] /\ i \in DOMAIN F
      BY <1>1, <3>1
    <3>3. F[i].seq = (((x + c) % SeqSpace) + d) % SeqSpace
      BY <1>5, <1>6, <3>2 DEF InOrder
    <3>4. Carried(Q, s, j - 1) = c + d /\ d \in Nat
      BY <1>2, <1>4, <3>1
    <3> HIDE DEF i, k, d
    <3>5. x + c \in Nat
      BY <1>3
    <3>6. (((x + c) % SeqSpace) + d) % SeqSpace = (x + c + d) % SeqSpace
      BY <3>4, <3>5, ModAdded
    <3>7. x + (c + d) = x + c + d
      BY <1>3, <3>4
    <3> QED BY <3>2, <3>3, <3>4, <3>6, <3>7
  <2> QED BY <2>1, <2>2
<1>7. InOrder(Q, s, x)
  BY <1>6 DEF InOrder
<1> QED BY <1>7 DEF Q

LEMMA InOrderTaken ==
  ASSUME NEW P \in Seq(Outgoing), P # <<>>, NEW s, Head(P).sport = s, NEW x \in Nat, InOrder(P, s, x)
  PROVE  /\ InOrder(Tail(P), s, x + Head(P).len)
         /\ Carried(P, s, Len(P)) = Head(P).len + Carried(Tail(P), s, Len(Tail(P)))
<1> DEFINE Q == Tail(P)
           m == Len(Q)
           h == Head(P).len
<1>1. /\ Q \in Seq(Outgoing) /\ m \in Nat /\ Len(P) = m + 1 /\ DOMAIN Q = 1..m
      /\ \A j \in DOMAIN Q : j + 1 \in DOMAIN P /\ Q[j] = P[j + 1] /\ j \in Nat /\ j <= m /\ j >= 1
  OBVIOUS
<1>0. h \in Nat
  <2>1. Head(P) \in Outgoing
    OBVIOUS
  <2> QED BY <2>1, LengthsOut
<1>2. \A n \in Nat : n < Len(P) => Carried(P, s, n + 1) = h + Carried(Q, s, n)
  BY CarriedTaken, LengthsOut
<1>3. \A n \in Nat : n <= m => Carried(Q, s, n) \in Nat
  BY <1>1, CarriedNat, LengthsOut
<1> HIDE DEF Q, m, h
<1>4. Carried(P, s, Len(P)) = h + Carried(Q, s, Len(Q))
  <2>1. m < Len(P)
    BY <1>1
  <2> QED BY <1>1, <1>2, <2>1 DEF m
<1>5. ASSUME NEW j \in DOMAIN Q, Q[j].sport = s, Q[j].flags = "ACK"
      PROVE  Q[j].seq = (x + h + Carried(Q, s, j - 1)) % SeqSpace
  <2>1. j - 1 \in Nat /\ j - 1 < Len(P) /\ j - 1 <= m /\ (j - 1) + 1 = (j + 1) - 1
    BY <1>1
  <2>2. Carried(P, s, (j + 1) - 1) = h + Carried(Q, s, j - 1) /\ Carried(Q, s, j - 1) \in Nat
    BY <1>2, <1>3, <2>1
  <2>3. P[j + 1].seq = (x + Carried(P, s, (j + 1) - 1)) % SeqSpace
    BY <1>1, <1>5 DEF InOrder
  <2>4. x + (h + Carried(Q, s, j - 1)) = x + h + Carried(Q, s, j - 1)
    BY <1>0, <2>2
  <2> QED BY <1>1, <2>2, <2>3, <2>4
<1>6. InOrder(Q, s, x + h)
  BY <1>5 DEF InOrder
<1> QED BY <1>4, <1>6 DEF Q, h
-----------------------------------------------------------------------------
(* What the mux task sends for s on behalf of conn, which becomes next:    *)
(* frames numbered from the connection's own number on, no more bytes than *)
(* the device's window admits.                                             *)
Emits(Q, s, conn, next) ==
  /\ Q \in Seq(Outgoing)
  /\ \A i \in DOMAIN Q : Q[i].sport = s /\ Q[i].flags \in {"ACK", "RST"}
  /\ InOrder(Q, s, conn.txSeq)
  /\ next.txSeq = (conn.txSeq + Carried(Q, s, Len(Q))) % SeqSpace
  /\ Carried(Q, s, Len(Q)) = 0 \/ Carried(Q, s, Len(Q)) <= conn.rxWin - Inflight(conn)

LEMMA CarriedAll ==
  ASSUME NEW Q \in Seq(Outgoing), NEW s
  PROVE  Carried(Q, s, Len(Q)) \in Nat
<1>1. Len(Q) \in Nat /\ Len(Q) <= Len(Q)
  OBVIOUS
<1> QED BY <1>1, CarriedNat, LengthsOut

(* A frame without payload. *)
LEMMA ControlEmits ==
  ASSUME NEW conn \in Connection, NEW s \in Sports, NEW flags \in {"ACK", "RST"}, NEW next,
         next.txSeq = conn.txSeq
  PROVE  /\ Emits(<<Frame(s, conn, flags, 0)>>, s, conn, next)
         /\ Carried(<<Frame(s, conn, flags, 0)>>, s, Len(<<Frame(s, conn, flags, 0)>>)) = 0
<1> DEFINE f == Frame(s, conn, flags, 0)
           Q == <<f>>
<1>1. f \in Outgoing
  BY FrameIsOutgoing DEF Flags
<1>2. f.sport = s /\ f.flags = flags /\ f.seq = conn.txSeq /\ f.len = 0
  BY DEF Frame
<1> HIDE DEF f
<1>3. Q \in Seq(Outgoing) /\ Len(Q) = 1 /\ DOMAIN Q = {1} /\ Q[1] = f
  BY <1>1
<1>4. Carried(Q, s, 1) = 0
  <2>1. f.len \in Nat
    BY <1>2
  <2>2. Carried(<<f>>, s, 1) = IF f.sport = s THEN f.len ELSE 0
    BY <2>1, CarriedOne
  <2> QED BY <1>2, <2>2
<1>5. Carried(Q, s, 0) = 0
  <2>1. 0 \in Nat /\ 0 <= Len(Q)
    BY <1>3
  <2> QED BY <1>3, <2>1, CarriedNat, LengthsOut
<1>6. conn.txSeq \in Numbers
  BY DEF Connection
<1> HIDE DEF Q
<1>7. (conn.txSeq + 0) % SeqSpace = conn.txSeq
  <2>1. conn.txSeq + 0 = conn.txSeq
    BY <1>6 DEF Numbers
  <2> QED BY <1>6, <2>1, ModSmall
<1>8. InOrder(Q, s, conn.txSeq)
  <2>1. ASSUME NEW i \in DOMAIN Q PROVE Q[i].seq = (conn.txSeq + Carried(Q, s, i - 1)) % SeqSpace
    <3>1. i = 1 /\ i - 1 = 0
      BY <1>3
    <3> QED BY <1>2, <1>3, <1>5, <1>7, <3>1
  <2> QED BY <2>1 DEF InOrder
<1>9. Carried(Q, s, Len(Q)) = 0
  BY <1>3, <1>4
<1>10. Emits(Q, s, conn, next)
  BY <1>2, <1>3, <1>7, <1>8, <1>9 DEF Emits
<1> QED BY <1>9, <1>10 DEF Q, f

LEMMA NothingEmits ==
  ASSUME NEW conn \in Connection, NEW s, NEW next, next.txSeq = conn.txSeq
  PROVE  Emits(<<>>, s, conn, next) /\ Carried(<<>>, s, Len(<<>>)) = 0
<1> DEFINE Q == <<>>
<1>1. Q \in Seq(Outgoing) /\ Len(Q) = 0 /\ DOMAIN Q = {}
  OBVIOUS
<1> HIDE DEF Q
<1>2. Carried(Q, s, 0) = 0
  <2>1. 0 \in Nat /\ 0 <= Len(Q)
    BY <1>1
  <2> QED BY <1>1, <2>1, CarriedNat, LengthsOut
<1>3. (conn.txSeq + 0) % SeqSpace = conn.txSeq
  <2>1. conn.txSeq \in Numbers
    BY DEF Connection
  <2>2. conn.txSeq + 0 = conn.txSeq
    BY <2>1 DEF Numbers
  <2> QED BY <2>1, <2>2, ModSmall
<1>4. InOrder(Q, s, conn.txSeq)
  BY <1>1 DEF InOrder
<1>5. Emits(Q, s, conn, next) /\ Carried(Q, s, Len(Q)) = 0
  BY <1>1, <1>2, <1>3, <1>4 DEF Emits
<1> QED BY <1>5 DEF Q

(* Two emissions, one of them without payload. *)
LEMMA EmitsBoth ==
  ASSUME NEW conn \in Connection, NEW mid \in Connection, NEW next, NEW s,
         NEW P, NEW Q, Emits(P, s, conn, mid), Emits(Q, s, mid, next),
         \/ Carried(P, s, Len(P)) = 0 /\ mid.rxWin = conn.rxWin /\ Inflight(mid) = Inflight(conn)
         \/ Carried(Q, s, Len(Q)) = 0
  PROVE  /\ Emits(P \o Q, s, conn, next)
         /\ Carried(P \o Q, s, Len(P \o Q)) = Carried(P, s, Len(P)) + Carried(Q, s, Len(Q))
<1> DEFINE a == Carried(P, s, Len(P))
           b == Carried(Q, s, Len(Q))
           R == P \o Q
           x == conn.txSeq
<1>1. /\ P \in Seq(Outgoing) /\ Q \in Seq(Outgoing)
      /\ InOrder(P, s, x) /\ InOrder(Q, s, mid.txSeq)
      /\ mid.txSeq = (x + a) % SeqSpace
      /\ next.txSeq = (mid.txSeq + b) % SeqSpace
  BY DEF Emits
<1>2. a \in Nat /\ b \in Nat
  BY <1>1, CarriedAll
<1>3. x \in Nat
  BY Sizes DEF Connection, Numbers
<1>4. Carried(R, s, Len(R)) = a + b
  <2>1. Len(Q) \in Nat /\ Len(Q) <= Len(Q) /\ Len(R) = Len(P) + Len(Q)
    BY <1>1
  <2>2. Carried(P \o Q, s, Len(P) + Len(Q)) = Carried(P, s, Len(P)) + Carried(Q, s, Len(Q))
    BY <1>1, <2>1, CarriedsJoined, Zenon
  <2> QED BY <2>1, <2>2
<1>5. InOrder(R, s, x)
  <2>1. InOrder(Q, s, (x + Carried(P, s, Len(P))) % SeqSpace)
    BY <1>1
  <2> QED BY <1>1, <1>3, <2>1, InOrderJoined
<1>6. R \in Seq(Outgoing) /\ \A i \in DOMAIN R : R[i].sport = s /\ R[i].flags \in {"ACK", "RST"}
  <2>1. /\ R \in Seq(Outgoing) /\ DOMAIN R = 1..(Len(P) + Len(Q)) /\ Len(P) \in Nat /\ Len(Q) \in Nat
        /\ DOMAIN P = 1..Len(P) /\ DOMAIN Q = 1..Len(Q)
        /\ \A i \in 1..Len(P) : R[i] = P[i]
        /\ \A i \in 1..Len(Q) : R[Len(P) + i] = Q[i]
    BY <1>1
  <2>2. /\ \A i \in DOMAIN P : P[i].sport = s /\ P[i].flags \in {"ACK", "RST"}
        /\ \A i \in DOMAIN Q : Q[i].sport = s /\ Q[i].flags \in {"ACK", "RST"}
    BY DEF Emits
  <2> DEFINE n == Len(P)
             m == Len(Q)
  <2> HIDE DEF R, n, m
  <2>3. ASSUME NEW i \in DOMAIN R PROVE R[i].sport = s /\ R[i].flags \in {"ACK", "RST"}
    <3>1. CASE i \in 1..n
      BY <2>1, <2>2, <3>1 DEF n
    <3>2. CASE ~(i \in 1..n)
      <4> DEFINE j == i - n
      <4>1. j \in 1..m /\ i = n + j
        BY <2>1, <3>2 DEF n, m
      <4> HIDE DEF j
      <4>2. R[i] = Q[j] /\ j \in DOMAIN Q
        BY <2>1, <4>1 DEF n, m
      <4> QED BY <2>2, <4>2
    <3> QED BY <3>1, <3>2
  <2> QED BY <2>1, <2>3
<1>7. next.txSeq = (x + (a + b)) % SeqSpace
  <2>1. x + a \in Nat /\ x + a + b = x + (a + b)
    BY <1>2, <1>3
  <2> HIDE DEF a, b, x
  <2>2. (((x + a) % SeqSpace) + b) % SeqSpace = (x + a + b) % SeqSpace
    BY <1>2, <2>1, ModAdded
  <2> QED BY <1>1, <2>1, <2>2
<1>8. a + b = 0 \/ a + b <= conn.rxWin - Inflight(conn)
  <2>1. /\ a = 0 \/ a <= conn.rxWin - Inflight(conn)
        /\ b = 0 \/ b <= mid.rxWin - Inflight(mid)
    BY DEF Emits
  <2>2. (a = 0 /\ mid.rxWin - Inflight(mid) = conn.rxWin - Inflight(conn)) \/ b = 0
    OBVIOUS
  <2> DEFINE v == mid.rxWin - Inflight(mid)
             w == conn.rxWin - Inflight(conn)
  <2> HIDE DEF a, b, v, w
  <2>3. (a = 0 \/ a <= w) /\ (b = 0 \/ b <= v) /\ ((a = 0 /\ v = w) \/ b = 0)
    BY <2>1, <2>2 DEF v, w
  <2>4. a + b = 0 \/ a + b <= w
    BY <1>2, <2>3
  <2> QED BY <2>4 DEF w
<1> HIDE DEF R
<1>9. Emits(R, s, conn, next)
  <2>1. /\ Carried(R, s, Len(R)) = 0 \/ Carried(R, s, Len(R)) <= conn.rxWin - Inflight(conn)
        /\ next.txSeq = (conn.txSeq + Carried(R, s, Len(R))) % SeqSpace
    BY <1>4, <1>7, <1>8
  <2> QED BY <1>5, <1>6, <2>1 DEF Emits
<1> QED BY <1>4, <1>9 DEF R

(* K frames of s for n bytes, all full but the last one. *)
Filled(Q, s, n, K) ==
  /\ Q \in Seq(Outgoing) /\ n \in Nat /\ K \in Nat /\ Len(Q) = K
  /\ K = (n + MaxPayload - 1) \div MaxPayload
  /\ \A i \in 1..K : Q[i].sport = s /\ Q[i].len = Least(MaxPayload, n - (i - 1) * MaxPayload)

LEMMA FlushCarried ==
  ASSUME NEW Q, NEW s, NEW n, NEW K, Filled(Q, s, n, K)
  PROVE  /\ \A k \in 0..K : Carried(Q, s, k) = Least(k * MaxPayload, n)
         /\ Carried(Q, s, K) = n
         /\ \A i \in 1..K : Carried(Q, s, i - 1) = (i - 1) * MaxPayload
<1> DEFINE M == MaxPayload
           T == {k \in Nat : k <= K => Carried(Q, s, k) = Least(k * M, n)}
<1> USE DEF Filled
<1>0. M \in Nat \ {0}
  BY Sizes
<1>1. ASSUME NEW i \in 1..K PROVE (i - 1) * M < n
  <2>1. i \in 1..((n + M - 1) \div M)
    OBVIOUS
  <2> QED BY <1>0, <2>1, FrameCount
<1> HIDE DEF M
<1>2. 0 \in T
  <2>1. Carried(Q, s, 0) = 0
    <3>1. 0 \in Nat /\ 0 <= Len(Q)
      OBVIOUS
    <3> QED BY <3>1, CarriedNat, LengthsOut
  <2>2. 0 * M = 0 /\ Least(0, n) = 0
    BY <1>0 DEF Least
  <2> QED BY <2>1, <2>2
<1>3. ASSUME NEW k \in Nat, k \in T PROVE k + 1 \in T
  <2> SUFFICES ASSUME k + 1 <= K PROVE Carried(Q, s, k + 1) = Least((k + 1) * M, n)
    OBVIOUS
  <2> DEFINE p == k * M
             c == Carried(Q, s, k)
             len == Q[k + 1].len
  <2>1. p \in Nat /\ (k + 1) * M = p + M
    BY <1>0
  <2>2. k + 1 \in 1..K /\ k < Len(Q) /\ k <= K /\ (k + 1) - 1 = k
    OBVIOUS
  <2>3. p < n
    <3>1. ((k + 1) - 1) * M < n
      BY <1>1, <2>2
    <3> QED BY <2>2, <3>1
  <2>4. c = Least(p, n)
    BY <1>3, <2>2
  <2>5. Carried(Q, s, k + 1) = c + (IF Q[k + 1].sport = s THEN Q[k + 1].len ELSE 0)
    BY <2>2, CarriedStep
  <2>6. Q[k + 1].sport = s /\ len = Least(M, n - p)
    <3>1. Q[k + 1].sport = s /\ Q[k + 1].len = Least(MaxPayload, n - ((k + 1) - 1) * MaxPayload)
      BY <2>2
    <3> QED BY <2>2, <3>1 DEF M
  <2>7. Carried(Q, s, k + 1) = c + len
    BY <2>5, <2>6
  <2> HIDE DEF p, c, len
  <2>8. c + len = Least(p + M, n)
    BY <1>0, <2>1, <2>3, <2>4, <2>6 DEF Least
  <2> QED BY <2>1, <2>7, <2>8
<1>4. \A k \in Nat : k \in T
  <2> HIDE DEF T
  <2> QED BY <1>2, <1>3, Induction
<1>5. \A k \in 0..K : Carried(Q, s, k) = Least(k * M, n)
  BY <1>4
<1> HIDE DEF T
<1>6. Carried(Q, s, K) = n
  <2> DEFINE y == n + M - 1
             p == M * K
  <2>1. y \in Nat
    BY <1>0
  <2>2. y = M * (y \div M) + (y % M) /\ y % M \in 0..(M - 1)
    <3> HIDE DEF y
    <3> QED BY <1>0, <2>1, Divided
  <2>3. K = y \div M
    BY DEF M
  <2>4. p \in Nat /\ K * M = p
    BY <1>0
  <2>5. y = p + (y % M)
    BY <2>2, <2>3
  <2> HIDE DEF p
  <2>6. p >= n
    <3> DEFINE r == y % M
    <3>1. r \in 0..(M - 1) /\ n + M - 1 = p + r
      BY <2>2, <2>5
    <3> HIDE DEF r
    <3> QED BY <1>0, <2>4, <3>1
  <2>7. K \in 0..K
    OBVIOUS
  <2>8. Carried(Q, s, K) = Least(p, n)
    BY <1>5, <2>4, <2>7
  <2> QED BY <2>4, <2>6, <2>8 DEF Least
<1>7. ASSUME NEW i \in 1..K PROVE Carried(Q, s, i - 1) = (i - 1) * M
  <2> DEFINE k == i - 1
             p == k * M
  <2>1. k \in 0..K /\ k \in Nat
    OBVIOUS
  <2>2. p < n
    BY <1>1
  <2> HIDE DEF k
  <2>3. Carried(Q, s, k) = Least(p, n) /\ p \in Nat
    BY <1>0, <1>5, <2>1
  <2> HIDE DEF p
  <2>4. Carried(Q, s, k) = p
    BY <2>2, <2>3 DEF Least
  <2> QED BY <2>4 DEF p, k
<1> QED BY <1>5, <1>6, <1>7 DEF M

LEMMA FlushEmits ==
  ASSUME NEW conn \in Connection, NEW s \in Sports
  PROVE  /\ Emits(FlushFrames(s, conn), s, conn, Flushed(conn))
         /\ Carried(FlushFrames(s, conn), s, Len(FlushFrames(s, conn))) = Sendable(conn)
         /\ \A i \in DOMAIN FlushFrames(s, conn) : FlushFrames(s, conn)[i].flags = "ACK"
<1> DEFINE n == Sendable(conn)
           K == (n + MaxPayload - 1) \div MaxPayload
           Q == FlushFrames(s, conn)
           x == conn.txSeq
<1>1. n \in Nat /\ K \in Nat /\ Inflight(conn) \in Numbers
  <2>1. n \in Nat /\ Inflight(conn) \in Numbers
    BY SendableFacts
  <2> QED BY <2>1, Sizes
<1>2. Q \in Seq(Outgoing)
  BY FlushIsOutgoing
<1>3. /\ DOMAIN Q = 1..K /\ Len(Q) = K
      /\ \A i \in 1..K : /\ Q[i].sport = s /\ Q[i].flags = "ACK"
                         /\ Q[i].seq = (x + (i - 1) * MaxPayload) % SeqSpace
                         /\ Q[i].len = Least(MaxPayload, n - (i - 1) * MaxPayload)
  <2>1. Q = [i \in 1..K |->
              Frame(s, [conn EXCEPT !.txSeq = (@ + (i - 1) * MaxPayload) % SeqSpace],
                    "ACK", Least(MaxPayload, n - (i - 1) * MaxPayload))]
    BY DEF FlushFrames
  <2>2. DOMAIN Q = 1..K
    BY <2>1
  <2>3. Len(Q) = K
    <3> HIDE DEF Q, K
    <3> QED BY <1>1, <1>2, <2>2
  <2>4. ASSUME NEW i \in 1..K
        PROVE  /\ Q[i].sport = s /\ Q[i].flags = "ACK"
               /\ Q[i].seq = (x + (i - 1) * MaxPayload) % SeqSpace
               /\ Q[i].len = Least(MaxPayload, n - (i - 1) * MaxPayload)
    <3> DEFINE seq == (x + (i - 1) * MaxPayload) % SeqSpace
               len == Least(MaxPayload, n - (i - 1) * MaxPayload)
               then == [conn EXCEPT !.txSeq = seq]
    <3>1. Q[i] = Frame(s, then, "ACK", len)
      BY <2>1
    <3>2. then.txSeq = seq
      <4> HIDE DEF seq
      <4> QED BY DEF Connection
    <3> HIDE DEF seq, len, then, Q
    <3>3. Q[i].sport = s /\ Q[i].flags = "ACK" /\ Q[i].seq = then.txSeq /\ Q[i].len = len
      BY <3>1 DEF Frame
    <3> QED BY <3>2, <3>3 DEF seq, len
  <2> QED BY <2>2, <2>3, <2>4
<1>4. K = (n + MaxPayload - 1) \div MaxPayload
  OBVIOUS
<1> HIDE DEF n, K, Q
<1>5. Carried(Q, s, K) = n /\ \A i \in 1..K : Carried(Q, s, i - 1) = (i - 1) * MaxPayload
  <2>1. Filled(Q, s, n, K)
    BY <1>1, <1>2, <1>3, <1>4 DEF Filled
  <2> QED BY <2>1, FlushCarried
<1>6. InOrder(Q, s, x)
  <2>1. \A i \in DOMAIN Q : Q[i].seq = (x + Carried(Q, s, i - 1)) % SeqSpace
    BY <1>3, <1>5
  <2> QED BY <2>1 DEF InOrder
<1>7. Flushed(conn).txSeq = (x + n) % SeqSpace
  BY FlushedFields DEF n
<1>8. n = 0 \/ n <= conn.rxWin - Inflight(conn)
  <2>1. conn.rxWin \in Int /\ conn.pending \in Nat
    BY DEF Connection
  <2>2. Inflight(conn) \in Int
    BY <1>1 DEF Numbers
  <2>3. n = Least(conn.pending, Less(conn.rxWin, Inflight(conn)))
    BY DEF n, Sendable
  <2> QED BY <2>1, <2>2, <2>3 DEF Least, Less
<1>9. Emits(Q, s, conn, Flushed(conn))
  <2>1. Carried(Q, s, Len(Q)) = n
    BY <1>3, <1>5
  <2>2. \A i \in DOMAIN Q : Q[i].sport = s /\ Q[i].flags \in {"ACK", "RST"}
    BY <1>3
  <2> QED BY <1>2, <1>6, <1>7, <1>8, <2>1, <2>2 DEF Emits
<1>10. Carried(Q, s, Len(Q)) = n /\ \A i \in DOMAIN Q : Q[i].flags = "ACK"
  BY <1>3, <1>5
<1> QED BY <1>9, <1>10 DEF Q, n
-----------------------------------------------------------------------------
(* The pipe keeps its types when the task returns.                         *)

(* The resets that are sent when the task returns. *)
Resets == SetToSeq({Frame(q, connections[q], "RST", 0) : q \in DOMAIN connections})

LEMMA ResetsOut ==
  ASSUME ConnectionTypes
  PROVE  /\ Resets \in Seq(Outgoing)
         /\ \A i \in DOMAIN Resets :
              Resets[i].flags = "RST" /\ Resets[i].len = 0 /\ Resets[i].sport \in DOMAIN connections
<1> DEFINE D == DOMAIN connections
           F(q) == Frame(q, connections[q], "RST", 0)
           S == {F(q) : q \in D}
           f == [q \in D |-> F(q)]
<1>1. IsFiniteSet(D)
  <2>1. D \subseteq 1..MaxSport /\ 1 \in Int /\ MaxSport \in Int
    BY Sizes DEF ConnectionTypes, Sports
  <2>2. IsFiniteSet(1..MaxSport)
    BY <2>1, FS_Interval
  <2> QED BY <2>1, <2>2, FS_Subset
<1>2. \A q \in D : F(q) \in Outgoing /\ F(q).flags = "RST" /\ F(q).len = 0 /\ F(q).sport = q
  <2> TAKE q \in D
  <2>1. F(q) \in Outgoing
    BY FrameIsOutgoing DEF ConnectionTypes, Flags
  <2> QED BY <2>1 DEF Frame
<1> HIDE DEF F, D
<1>3. IsFiniteSet(S)
  <2>1. f \in [D -> S] /\ \A t \in S : \E q \in D : f[q] = t
    OBVIOUS
  <2>2. f \in Surjection(D, S)
    BY <2>1 DEF Surjection
  <2> QED BY <1>1, <2>2, FS_Surjection
<1>4. \A x \in S : x \in Outgoing /\ x.flags = "RST" /\ x.len = 0 /\ x.sport \in D
  BY <1>2
<1> HIDE DEF S
<1> DEFINE Q == SetToSeq(S)
<1>5. Q \in Seq(S)
  BY <1>3, Listing
<1> HIDE DEF Q
<1>6. \A i \in DOMAIN Q : Q[i] \in S
  BY <1>5
<1>7. Q \in Seq(Outgoing)
  <2>1. S \subseteq Outgoing
    BY <1>4
  <2> QED BY <1>5, <2>1
<1>8. Resets = Q
  BY DEF Resets, Q, S, F, D
<1> QED BY <1>4, <1>6, <1>7, <1>8 DEF D

LEMMA ExitPipe ==
  ASSUME UploadInv, PipeTypes, Exit
  PROVE  PipeTypes'
<1>1. Resets \in Seq(Outgoing)
  BY ResetsOut DEF UploadInv, StateInv
<1>2. toDevice' = (IF writerUp THEN toDevice \o Resets ELSE toDevice)
  BY DEF Exit, Resets
<1>3. toDevice' \in Seq(Outgoing)
  BY <1>1, <1>2 DEF PipeTypes
<1>4. fromDevice' = <<>> /\ device' = device
  BY DEF Exit
<1>5. <<>> \in Seq(Incoming)
  OBVIOUS
<1> QED BY <1>3, <1>4, <1>5 DEF PipeTypes

LEMMA UploadInvKept ==
  ASSUME UploadInv, Next
  PROVE  UploadInv'
<1>2. ASSUME NEW c \in Conns, PumpAct(c) \/ ForwarderAct(c) \/ UserAct(c) PROVE UploadInv'
  BY <1>2, ClientStep
<1>3. CASE CallShutdown
  <2>1. UNCHANGED <<mux, toDevice, fromDevice, device>>
    BY <1>3 DEF CallShutdown
  <2>2. ChannelTypes'
    BY <1>3, ChannelsUntouched DEF CallShutdown, UploadInv
  <2> QED BY <1>3, <2>1, <2>2, PipeUntouched, ShutdownKeeps DEF UploadInv
<1>4. CASE MuxConnect \/ DataStep \/ Drained \/ PacketStep
  BY <1>4, TaskStep
<1>5. CASE VersionReply \/ MuxShutdown \/ ReadFails \/ WriteFails
  BY <1>5, FaultStep
<1>6. ASSUME DeviceTakes \/ \E s \in Sports : \/ DeviceConsumes(s) \/ DeviceResets(s)
                                              \/ \E n \in 0..MaxPayload : DeviceSends(s, n)
      PROVE  UploadInv'
  BY <1>6, DeviceTurn
<1> QED BY <1>2, <1>3, <1>4, <1>5, <1>6 DEF Next

(* The steps of the clients, the pumps and the forwarders. *)
ClientActs == CallShutdown \/ \E c \in Conns : PumpAct(c) \/ ForwarderAct(c) \/ UserAct(c)

DeviceActs ==
  DeviceTakes \/ \E s \in Sports : \/ DeviceConsumes(s) \/ DeviceResets(s)
                                   \/ \E n \in 0..MaxPayload : DeviceSends(s, n)

TaskActs == MuxConnect \/ DataStep \/ Drained \/ PacketStep

LEMMA NextIs == Next => ClientActs \/ TaskActs \/ DeviceActs \/ VersionReply \/ Exit \/ WriteFails
<1> QED BY DEF Next, ClientActs, DeviceActs, TaskActs, MuxShutdown, ReadFails

LEMMA ClientActsOnly ==
  ClientActs => UNCHANGED <<mux, writerUp, nextSport, connections, toDevice, fromDevice, device>>
<1> SUFFICES ASSUME ClientActs
             PROVE  UNCHANGED <<mux, writerUp, nextSport, connections, toDevice, fromDevice, device>>
  OBVIOUS
<1>1. CASE CallShutdown
  BY <1>1 DEF CallShutdown
<1>2. ASSUME NEW c \in Conns, PumpAct(c)
      PROVE UNCHANGED <<mux, writerUp, nextSport, connections, toDevice, fromDevice, device>>
  BY <1>2 DEF PumpAct, PumpChecks, PumpNotified, PumpReads, PumpSends, PumpStep, taskVars
<1>3. ASSUME NEW c \in Conns, ForwarderAct(c)
      PROVE UNCHANGED <<mux, writerUp, nextSport, connections, toDevice, fromDevice, device>>
  BY <1>3 DEF ForwarderAct, ForwarderWrites, ForwarderEnds, ForwarderStep, taskVars
<1>4. ASSUME NEW c \in Conns, UserAct(c)
      PROVE UNCHANGED <<mux, writerUp, nextSport, connections, toDevice, fromDevice, device>>
  BY <1>4 DEF UserAct, CallConnect, UserWrites, UserReads, UserShuts, UserDrops, UserStep, taskVars
<1> QED BY <1>1, <1>2, <1>3, <1>4 DEF ClientActs

LEMMA DeviceActsOnly ==
  DeviceActs => UNCHANGED <<mux, writerUp, nextSport, connections, cmds, dataChan, drainChan,
                            calls, sportOf, pump, pause, permit, forwarder, user>>
<1> QED BY DEF DeviceActs, DeviceTakes, DeviceConsumes, DeviceResets, DeviceSends, DeviceStep

LEMMA TaskActsOnly == TaskActs => mux = "running" /\ UNCHANGED <<mux, writerUp, device>>
<1> SUFFICES ASSUME TaskActs PROVE mux = "running" /\ UNCHANGED <<mux, writerUp, device>>
  OBVIOUS
<1>1. CASE MuxConnect \/ Drained
  BY <1>1 DEF MuxConnect, Drained
<1>2. CASE DataStep
  BY <1>2 DEF DataStep, DataIgnored, DataFromPump, ClientClosed, TakeData
<1>3. CASE PacketStep
  BY <1>3 DEF PacketStep, UnknownConnection, Accepted, Refused, Undeliverable, Received, TakePacket
<1> QED BY <1>1, <1>2, <1>3 DEF TaskActs

LEMMA PipeTypesKept ==
  ASSUME UploadInv, PipeTypes, Next
  PROVE  PipeTypes'
<1>1. CASE ClientActs
  BY <1>1, ClientActsOnly DEF PipeTypes
<1>2. CASE TaskActs
  BY <1>2, TaskActsOnly, TaskStep DEF TaskActs, UploadInv, PipeInv
<1>3. CASE DeviceActs
  <2>1. \A n \in 0..MaxPayload : n \in Nat
    BY Sizes
  <2>2. CASE DeviceTakes
    BY <2>2, TakesPipe
  <2>3. ASSUME NEW s \in Sports, DeviceConsumes(s) \/ DeviceResets(s) PROVE PipeTypes'
    <3>1. 0 \in Nat
      OBVIOUS
    <3> QED BY <2>3, <3>1, DevicePipe
  <2>4. ASSUME NEW s \in Sports, NEW n \in 0..MaxPayload, DeviceSends(s, n) PROVE PipeTypes'
    BY <2>1, <2>4, DevicePipe
  <2> QED BY <1>3, <2>2, <2>3, <2>4 DEF DeviceActs
<1>4. CASE VersionReply
  BY <1>4 DEF VersionReply, PipeTypes
<1>5. CASE Exit
  BY <1>5, ExitPipe
<1>6. CASE WriteFails
  <2>1. PICK n \in 0..Len(toDevice) : toDevice' = SubSeq(toDevice, 1, n)
    BY <1>6 DEF WriteFails
  <2>2. toDevice' \in Seq(Outgoing)
    BY <2>1, OnwardCut DEF PipeTypes
  <2> QED BY <1>6, <2>2 DEF WriteFails, PipeTypes
<1> QED BY <1>1, <1>2, <1>3, <1>4, <1>5, <1>6, NextIs
-----------------------------------------------------------------------------
(* Ports. Each command takes the next port and the task does not look       *)
(* whether it is in use, so what follows holds for as many calls as there   *)
(* are ports: then a port that was not handed out yet is unused.            *)

PortsSuffice == IsFiniteSet(Conns) /\ Cardinality(Conns) <= MaxSport

(* The callers whose command was taken from the channel. *)
Served == {c \in Conns : calls[c] # "idle" /\ \A i \in DOMAIN cmds : cmds[i] # c}

Fresh(s) == s > Cardinality(Served)

PortsInv == mux # "exited" => nextSport = (Cardinality(Served) % MaxSport) + 1

LEMMA ServedFinite ==
  ASSUME PortsSuffice
  PROVE  /\ IsFiniteSet(Served) /\ Cardinality(Served) \in Nat /\ Cardinality(Served) <= MaxSport
         /\ IsFiniteSet(Served') /\ Cardinality(Served') \in Nat /\ Cardinality(Served') <= MaxSport
<1>1. Served \subseteq Conns /\ Served' \subseteq Conns
  BY DEF Served
<1>2. IsFiniteSet(Conns) /\ Cardinality(Conns) \in Nat /\ Cardinality(Conns) <= MaxSport
  BY FS_CardinalityType DEF PortsSuffice
<1> DEFINE S == Served
           T == Served'
<1> HIDE DEF S, T
<1>3. S \subseteq Conns /\ T \subseteq Conns
  BY <1>1 DEF S, T
<1>4. /\ IsFiniteSet(S) /\ Cardinality(S) <= Cardinality(Conns)
      /\ IsFiniteSet(T) /\ Cardinality(T) <= Cardinality(Conns)
  BY <1>2, <1>3, FS_Subset
<1>5. Cardinality(S) \in Nat /\ Cardinality(T) \in Nat
  BY <1>4, FS_CardinalityType
<1>6. Cardinality(S) <= MaxSport /\ Cardinality(T) <= MaxSport
  BY <1>2, <1>4, <1>5, Sizes
<1> QED BY <1>4, <1>5, <1>6 DEF S, T

LEMMA FreshFewer ==
  ASSUME PortsSuffice, Served \subseteq Served', NEW s \in Sports, Fresh(s)'
  PROVE  Fresh(s)
<1> DEFINE S == Served
           T == Served'
<1>1. S \subseteq T /\ IsFiniteSet(T) /\ Cardinality(S) \in Nat /\ Cardinality(T) \in Nat
  BY ServedFinite
<1> HIDE DEF S, T
<1>2. Cardinality(S) <= Cardinality(T)
  BY <1>1, FS_Subset
<1>3. s > Cardinality(T)
  BY DEF Fresh, T
<1>4. s > Cardinality(S)
  BY <1>1, <1>2, <1>3 DEF Sports
<1> QED BY <1>4 DEF Fresh, S

(* Whoever called has called, and the channel holds the same commands. *)
LEMMA ServedSame ==
  ASSUME \A d \in Conns : calls'[d] = "idle" <=> calls[d] = "idle", UNCHANGED cmds
  PROVE  Served' = Served
<1> QED BY DEF Served

LEMMA TornCalls ==
  ASSUME UploadInv, NEW s \in DOMAIN connections, Teardown(s)
  PROVE  \A d \in Conns : calls'[d] = "idle" <=> calls[d] = "idle"
<1>1. calls \in [Conns -> {"idle", "calling", "connected", "refused", "gone"}]
  BY DEF UploadInv, StateInv, ConnectionTypes
<1>2. calls[connections[s].client] # "idle"
  BY DEF UploadInv, StateInv, Tokens
<1> QED BY <1>1, <1>2 DEF Teardown

LEMMA DataCalls ==
  ASSUME UploadInv, DataStep
  PROVE  \A d \in Conns : calls'[d] = "idle" <=> calls[d] = "idle"
<1>1. CASE DataIgnored
  BY <1>1 DEF DataIgnored
<1>2. CASE DataFromPump
  BY <1>2, TornCalls DEF DataFromPump, Connected
<1>3. CASE ClientClosed
  BY <1>3, TornCalls DEF ClientClosed, Connected
<1> QED BY <1>1, <1>2, <1>3 DEF DataStep

LEMMA PacketCalls ==
  ASSUME UploadInv, PacketStep
  PROVE  \A d \in Conns : calls'[d] = "idle" <=> calls[d] = "idle"
<1>1. CASE UnknownConnection
  BY <1>1 DEF UnknownConnection
<1>2. CASE Accepted
  <2>1. calls \in [Conns -> {"idle", "calling", "connected", "refused", "gone"}]
    BY DEF UploadInv, StateInv, ConnectionTypes
  <2> DEFINE c == Heard.client
  <2>2. c = connections[pkt.sport].client
    <3>1. connections[pkt.sport] \in Connection
      BY <1>2 DEF Accepted, UploadInv, StateInv, ConnectionTypes
    <3> QED BY <3>1 DEF Heard, Connection
  <2>3. calls[c] # "idle"
    BY <1>2, <2>2 DEF Accepted, UploadInv, StateInv, Tokens
  <2>4. calls' = [calls EXCEPT ![c] = "connected"] \/ calls' = calls
    BY <1>2 DEF Accepted
  <2> HIDE DEF c
  <2> QED BY <2>1, <2>3, <2>4
<1>3. CASE Refused
  BY <1>3, TornCalls DEF Refused
<1>4. CASE Undeliverable
  BY <1>4, TornCalls DEF Undeliverable, Connected
<1>5. CASE Received
  BY <1>5, TornCalls DEF Received, Connected
<1> QED BY <1>1, <1>2, <1>3, <1>4, <1>5 DEF PacketStep

LEMMA ServedByTask ==
  ASSUME UploadInv, DataStep \/ Drained \/ PacketStep
  PROVE  Served' = Served /\ nextSport' = nextSport /\ mux = "running" /\ mux' = mux
<1>1. UNCHANGED <<cmds, nextSport>>
  <2>1. CASE Drained
    BY <2>1 DEF Drained
  <2>2. CASE DataStep
    BY <2>2, ZenonT(40) DEF DataStep, DataIgnored, DataFromPump, ClientClosed, TakeData
  <2>3. CASE PacketStep
    BY <2>3 DEF PacketStep, UnknownConnection, Accepted, Refused, Undeliverable, Received, TakePacket
  <2> QED BY <2>1, <2>2, <2>3
<1>2. \A d \in Conns : calls'[d] = "idle" <=> calls[d] = "idle"
  <2>1. CASE Drained
    BY <2>1 DEF Drained
  <2> QED BY <2>1, DataCalls, PacketCalls
<1> QED BY <1>1, <1>2, ServedSame, TaskActsOnly DEF TaskActs

LEMMA ServedByCall ==
  ASSUME UploadInv, NEW c \in Conns, CallConnect(c)
  PROVE  Served \subseteq Served' /\ (mux # "exited" => Served' = Served)
<1>1. /\ calls[c] = "idle"
      /\ \A d \in Conns : d # c => calls'[d] = calls[d]
      /\ \/ mux # "exited" /\ cmds' = Append(cmds, c)
         \/ mux = "exited" /\ cmds' = cmds
  BY DEF CallConnect, UploadInv, StateInv, ConnectionTypes
<1>2. cmds \in Seq(Conns \cup {"Shutdown"})
  BY DEF UploadInv, StateInv, ConnectionTypes
<1>3. c \notin Served
  BY <1>1 DEF Served
<1>4. CASE mux # "exited" /\ cmds' = Append(cmds, c)
  <2>1. /\ DOMAIN cmds' = DOMAIN cmds \cup {Len(cmds) + 1}
        /\ \A i \in DOMAIN cmds : cmds'[i] = cmds[i]
        /\ cmds'[Len(cmds) + 1] = c
    BY <1>2, <1>4
  <2>2. c \notin Served'
    BY <2>1 DEF Served
  <2>3. \A d \in Conns : d # c => (d \in Served' <=> d \in Served)
    BY <1>1, <2>1 DEF Served
  <2>4. Served \subseteq Conns /\ Served' \subseteq Conns
    BY DEF Served
  <2> QED BY <1>3, <2>2, <2>3, <2>4
<1>5. CASE mux = "exited" /\ cmds' = cmds
  <2>1. \A d \in Conns : d # c => (d \in Served' <=> d \in Served)
    BY <1>1, <1>5 DEF Served
  <2>2. Served \subseteq Conns /\ Served' \subseteq Conns
    BY DEF Served
  <2> QED BY <1>3, <1>5, <2>1, <2>2
<1> QED BY <1>1, <1>4, <1>5

LEMMA ServedByClient ==
  ASSUME UploadInv, ClientActs
  PROVE  Served \subseteq Served' /\ (mux # "exited" => Served' = Served)
<1>1. CASE CallShutdown
  <2>1. calls' = calls /\ cmds' = Append(cmds, "Shutdown")
    BY <1>1 DEF CallShutdown
  <2>2. cmds \in Seq(Conns \cup {"Shutdown"})
    BY DEF UploadInv, StateInv, ConnectionTypes
  <2>3. /\ DOMAIN cmds' = DOMAIN cmds \cup {Len(cmds) + 1}
        /\ \A i \in DOMAIN cmds : cmds'[i] = cmds[i]
        /\ cmds'[Len(cmds) + 1] = "Shutdown"
    BY <2>1, <2>2
  <2> QED BY <2>1, <2>3, ConnsAssumption DEF Served
<1>2. ASSUME NEW c \in Conns, CallConnect(c)
      PROVE  Served \subseteq Served' /\ (mux # "exited" => Served' = Served)
  BY <1>2, ServedByCall
<1>3. ASSUME UNCHANGED <<calls, cmds>>
      PROVE  Served \subseteq Served' /\ (mux # "exited" => Served' = Served)
  BY <1>3 DEF Served
<1>4. ASSUME NEW c \in Conns, PumpAct(c) PROVE UNCHANGED <<calls, cmds>>
  BY <1>4 DEF PumpAct, PumpChecks, PumpNotified, PumpReads, PumpSends, PumpStep, taskVars
<1>5. ASSUME NEW c \in Conns, ForwarderAct(c) PROVE UNCHANGED <<calls, cmds>>
  BY <1>5 DEF ForwarderAct, ForwarderWrites, ForwarderEnds, ForwarderStep, taskVars
<1>6. ASSUME NEW c \in Conns, UserAct(c), ~CallConnect(c) PROVE UNCHANGED <<calls, cmds>>
  BY <1>6 DEF UserAct, UserWrites, UserReads, UserShuts, UserDrops, UserStep, taskVars
<1> QED BY <1>1, <1>2, <1>3, <1>4, <1>5, <1>6 DEF ClientActs

LEMMA ServedByExit ==
  ASSUME UploadInv, Exit
  PROVE  Served \subseteq Served'
<1>1. \A d \in Conns : calls[d] # "idle" => calls'[d] # "idle"
  BY DEF Exit
<1>2. DOMAIN cmds' = {}
  BY DEF Exit
<1> QED BY <1>1, <1>2 DEF Served

(* The port that a command gets was not handed out before. *)
LEMMA ServedByConnect ==
  ASSUME PortsSuffice, UploadInv, PortsInv, MuxConnect
  PROVE  /\ Served' = Served \cup {Head(cmds)} /\ Head(cmds) \notin Served
         /\ nextSport \in Sports /\ Fresh(nextSport) /\ Cardinality(Served') = nextSport
         /\ PortsInv'
<1> DEFINE c == Head(cmds)
           k == Cardinality(Served)
<1>1. /\ cmds # <<>> /\ c \in Conns /\ cmds' = Tail(cmds) /\ nextSport' = (nextSport % MaxSport) + 1
      /\ mux = "running"
  BY DEF MuxConnect
<1>2. cmds \in Seq(Conns \cup {"Shutdown"}) /\ nextSport \in Sports
      /\ calls \in [Conns -> {"idle", "calling", "connected", "refused", "gone"}]
  BY DEF UploadInv, StateInv, ConnectionTypes
<1>3. /\ 1 \in DOMAIN cmds /\ cmds[1] = c
      /\ \A i \in DOMAIN cmds' : i + 1 \in DOMAIN cmds /\ i + 1 # 1 /\ cmds'[i] = cmds[i + 1]
      /\ \A i \in DOMAIN cmds : i # 1 => i - 1 \in DOMAIN cmds' /\ cmds'[i - 1] = cmds[i]
  BY <1>1, <1>2
<1>4. /\ calls[c] = "calling"
      /\ \A i, j \in DOMAIN cmds : cmds[i] \in Conns /\ cmds[i] = cmds[j] => i = j
  <2>1. cmds[1] \in Conns
    BY <1>1, <1>3
  <2> QED BY <1>3, <2>1 DEF UploadInv, StateInv, Tokens
<1>5. \A i \in DOMAIN cmds' : cmds'[i] # c
  BY <1>1, <1>3, <1>4
<1>6. \A d \in Conns : calls'[d] = "idle" <=> calls[d] = "idle"
  <2>1. \/ \A d \in Conns : calls'[d] = calls[d] \/ (calls[d] = "calling" /\ calls'[d] = "gone")
        \/ calls' = [calls EXCEPT ![c] = "refused"]
    BY DEF MuxConnect
  <2> HIDE DEF c
  <2> QED BY <1>1, <1>2, <1>4, <2>1
<1> HIDE DEF c, k
<1>7. c \notin Served /\ c \in Served'
  BY <1>1, <1>3, <1>4, <1>5, <1>6 DEF Served
<1>8. \A d \in Conns : d # c => (d \in Served' <=> d \in Served)
  <2> TAKE d \in Conns
  <2> HAVE d # c
  <2>1. (\A i \in DOMAIN cmds' : cmds'[i] # d) <=> (\A i \in DOMAIN cmds : cmds[i] # d)
    BY <1>3
  <2> QED BY <1>6, <2>1 DEF Served
<1>9. Served' = Served \cup {c}
  <2>1. Served \subseteq Conns /\ Served' \subseteq Conns
    BY DEF Served
  <2> QED BY <1>1, <1>7, <1>8, <2>1
<1>10. Cardinality(Served') = k + 1 /\ k + 1 <= MaxSport /\ k \in Nat
  <2>1. IsFiniteSet(Served) /\ k \in Nat /\ Cardinality(Served') <= MaxSport
    BY ServedFinite DEF k
  <2> DEFINE S == Served
  <2> HIDE DEF S
  <2>2. Cardinality(S \cup {c}) = Cardinality(S) + 1
    BY <1>7, <2>1, FS_AddElement DEF S
  <2> QED BY <1>9, <2>1, <2>2 DEF S, k
<1>11. nextSport = k + 1
  <2>1. nextSport = (k % MaxSport) + 1
    BY <1>1 DEF PortsInv, k
  <2>2. k % MaxSport = k
    BY <1>10, Sizes
  <2> QED BY <2>1, <2>2
<1>12. Fresh(nextSport)
  BY <1>10, <1>11 DEF Fresh, k
<1>13. PortsInv'
  <2>1. nextSport' = (Cardinality(Served') % MaxSport) + 1
    BY <1>1, <1>10, <1>11
  <2> QED BY <2>1 DEF PortsInv
<1> QED BY <1>2, <1>7, <1>9, <1>10, <1>11, <1>12, <1>13 DEF c

LEMMA ServedKept ==
  ASSUME PortsSuffice, UploadInv, PortsInv, Next
  PROVE  Served \subseteq Served' /\ PortsInv'
<1>1. CASE ClientActs
  <2>1. UNCHANGED <<mux, nextSport>>
    BY <1>1, ClientActsOnly
  <2> QED BY <1>1, <2>1, ServedByClient DEF PortsInv
<1>2. CASE MuxConnect
  BY <1>2, ServedByConnect
<1>3. CASE DataStep \/ Drained \/ PacketStep
  BY <1>3, ServedByTask DEF PortsInv
<1>4. CASE DeviceActs
  BY <1>4, DeviceActsOnly DEF PortsInv, Served
<1>5. CASE VersionReply
  BY <1>5 DEF VersionReply, PortsInv, Served
<1>6. CASE Exit
  <2>1. mux' = "exited"
    BY <1>6 DEF Exit
  <2> QED BY <1>6, <2>1, ServedByExit DEF PortsInv
<1>7. CASE WriteFails
  BY <1>7 DEF WriteFails, PortsInv, Served
<1> QED BY <1>1, <1>2, <1>3, <1>4, <1>5, <1>6, <1>7, NextIs DEF TaskActs
-----------------------------------------------------------------------------
(* The account of one port.                                                *)

(* Bytes on their way to the device. *)
Out(s) == OnPipe(s, Len(toDevice))

Connecting(s) == s \in DOMAIN connections /\ connections[s].state = "Connecting"

Nothing(s) ==
  /\ s \notin DOMAIN connections /\ device[s] = Closed
  /\ \A i \in DOMAIN toDevice : toDevice[i].sport # s
  /\ \A i \in DOMAIN fromDevice : fromDevice[i].sport # s

(* Nothing but a reset is on the pipe with the frame that opens. *)
SynFirst(s) ==
  \A i \in DOMAIN toDevice : toDevice[i].sport = s /\ toDevice[i].flags = "SYN" =>
    /\ ~device[s].open /\ ~Connected(s)
    /\ \A j \in DOMAIN toDevice : j # i /\ toDevice[j].sport = s => toDevice[j].flags = "RST"
    /\ \A j \in DOMAIN fromDevice : fromDevice[j].sport = s => fromDevice[j].flags # "SYN|ACK"

Starting(s) ==
  Connecting(s) =>
    /\ device[s].rcvd = 0 /\ device[s].held = 0
    /\ \A i \in DOMAIN toDevice : toDevice[i].sport = s => toDevice[i].len = 0
    /\ \A i \in DOMAIN fromDevice : fromDevice[i].sport = s => fromDevice[i].ack = 1 % SeqSpace
    /\ writerUp => connections[s].txSeq = 0

InStep(s) ==
  Connected(s) /\ writerUp =>
    /\ Heeds(connections[s].txSeq, connections[s].rxAck, connections[s].rxWin, fromDevice, s,
             Out(s), device[s].held)
    /\ device[s].open => connections[s].txSeq = (1 + device[s].rcvd + Out(s)) % SeqSpace

Room(s) == device[s].held + Out(s) <= DeviceWindow

Gapless(s) == device[s].open => InOrder(toDevice, s, 1 + device[s].rcvd)

UInv(s) ==
  /\ Room(s) /\ Gapless(s) /\ SynFirst(s) /\ Starting(s) /\ InStep(s)
  /\ Fresh(s) => Nothing(s)

DataInv == UploadInv /\ PipeTypes /\ PortsInv /\ \A s \in Sports : UInv(s)

LEMMA RoomIfDataInv == DataInv => DeviceNotOverrun /\ NoGap
<1> SUFFICES ASSUME DataInv PROVE DeviceNotOverrun /\ NoGap
  OBVIOUS
<1>1. DeviceNotOverrun
  BY DEF DataInv, UInv, Room, Out, DeviceNotOverrun
<1>2. NoGap
  <2> SUFFICES ASSUME NEW i \in DOMAIN toDevice, device[toDevice[i].sport].open,
                      toDevice[i].flags = "ACK"
               PROVE  toDevice[i].seq = (1 + device[toDevice[i].sport].rcvd
                                           + OnPipe(toDevice[i].sport, i - 1)) % SeqSpace
    BY DEF NoGap
  <2> DEFINE s == toDevice[i].sport
  <2>1. s \in Sports
    <3>1. toDevice[i] \in Outgoing
      BY DEF DataInv, PipeTypes
    <3> QED BY <3>1 DEF Outgoing
  <2>2. InOrder(toDevice, s, 1 + device[s].rcvd)
    BY <2>1 DEF DataInv, UInv, Gapless
  <2> QED BY <2>2 DEF InOrder, OnPipe
<1> QED BY <1>1, <1>2

LEMMA OutNat ==
  ASSUME PipeTypes, NEW s
  PROVE  Out(s) \in Nat
<1> QED BY CarriedAll DEF PipeTypes, Out, OnPipe

(* What a step does that is not about s, or lets its connection go. *)
Apart(s) ==
  /\ Onward(toDevice', toDevice, s) /\ Out(s)' <= Out(s)
  /\ writerUp' => writerUp /\ Out(s)' = Out(s)
  /\ Among(fromDevice', fromDevice, s)
  /\ device'[s] = device[s]
  /\ s \in DOMAIN connections' =>
       /\ s \in DOMAIN connections /\ connections'[s].state = connections[s].state
       /\ writerUp' => /\ connections'[s].txSeq = connections[s].txSeq
                       /\ connections'[s].rxAck = connections[s].rxAck
                       /\ connections'[s].rxWin = connections[s].rxWin
  /\ Nothing(s) => \A j \in DOMAIN toDevice' : toDevice'[j].sport # s

LEMMA ApartKeeps ==
  ASSUME PipeTypes, PipeTypes', NEW s \in Sports, UInv(s), Apart(s), Fresh(s)' => Fresh(s)
  PROVE  UInv(s)'
<1>0. device[s] \in DeviceEnd /\ Out(s) \in Nat /\ Out(s)' \in Nat /\ device'[s] = device[s]
  <2>1. Out(s)' \in Nat
    <3>1. toDevice' \in Seq(Outgoing)
      BY DEF PipeTypes
    <3> QED BY <3>1, CarriedAll DEF Out, OnPipe
  <2> QED BY <2>1, OutNat DEF PipeTypes, Apart
<1>1. PICK k \in Nat : \A j \in DOMAIN toDevice' : toDevice'[j].sport = s =>
        \/ toDevice'[j].flags = "RST" /\ toDevice'[j].len = 0
        \/ j + k \in DOMAIN toDevice /\ toDevice'[j] = toDevice[j + k]
  BY DEF Apart, Onward
<1>2. PICK m \in Nat : \A j \in DOMAIN fromDevice' : fromDevice'[j].sport = s =>
        j + m \in DOMAIN fromDevice /\ fromDevice'[j] = fromDevice[j + m]
  BY DEF Apart, Among
<1>3. Room(s)'
  <2>1. device[s].held \in Nat /\ device[s].held + Out(s) <= DeviceWindow /\ Out(s)' <= Out(s)
    BY <1>0 DEF UInv, Room, Apart, DeviceEnd
  <2>2. device[s].held + Out(s)' <= DeviceWindow
    BY <1>0, <2>1, Sizes
  <2> QED BY <1>0, <2>2 DEF Room
<1>4. Gapless(s)'
  BY <1>0, InOrderOnward DEF UInv, Gapless, Apart
<1>5. SynFirst(s)'
  <2> SUFFICES ASSUME NEW i \in DOMAIN toDevice', toDevice'[i].sport = s, toDevice'[i].flags = "SYN"
               PROVE  /\ ~device'[s].open /\ ~Connected(s)'
                      /\ \A j \in DOMAIN toDevice' : j # i /\ toDevice'[j].sport = s => toDevice'[j].flags = "RST"
                      /\ \A j \in DOMAIN fromDevice' : fromDevice'[j].sport = s => fromDevice'[j].flags # "SYN|ACK"
    BY DEF SynFirst
  <2>1. i + k \in DOMAIN toDevice /\ toDevice'[i] = toDevice[i + k]
    BY <1>1
  <2>2. /\ ~device[s].open /\ ~Connected(s)
        /\ \A j \in DOMAIN toDevice : j # i + k /\ toDevice[j].sport = s => toDevice[j].flags = "RST"
        /\ \A j \in DOMAIN fromDevice : fromDevice[j].sport = s => fromDevice[j].flags # "SYN|ACK"
    BY <2>1 DEF UInv, SynFirst
  <2>3. ~device'[s].open /\ ~Connected(s)'
    BY <1>0, <2>2 DEF Apart, Connected
  <2>4. \A j \in DOMAIN toDevice' : j # i /\ toDevice'[j].sport = s => toDevice'[j].flags = "RST"
    <3> SUFFICES ASSUME NEW j \in DOMAIN toDevice', j # i, toDevice'[j].sport = s
                 PROVE  toDevice'[j].flags = "RST"
      OBVIOUS
    <3>1. CASE toDevice'[j].flags = "RST"
      BY <3>1
    <3>2. CASE j + k \in DOMAIN toDevice /\ toDevice'[j] = toDevice[j + k]
      <4>1. j \in Int /\ i \in Int
        <5>1. toDevice' \in Seq(Outgoing)
          BY DEF PipeTypes
        <5> QED BY <5>1
      <4>2. j + k # i + k
        BY <4>1
      <4> QED BY <2>2, <3>2, <4>2
    <3> QED BY <1>1, <3>1, <3>2
  <2>5. \A j \in DOMAIN fromDevice' : fromDevice'[j].sport = s => fromDevice'[j].flags # "SYN|ACK"
    BY <1>2, <2>2
  <2> QED BY <2>3, <2>4, <2>5
<1>6. Starting(s)'
  <2> SUFFICES ASSUME Connecting(s)'
               PROVE  /\ device'[s].rcvd = 0 /\ device'[s].held = 0
                      /\ \A i \in DOMAIN toDevice' : toDevice'[i].sport = s => toDevice'[i].len = 0
                      /\ \A i \in DOMAIN fromDevice' :
                           fromDevice'[i].sport = s => fromDevice'[i].ack = 1 % SeqSpace
                      /\ writerUp' => connections'[s].txSeq = 0
    BY DEF Starting
  <2>1. Connecting(s) /\ (writerUp' => writerUp /\ connections'[s].txSeq = connections[s].txSeq)
    BY DEF Connecting, Apart
  <2>2. /\ device[s].rcvd = 0 /\ device[s].held = 0
        /\ \A i \in DOMAIN toDevice : toDevice[i].sport = s => toDevice[i].len = 0
        /\ \A i \in DOMAIN fromDevice : fromDevice[i].sport = s => fromDevice[i].ack = 1 % SeqSpace
        /\ writerUp => connections[s].txSeq = 0
    BY <2>1 DEF UInv, Starting
  <2>3. \A i \in DOMAIN toDevice' : toDevice'[i].sport = s => toDevice'[i].len = 0
    BY <1>1, <2>2
  <2>4. \A i \in DOMAIN fromDevice' : fromDevice'[i].sport = s => fromDevice'[i].ack = 1 % SeqSpace
    BY <1>2, <2>2
  <2> QED BY <1>0, <2>1, <2>2, <2>3, <2>4
<1>7. InStep(s)'
  <2> SUFFICES ASSUME Connected(s)', writerUp'
               PROVE  /\ Heeds(connections[s].txSeq, connections[s].rxAck, connections[s].rxWin, fromDevice, s,
                               Out(s), device[s].held)'
                      /\ device'[s].open => connections'[s].txSeq = (1 + device'[s].rcvd + Out(s)') % SeqSpace
    BY DEF InStep
  <2>1. /\ Connected(s) /\ writerUp /\ Out(s)' = Out(s)
        /\ connections'[s].txSeq = connections[s].txSeq
        /\ connections'[s].rxAck = connections[s].rxAck
        /\ connections'[s].rxWin = connections[s].rxWin
    BY DEF Connected, Apart
  <2>2. /\ Heeds(connections[s].txSeq, connections[s].rxAck, connections[s].rxWin, fromDevice, s,
                 Out(s), device[s].held)
        /\ device[s].open => connections[s].txSeq = (1 + device[s].rcvd + Out(s)) % SeqSpace
    BY <2>1 DEF UInv, InStep
  <2>3. Heeds(connections[s].txSeq, connections[s].rxAck, connections[s].rxWin, fromDevice', s,
              Out(s), device[s].held)
    BY <2>2, HeedsFewer DEF Apart, PipeTypes
  <2> QED BY <1>0, <2>1, <2>2, <2>3
<1>8. Fresh(s)' => Nothing(s)'
  <2> SUFFICES ASSUME Fresh(s)' PROVE Nothing(s)'
    OBVIOUS
  <2>1. Nothing(s)
    BY DEF UInv
  <2>2. s \notin DOMAIN connections' /\ device'[s] = Closed
    BY <1>0, <2>1 DEF Nothing, Apart
  <2>3. \A j \in DOMAIN toDevice' : toDevice'[j].sport # s
    BY <2>1 DEF Apart
  <2>4. \A j \in DOMAIN fromDevice' : fromDevice'[j].sport # s
    BY <1>2, <2>1 DEF Nothing
  <2> QED BY <2>2, <2>3, <2>4 DEF Nothing
<1> QED BY <1>3, <1>4, <1>5, <1>6, <1>7, <1>8 DEF UInv
-----------------------------------------------------------------------------
(* Frames that the mux task puts on the pipe.                              *)

Used == \A s \in Sports : Fresh(s)' => Fresh(s)

(* The connection of s goes, or what it may send stays. *)
Keeps(s) ==
  s \in DOMAIN connections' =>
    /\ s \in DOMAIN connections /\ connections'[s].state = connections[s].state
    /\ writerUp' => /\ connections'[s].txSeq = connections[s].txSeq
                    /\ connections'[s].rxAck = connections[s].rxAck
                    /\ connections'[s].rxWin = connections[s].rxWin

Hears == fromDevice' = fromDevice \/ (fromDevice # <<>> /\ fromDevice' = Tail(fromDevice))

LEMMA HearsAmong ==
  ASSUME PipeTypes, Hears, NEW s
  PROVE  Among(fromDevice', fromDevice, s)
<1>0. fromDevice \in Seq(Incoming)
  BY DEF PipeTypes
<1>1. CASE fromDevice' = fromDevice
  <2>1. \A j \in DOMAIN fromDevice' : j + 0 \in DOMAIN fromDevice /\ fromDevice'[j] = fromDevice[j + 0]
    BY <1>0, <1>1
  <2>2. 0 \in Nat
    OBVIOUS
  <2> QED BY <2>1, <2>2 DEF Among
<1>2. CASE fromDevice # <<>> /\ fromDevice' = Tail(fromDevice)
  <2>1. \A j \in DOMAIN fromDevice' : j + 1 \in DOMAIN fromDevice /\ fromDevice'[j] = fromDevice[j + 1]
    BY <1>0, <1>2
  <2>2. 1 \in Nat
    OBVIOUS
  <2> QED BY <2>1, <2>2 DEF Among
<1> QED BY <1>1, <1>2 DEF Hears

LEMMA ApartIfPut ==
  ASSUME PipeTypes, NEW s \in Sports, NEW F \in Seq(Outgoing), toDevice' = toDevice \o F,
         \A i \in DOMAIN F : F[i].sport = s => F[i].flags = "RST" /\ F[i].len = 0 /\ ~Nothing(s),
         writerUp' => writerUp, Hears \/ fromDevice' = <<>>, device'[s] = device[s], Keeps(s)
  PROVE  Apart(s)
<1>1. toDevice \in Seq(Outgoing)
  BY DEF PipeTypes
<1>2. Onward(toDevice', toDevice, s) /\ Out(s)' = Out(s)
  BY <1>1, OnwardPut DEF Out, OnPipe
<1>3. Among(fromDevice', fromDevice, s)
  <2>1. CASE fromDevice' = <<>>
    <3>1. DOMAIN fromDevice' = {} /\ 0 \in Nat
      BY <2>1
    <3> QED BY <3>1 DEF Among
  <2> QED BY <2>1, HearsAmong
<1>4. Nothing(s) => \A j \in DOMAIN toDevice' : toDevice'[j].sport # s
  <2> SUFFICES ASSUME Nothing(s), NEW j \in DOMAIN toDevice' PROVE toDevice'[j].sport # s
    OBVIOUS
  <2>1. CASE j \in DOMAIN toDevice
    <3>1. toDevice'[j] = toDevice[j]
      BY <1>1, <2>1
    <3> QED BY <2>1, <3>1 DEF Nothing
  <2>2. CASE j \notin DOMAIN toDevice
    <3> DEFINE i == j - Len(toDevice)
    <3>1. i \in DOMAIN F /\ toDevice'[j] = F[i]
      BY <1>1, <2>2
    <3> HIDE DEF i
    <3> QED BY <3>1
  <2> QED BY <2>1, <2>2
<1>5. Out(s) \in Nat
  BY OutNat
<1>6. Out(s)' <= Out(s)
  BY <1>2, <1>5
<1> QED BY <1>2, <1>3, <1>4, <1>6 DEF Apart, Keeps

LEMMA ApartIfQuiet ==
  ASSUME PipeTypes, NEW s \in Sports, toDevice' = toDevice,
         writerUp' => writerUp, Hears \/ fromDevice' = <<>>, device'[s] = device[s], Keeps(s)
  PROVE  Apart(s)
<1> DEFINE F == <<>>
<1>1. F \in Seq(Outgoing) /\ DOMAIN F = {} /\ toDevice' = toDevice \o F
  BY DEF PipeTypes
<1> HIDE DEF F
<1> QED BY <1>1, ApartIfPut

(* A step about port p leaves the other ports alone. *)
LEMMA OthersKept ==
  ASSUME DataInv, PipeTypes', Used, NEW p \in Sports, writerUp' = writerUp, device' = device, Hears,
         NEW Q \in Seq(Outgoing), \A i \in DOMAIN Q : Q[i].sport = p, toDevice' = toDevice \o Q,
         \A q \in DOMAIN connections' : q # p => q \in DOMAIN connections /\ connections'[q] = connections[q],
         UInv(p)'
  PROVE  \A s \in Sports : UInv(s)'
<1> TAKE s \in Sports
<1>1. CASE s = p
  BY <1>1
<1>2. CASE s # p
  <2>1. Keeps(s)
    BY <1>2 DEF Keeps
  <2>2. Apart(s)
    BY <1>2, <2>1, ApartIfPut DEF DataInv
  <2> QED BY <2>2, ApartKeeps DEF DataInv, Used
<1> QED BY <1>1, <1>2

(* Only resets of port p are put, and its connection goes or may send what *)
(* it could.                                                               *)
LEMMA ResetsKept ==
  ASSUME DataInv, PipeTypes', Used, writerUp' => writerUp, device' = device,
         Hears \/ fromDevice' = <<>>,
         NEW Q \in Seq(Outgoing), toDevice' = toDevice \o Q,
         \A i \in DOMAIN Q : Q[i].flags = "RST" /\ Q[i].len = 0 /\ ~Nothing(Q[i].sport),
         \A s \in Sports : Keeps(s)
  PROVE  \A s \in Sports : UInv(s)'
<1> TAKE s \in Sports
<1>1. \A i \in DOMAIN Q : Q[i].sport = s => Q[i].flags = "RST" /\ Q[i].len = 0 /\ ~Nothing(s)
  OBVIOUS
<1>2. Apart(s)
  BY <1>1, ApartIfPut DEF DataInv
<1> QED BY <1>2, ApartKeeps DEF DataInv, Used

LEMMA QuietKept ==
  ASSUME DataInv, PipeTypes', Used, writerUp' => writerUp, device' = device,
         Hears \/ fromDevice' = <<>>, toDevice' = toDevice, \A s \in Sports : Keeps(s)
  PROVE  \A s \in Sports : UInv(s)'
<1> TAKE s \in Sports
<1>2. Apart(s)
  BY ApartIfQuiet DEF DataInv
<1> QED BY <1>2, ApartKeeps DEF DataInv, Used

LEMMA ConnectedFacts ==
  ASSUME NEW s \in Sports, UInv(s), Connected(s), writerUp
  PROVE  /\ ~Fresh(s)
         /\ \A i \in DOMAIN toDevice : toDevice[i].sport = s => toDevice[i].flags # "SYN"
         /\ device[s].open => connections[s].txSeq = (1 + device[s].rcvd + Out(s)) % SeqSpace
         /\ Heeds(connections[s].txSeq, connections[s].rxAck, connections[s].rxWin, fromDevice, s,
                  Out(s), device[s].held)
<1>1. ~Fresh(s)
  BY DEF UInv, Nothing, Connected
<1> QED BY <1>1 DEF UInv, SynFirst, InStep

(* What the host knows when it sends frames Q for conn. *)
Ready(s, conn) ==
  /\ ~Fresh(s)
  /\ \A i \in DOMAIN toDevice : toDevice[i].sport = s => toDevice[i].flags # "SYN"
  /\ device[s].open => conn.txSeq = (1 + device[s].rcvd + Out(s)) % SeqSpace
  /\ Heeds(conn.txSeq, conn.rxAck, conn.rxWin, fromDevice', s, Out(s), device[s].held)

LEMMA HostSends ==
  ASSUME PipeTypes, PipeTypes', Used, NEW s \in Sports, UInv(s), NEW conn \in Connection, NEW Q, NEW next,
         Emits(Q, s, conn, next), Ready(s, conn),
         toDevice' = toDevice \o Q, device'[s] = device[s],
         s \in DOMAIN connections' => /\ connections'[s].state = "Connected"
                                      /\ connections'[s].txSeq = next.txSeq
                                      /\ connections'[s].rxAck = conn.rxAck
                                      /\ connections'[s].rxWin = conn.rxWin
  PROVE  UInv(s)'
<1> DEFINE n == Carried(Q, s, Len(Q))
           o == Out(s)
           h == device[s].held
           r == device[s].rcvd
           x == conn.txSeq
           a == conn.rxAck
           w == conn.rxWin
<1>1. /\ Q \in Seq(Outgoing) /\ n \in Nat
      /\ \A i \in DOMAIN Q : Q[i].sport = s /\ Q[i].flags \in {"ACK", "RST"}
      /\ InOrder(Q, s, x) /\ next.txSeq = (x + n) % SeqSpace
  BY CarriedAll DEF Emits
<1>2. n = 0 \/ n <= w - Lag(x, a)
  BY DEF Emits, Inflight, Lag
<1>3. o \in Nat /\ h \in Nat /\ r \in Nat /\ toDevice \in Seq(Outgoing) /\ fromDevice' \in Seq(Incoming)
  BY OutNat DEF PipeTypes, DeviceEnd
<1>4. x \in Numbers /\ a \in Numbers /\ w \in Int /\ w <= DeviceWindow
  BY DEF Connection
<1>5. Out(s)' = o + n
  <2>1. Len(Q) \in Nat /\ Len(Q) <= Len(Q) /\ Len(toDevice \o Q) = Len(toDevice) + Len(Q)
    BY <1>1, <1>3
  <2>2. Carried(toDevice \o Q, s, Len(toDevice) + Len(Q)) = Carried(toDevice, s, Len(toDevice)) + Carried(Q, s, Len(Q))
    BY <1>1, <1>3, <2>1, CarriedsJoined, Zenon
  <2> QED BY <2>1, <2>2 DEF Out, OnPipe
<1>6. /\ Heeds((x + n) % SeqSpace, a, w, fromDevice', s, o + n, h)
      /\ n > 0 => o + n + h <= DeviceWindow
  <2>1. Heeds(x, a, w, fromDevice', s, o, h)
    BY DEF Ready
  <2> HIDE DEF n, o, h, x, a, w
  <2> QED BY <1>1, <1>2, <1>3, <1>4, <2>1, HeedsSend
<1>7. Room(s)'
  <2>1. h + o <= DeviceWindow
    BY DEF UInv, Room
  <2> HIDE DEF n, o, h
  <2>2. h + (o + n) <= DeviceWindow
    BY <1>1, <1>3, <1>6, <2>1, Sizes
  <2>3. device'[s].held = h
    BY DEF h
  <2> QED BY <1>5, <2>2, <2>3 DEF Room
<1>8. Gapless(s)'
  <2> SUFFICES ASSUME device[s].open PROVE InOrder(toDevice \o Q, s, 1 + r)
    BY DEF Gapless
  <2>1. InOrder(toDevice, s, 1 + r)
    BY DEF UInv, Gapless
  <2>2. x = ((1 + r) + Carried(toDevice, s, Len(toDevice))) % SeqSpace
    BY DEF Ready, Out, OnPipe
  <2>3. InOrder(Q, s, ((1 + r) + Carried(toDevice, s, Len(toDevice))) % SeqSpace)
    BY <1>1, <2>2
  <2> DEFINE y == 1 + r
  <2>4. y \in Nat
    BY <1>3
  <2> HIDE DEF y, r
  <2>5. InOrder(toDevice, s, y) /\ InOrder(Q, s, (y + Carried(toDevice, s, Len(toDevice))) % SeqSpace)
    BY <2>1, <2>3 DEF y
  <2>6. InOrder(toDevice \o Q, s, y)
    BY <1>1, <1>3, <2>4, <2>5, InOrderJoined
  <2> QED BY <2>6 DEF y
<1>9. SynFirst(s)'
  <2> SUFFICES ASSUME NEW i \in DOMAIN toDevice', toDevice'[i].sport = s, toDevice'[i].flags = "SYN"
               PROVE  FALSE
    BY DEF SynFirst
  <2>1. CASE i \in DOMAIN toDevice
    <3>1. toDevice'[i] = toDevice[i]
      BY <1>1, <1>3, <2>1
    <3> QED BY <2>1, <3>1 DEF Ready
  <2>2. CASE i \notin DOMAIN toDevice
    <3> DEFINE j == i - Len(toDevice)
    <3>1. j \in DOMAIN Q /\ toDevice'[i] = Q[j]
      BY <1>1, <1>3, <2>2
    <3> HIDE DEF j
    <3> QED BY <1>1, <3>1
  <2> QED BY <2>1, <2>2
<1>10. Starting(s)'
  BY DEF Starting, Connecting
<1>11. InStep(s)'
  <2> SUFFICES ASSUME Connected(s)', writerUp'
               PROVE  /\ Heeds(connections[s].txSeq, connections[s].rxAck, connections[s].rxWin, fromDevice, s,
                               Out(s), device[s].held)'
                      /\ device'[s].open => connections'[s].txSeq = (1 + device'[s].rcvd + Out(s)') % SeqSpace
    BY DEF InStep
  <2>1. connections'[s].txSeq = (x + n) % SeqSpace /\ connections'[s].rxAck = a /\ connections'[s].rxWin = w
    BY <1>1 DEF Connected
  <2>2. Heeds(connections[s].txSeq, connections[s].rxAck, connections[s].rxWin, fromDevice, s,
              Out(s), device[s].held)'
    BY <1>5, <1>6, <2>1
  <2>3. ASSUME device[s].open PROVE (x + n) % SeqSpace = (1 + r + (o + n)) % SeqSpace
    <3>1. x = (1 + r + o) % SeqSpace
      BY <2>3 DEF Ready
    <3>5. n \in Nat /\ r \in Nat /\ o \in Nat
      BY <1>1, <1>3
    <3> DEFINE y == 1 + r + o
    <3> HIDE DEF x, n, r, o
    <3>2. y \in Nat /\ y + n = 1 + r + (o + n)
      BY <3>5
    <3>3. x = y % SeqSpace
      BY <3>1
    <3> HIDE DEF y
    <3>4. ((y % SeqSpace) + n) % SeqSpace = (y + n) % SeqSpace
      BY <3>2, <3>5, ModAdded
    <3> QED BY <3>2, <3>3, <3>4
  <2> QED BY <1>5, <2>1, <2>2, <2>3
<1>12. ~Fresh(s)'
  BY DEF Used, Ready
<1> QED BY <1>7, <1>8, <1>9, <1>10, <1>11, <1>12 DEF UInv
-----------------------------------------------------------------------------
(* The steps of the mux task that concern the pumps' channels.             *)

LEMMA FlushNothing ==
  ASSUME NEW conn, Sendable(conn) = 0, NEW s
  PROVE  FlushFrames(s, conn) = <<>>
<1>1. (0 + MaxPayload - 1) \div MaxPayload = 0
  BY Sizes
<1>2. FlushFrames(s, conn) = [i \in 1..0 |->
         Frame(s, [conn EXCEPT !.txSeq = (@ + (i - 1) * MaxPayload) % SeqSpace],
               "ACK", Least(MaxPayload, 0 - (i - 1) * MaxPayload))]
  BY <1>1 DEF FlushFrames
<1> DEFINE F == FlushFrames(s, conn)
<1>3. DOMAIN F = {} /\ F = [i \in DOMAIN F |-> F[i]]
  BY <1>2
<1> HIDE DEF F
<1>4. F = <<>>
  BY <1>3
<1> QED BY <1>4 DEF F

LEMMA Torn ==
  ASSUME NEW p \in DOMAIN connections, Teardown(p)
  PROVE  /\ p \notin DOMAIN connections'
         /\ \A q \in DOMAIN connections' : q \in DOMAIN connections /\ connections'[q] = connections[q]
         /\ \A s \in Sports : Keeps(s)
<1>1. /\ p \notin DOMAIN connections'
      /\ \A q \in DOMAIN connections' : q \in DOMAIN connections /\ connections'[q] = connections[q]
  BY DEF Teardown, Without
<1> QED BY <1>1 DEF Keeps

LEMMA SendsKept ==
  ASSUME DataInv, PipeTypes', Used, NEW p \in Sports, NEW conn \in Connection, NEW Q, NEW next,
         Emits(Q, p, conn, next), Ready(p, conn), toDevice' = toDevice \o Q,
         writerUp' = writerUp, device' = device, Hears,
         p \in DOMAIN connections' => /\ connections'[p].state = "Connected"
                                      /\ connections'[p].txSeq = next.txSeq
                                      /\ connections'[p].rxAck = conn.rxAck
                                      /\ connections'[p].rxWin = conn.rxWin,
         \A q \in DOMAIN connections' : q # p => q \in DOMAIN connections /\ connections'[q] = connections[q]
  PROVE  \A s \in Sports : UInv(s)'
<1>1. UInv(p)'
  BY HostSends DEF DataInv
<1>2. Q \in Seq(Outgoing) /\ \A i \in DOMAIN Q : Q[i].sport = p
  BY DEF Emits
<1> QED BY <1>1, <1>2, OthersKept

LEMMA ReadyStill ==
  ASSUME DataInv, NEW p \in Sports, Connected(p), writerUp, fromDevice' = fromDevice, NEW conn,
         conn.txSeq = connections[p].txSeq, conn.rxAck = connections[p].rxAck,
         conn.rxWin = connections[p].rxWin
  PROVE  Ready(p, conn)
<1>1. UInv(p)
  BY DEF DataInv
<1> QED BY <1>1, ConnectedFacts DEF Ready

LEMMA ReadyHeard ==
  ASSUME DataInv, NEW p \in Sports, Connected(p), writerUp, fromDevice # <<>>, pkt.sport = p,
         fromDevice' = Tail(fromDevice), NEW conn,
         conn.txSeq = connections[p].txSeq, conn.rxAck = pkt.ack, conn.rxWin = pkt.win
  PROVE  Ready(p, conn)
<1>1. UInv(p) /\ fromDevice \in Seq(Incoming)
  BY DEF DataInv, PipeTypes
<1>2. /\ ~Fresh(p)
      /\ \A i \in DOMAIN toDevice : toDevice[i].sport = p => toDevice[i].flags # "SYN"
      /\ device[p].open => connections[p].txSeq = (1 + device[p].rcvd + Out(p)) % SeqSpace
      /\ Heeds(connections[p].txSeq, connections[p].rxAck, connections[p].rxWin, fromDevice, p,
               Out(p), device[p].held)
  BY <1>1, ConnectedFacts
<1>3. Heeds(connections[p].txSeq, pkt.ack, pkt.win, Tail(fromDevice), p, Out(p), device[p].held)
  BY <1>1, <1>2, HeedsHeard DEF pkt
<1> QED BY <1>2, <1>3 DEF Ready

LEMMA PortUp ==
  ASSUME DataInv, NEW p, Connected(p)
  PROVE  /\ p \in Sports /\ p \in DOMAIN connections /\ connections[p] \in Connection
         /\ connections[p].state = "Connected"
<1> QED BY DEF DataInv, UploadInv, StateInv, ConnectionTypes, Connected

LEMMA FromPumpData ==
  ASSUME DataInv, PipeTypes', Used, DataFromPump
  PROVE  \A s \in Sports : UInv(s)'
<1> DEFINE p == Head(dataChan)[1]
           n == Head(dataChan)[2]
           old == connections[p]
           conn == [old EXCEPT !.pending = @ + n]
<1>1. /\ dataChan # <<>> /\ UNCHANGED <<writerUp, fromDevice, device>>
      /\ Connected(p)
      /\ \/ /\ writerUp \/ Sendable(conn) = 0
            /\ toDevice' = toDevice \o FlushFrames(p, conn)
            /\ connections' = [connections EXCEPT ![p] = Flushed(conn)]
         \/ /\ ~writerUp /\ Teardown(p) /\ toDevice' = toDevice
  BY DEF DataFromPump, TakeData
<1>2. n \in Nat
  BY <1>1 DEF DataInv, UploadInv, ChannelTypes
<1>3. p \in Sports /\ p \in DOMAIN connections /\ old \in Connection /\ old.state = "Connected"
  BY <1>1, PortUp
<1>4. /\ conn \in Connection /\ conn.state = "Connected" /\ conn.txSeq = old.txSeq
      /\ conn.rxAck = old.rxAck /\ conn.rxWin = old.rxWin
  <2> HIDE DEF n, old
  <2>1. conn \in Connection
    BY <1>2, <1>3 DEF Connection
  <2> QED BY <1>3, <2>1 DEF Connection
<1> HIDE DEF conn, n
<1>5. CASE writerUp
  <2>1. /\ toDevice' = toDevice \o FlushFrames(p, conn)
        /\ connections' = [connections EXCEPT ![p] = Flushed(conn)]
    BY <1>1, <1>5
  <2>2. Emits(FlushFrames(p, conn), p, conn, Flushed(conn))
    BY <1>3, <1>4, FlushEmits
  <2>3. Ready(p, conn)
    BY <1>1, <1>3, <1>4, <1>5, ReadyStill
  <2>4. connections'[p] = Flushed(conn)
    BY <1>3, <2>1
  <2>5. Flushed(conn).state = "Connected" /\ Flushed(conn).rxAck = conn.rxAck /\ Flushed(conn).rxWin = conn.rxWin
    BY <1>4, FlushedFields
  <2>6. \A q \in DOMAIN connections' : q # p => q \in DOMAIN connections /\ connections'[q] = connections[q]
    BY <2>1
  <2> HIDE DEF p
  <2> QED BY <1>1, <1>3, <1>4, <2>1, <2>2, <2>3, <2>4, <2>5, <2>6, SendsKept DEF Hears
<1>6. CASE ~writerUp
  <2>1. toDevice' = toDevice
    <3>1. toDevice \o <<>> = toDevice
      BY DEF DataInv, PipeTypes
    <3> QED BY <1>1, <1>6, <3>1, FlushNothing
  <2>2. \A s \in Sports : Keeps(s)
    <3>1. CASE connections' = [connections EXCEPT ![p] = Flushed(conn)]
      <4>1. Flushed(conn).state = "Connected"
        BY <1>4, FlushedFields
      <4> QED BY <1>1, <1>3, <1>6, <3>1, <4>1 DEF Keeps
    <3>2. CASE Teardown(p)
      BY <1>3, <3>2, Torn
    <3> QED BY <1>1, <3>1, <3>2
  <2> QED BY <1>1, <2>1, <2>2, QuietKept DEF Hears
<1> QED BY <1>5, <1>6

LEMMA ThenReset ==
  ASSUME NEW conn \in Connection, NEW mid \in Connection, NEW s \in Sports, NEW P, Emits(P, s, conn, mid)
  PROVE  Emits(P \o <<Frame(s, mid, "RST", 0)>>, s, conn, mid)
<1> DEFINE Q == <<Frame(s, mid, "RST", 0)>>
<1>1. Emits(Q, s, mid, mid) /\ Carried(Q, s, Len(Q)) = 0
  BY ControlEmits
<1> HIDE DEF Q
<1>2. Emits(P \o Q, s, conn, mid)
  BY <1>1, EmitsBoth
<1> QED BY <1>2 DEF Q

LEMMA PutTwice ==
  ASSUME NEW P \in Seq(Outgoing), NEW Q \in Seq(Outgoing), NEW R \in Seq(Outgoing)
  PROVE  (P \o Q) \o R = P \o (Q \o R)
<1> QED BY ConcatAssociative

LEMMA ClosedData ==
  ASSUME DataInv, PipeTypes', Used, ClientClosed
  PROVE  \A s \in Sports : UInv(s)'
<1> DEFINE p == Head(dataChan)[1]
           old == connections[p]
           conn == [old EXCEPT !.clientClosed = TRUE]
           rst == <<Frame(p, Flushed(conn), "RST", 0)>>
<1>1. /\ UNCHANGED <<writerUp, fromDevice, device>>
      /\ Connected(p)
      /\ \/ /\ writerUp \/ Sendable(conn) = 0
            /\ toDevice' = toDevice \o FlushFrames(p, conn)
            /\ connections' = [connections EXCEPT ![p] = Flushed(conn)]
         \/ /\ toDevice' = IF writerUp THEN toDevice \o FlushFrames(p, conn) \o rst ELSE toDevice
            /\ Teardown(p)
  BY DEF ClientClosed, TakeData
<1>3. p \in Sports /\ p \in DOMAIN connections /\ old \in Connection /\ old.state = "Connected"
  BY <1>1, PortUp
<1>4. /\ conn \in Connection /\ conn.state = "Connected" /\ conn.txSeq = old.txSeq
      /\ conn.rxAck = old.rxAck /\ conn.rxWin = old.rxWin
  <2> HIDE DEF old
  <2>1. conn \in Connection
    BY <1>3 DEF Connection
  <2> QED BY <1>3, <2>1 DEF Connection
<1> HIDE DEF conn
<1>5. CASE writerUp
  <2>2. Emits(FlushFrames(p, conn), p, conn, Flushed(conn)) /\ Flushed(conn) \in Connection
    BY <1>3, <1>4, FlushEmits, FlushedFields
  <2>3. Ready(p, conn)
    BY <1>1, <1>3, <1>4, <1>5, ReadyStill
  <2>5. Flushed(conn).state = "Connected" /\ Flushed(conn).rxAck = conn.rxAck /\ Flushed(conn).rxWin = conn.rxWin
    BY <1>4, FlushedFields
  <2>7. CASE /\ toDevice' = toDevice \o FlushFrames(p, conn)
             /\ connections' = [connections EXCEPT ![p] = Flushed(conn)]
    <3>1. connections'[p] = Flushed(conn)
      BY <1>3, <2>7
    <3>2. \A q \in DOMAIN connections' : q # p => q \in DOMAIN connections /\ connections'[q] = connections[q]
      BY <2>7
    <3> HIDE DEF p
    <3> QED BY <1>1, <1>3, <1>4, <2>2, <2>3, <2>5, <2>7, <3>1, <3>2, SendsKept DEF Hears
  <2>8. CASE toDevice' = toDevice \o FlushFrames(p, conn) \o rst /\ Teardown(p)
    <3> DEFINE F == FlushFrames(p, conn)
    <3>1. Emits(F \o rst, p, conn, Flushed(conn)) /\ F \in Seq(Outgoing) /\ rst \in Seq(Outgoing)
      <4>1. Emits(F \o rst, p, conn, Flushed(conn))
        BY <1>3, <1>4, <2>2, ThenReset
      <4>2. Frame(p, Flushed(conn), "RST", 0) \in Outgoing
        BY <1>3, <2>2, FrameIsOutgoing DEF Flags
      <4> QED BY <2>2, <4>1, <4>2 DEF Emits
    <3>2. p \notin DOMAIN connections'
          /\ \A q \in DOMAIN connections' : q # p => q \in DOMAIN connections /\ connections'[q] = connections[q]
      BY <1>3, <2>8, Torn
    <3> DEFINE Q == F \o rst
    <3> HIDE DEF p, F, rst
    <3>3. toDevice' = toDevice \o Q
      <4>1. (toDevice \o F) \o rst = toDevice \o (F \o rst)
        BY <3>1, PutTwice DEF DataInv, PipeTypes
      <4> QED BY <2>8, <4>1 DEF F
    <3> HIDE DEF Q
    <3>4. Emits(Q, p, conn, Flushed(conn))
      BY <3>1 DEF Q
    <3> QED BY <1>1, <1>3, <1>4, <2>3, <3>2, <3>3, <3>4, SendsKept, SMTT(30) DEF Hears
  <2> QED BY <1>1, <1>5, <2>7, <2>8
<1>6. CASE ~writerUp
  <2>1. toDevice' = toDevice
    <3>1. toDevice \o <<>> = toDevice
      BY DEF DataInv, PipeTypes
    <3> QED BY <1>1, <1>6, <3>1, FlushNothing
  <2>2. \A s \in Sports : Keeps(s)
    <3>1. CASE connections' = [connections EXCEPT ![p] = Flushed(conn)]
      <4>1. Flushed(conn).state = "Connected"
        BY <1>4, FlushedFields
      <4> QED BY <1>1, <1>3, <1>6, <3>1, <4>1 DEF Keeps
    <3>2. CASE Teardown(p)
      BY <1>3, <3>2, Torn
    <3> QED BY <1>1, <3>1, <3>2
  <2> QED BY <1>1, <2>1, <2>2, QuietKept DEF Hears
<1> QED BY <1>5, <1>6

LEMMA DataData ==
  ASSUME DataInv, PipeTypes', Used, DataStep
  PROVE  \A s \in Sports : UInv(s)'
<1>1. CASE DataIgnored
  <2>1. UNCHANGED <<writerUp, fromDevice, device, toDevice, connections>>
    BY <1>1 DEF DataIgnored, TakeData
  <2>2. \A s \in Sports : Keeps(s)
    BY <2>1 DEF Keeps
  <2> QED BY <2>1, <2>2, QuietKept DEF Hears
<1> QED BY <1>1, FromPumpData, ClosedData DEF DataStep

LEMMA DrainedData ==
  ASSUME DataInv, PipeTypes', Used, Drained
  PROVE  \A s \in Sports : UInv(s)'
<1> DEFINE p == Head(drainChan)[1]
           old == connections[p]
           held == Less(old.rxBuffered, Head(drainChan)[2])
           conn == [old EXCEPT !.rxBuffered = held]
           Q == <<Frame(p, conn, "ACK", 0)>>
<1>1. drainChan # <<>> /\ UNCHANGED <<writerUp, fromDevice, device>>
  BY DEF Drained
<1>2. CASE p \notin DOMAIN connections
  <2>1. UNCHANGED <<connections, toDevice>>
    BY <1>2 DEF Drained
  <2>2. \A s \in Sports : Keeps(s)
    BY <2>1 DEF Keeps
  <2> QED BY <1>1, <2>1, <2>2, QuietKept DEF Hears
<1>3. CASE p \in DOMAIN connections
  <2>1. /\ connections' = [connections EXCEPT ![p] = conn]
        /\ \/ toDevice' = toDevice
           \/ writerUp /\ conn.state = "Connected" /\ toDevice' = Append(toDevice, Frame(p, conn, "ACK", 0))
    BY <1>3 DEF Drained
  <2>2. p \in Sports /\ old \in Connection
    BY <1>3 DEF DataInv, UploadInv, StateInv, ConnectionTypes
  <2>3. held \in Nat
    <3>1. Head(drainChan)[2] \in Nat
      BY <1>1 DEF DataInv, UploadInv, ChannelTypes
    <3> QED BY <2>2, <3>1 DEF Less, Connection
  <2>4. /\ conn \in Connection /\ conn.state = old.state /\ conn.txSeq = old.txSeq
        /\ conn.rxAck = old.rxAck /\ conn.rxWin = old.rxWin
    <3> HIDE DEF held, old
    <3>1. conn \in Connection
      BY <2>2, <2>3 DEF Connection
    <3> QED BY <2>2, <3>1 DEF Connection
  <2> HIDE DEF conn
  <2>5. connections'[p] = conn
        /\ \A q \in DOMAIN connections' : q # p => q \in DOMAIN connections /\ connections'[q] = connections[q]
    BY <1>3, <2>1
  <2>6. CASE toDevice' = toDevice
    <3>1. \A s \in Sports : Keeps(s)
      BY <1>3, <2>1, <2>4 DEF Keeps
    <3> QED BY <1>1, <2>6, <3>1, QuietKept DEF Hears
  <2>7. CASE writerUp /\ conn.state = "Connected" /\ toDevice' = Append(toDevice, Frame(p, conn, "ACK", 0))
    <3>1. Connected(p)
      BY <1>3, <2>4, <2>7 DEF Connected
    <3>2. Ready(p, conn)
      BY <1>1, <2>2, <2>4, <2>7, <3>1, ReadyStill
    <3>3. Emits(Q, p, conn, conn)
      BY <2>2, <2>4, ControlEmits
    <3>4. toDevice' = toDevice \o Q
      <4>1. Frame(p, conn, "ACK", 0) \in Outgoing
        BY <2>2, <2>4, FrameIsOutgoing DEF Flags
      <4> QED BY <2>7, <4>1, OneFrame
    <3> HIDE DEF p, Q
    <3> QED BY <1>1, <2>2, <2>4, <2>5, <2>7, <3>2, <3>3, <3>4, SendsKept DEF Hears
  <2> QED BY <2>1, <2>6, <2>7
<1> QED BY <1>2, <1>3
-----------------------------------------------------------------------------
(* The steps of the mux task that take a packet.                           *)

LEMMA PacketIn ==
  ASSUME DataInv, TakePacket
  PROVE  /\ Hears /\ fromDevice # <<>> /\ fromDevice' = Tail(fromDevice)
         /\ UNCHANGED <<writerUp, device>>
         /\ pkt \in Incoming /\ pkt.sport \in Sports /\ ~Nothing(pkt.sport)
<1>1. fromDevice # <<>> /\ fromDevice' = Tail(fromDevice) /\ UNCHANGED <<writerUp, device>>
  BY DEF TakePacket
<1>2. pkt \in Incoming /\ 1 \in DOMAIN fromDevice /\ fromDevice[1] = pkt
  BY <1>1 DEF DataInv, PipeTypes, pkt
<1>3. pkt.sport \in Sports
  BY <1>2 DEF Incoming
<1>4. ~Nothing(pkt.sport)
  BY <1>2 DEF Nothing
<1> QED BY <1>1, <1>2, <1>3, <1>4 DEF Hears

LEMMA ResetPut ==
  ASSUME DataInv, PipeTypes', Used, TakePacket, NEW f,
         f.flags = "RST" /\ f.len = 0 /\ ~Nothing(f.sport),
         toDevice' = (IF writerUp THEN Append(toDevice, f) ELSE toDevice) \/ toDevice' = toDevice,
         \A s \in Sports : Keeps(s)
  PROVE  \A s \in Sports : UInv(s)'
<1>1. CASE toDevice' = toDevice
  BY <1>1, PacketIn, QuietKept
<1>2. CASE toDevice' = Append(toDevice, f)
  <2> DEFINE Q == <<f>>
  <2>1. f \in Outgoing
    <3>1. toDevice' \in Seq(Outgoing) /\ toDevice \in Seq(Outgoing)
      BY DEF PipeTypes, DataInv
    <3>2. toDevice'[Len(toDevice) + 1] = f /\ Len(toDevice) + 1 \in DOMAIN toDevice'
      BY <1>2, <3>1
    <3> QED BY <3>1, <3>2
  <2>2. toDevice' = toDevice \o Q /\ Q \in Seq(Outgoing)
    BY <1>2, <2>1, OneFrame
  <2>3. \A i \in DOMAIN Q : Q[i].flags = "RST" /\ Q[i].len = 0 /\ ~Nothing(Q[i].sport)
    <3>1. \A i \in DOMAIN Q : Q[i] = f
      OBVIOUS
    <3> HIDE DEF Q
    <3> QED BY <3>1
  <2>4. Hears /\ writerUp' = writerUp /\ device' = device
    BY PacketIn
  <2> HIDE DEF Q
  <2> QED BY <2>2, <2>3, <2>4, ResetsKept
<1> QED BY <1>1, <1>2

LEMMA UnknownData ==
  ASSUME DataInv, PipeTypes', Used, UnknownConnection
  PROVE  \A s \in Sports : UInv(s)'
<1> DEFINE anon == [txSeq |-> 0, txAck |-> pkt.seq, rxBuffered |-> 0]
           f == Frame(pkt.sport, anon, "RST", 0)
<1>1. TakePacket /\ connections' = connections
  BY DEF UnknownConnection
<1>2. f.flags = "RST" /\ f.len = 0 /\ f.sport = pkt.sport
  BY DEF Frame
<1>3. toDevice' = (IF writerUp THEN Append(toDevice, f) ELSE toDevice) \/ toDevice' = toDevice
  BY DEF UnknownConnection
<1>4. \A s \in Sports : Keeps(s)
  BY <1>1 DEF Keeps
<1> HIDE DEF f
<1> QED BY <1>1, <1>2, <1>3, <1>4, PacketIn, ResetPut

LEMMA TornData ==
  ASSUME DataInv, PipeTypes', Used, Refused \/ Undeliverable
  PROVE  \A s \in Sports : UInv(s)'
<1> DEFINE f == Frame(pkt.sport, Heard, "RST", 0)
<1>1. TakePacket /\ pkt.sport \in DOMAIN connections /\ Teardown(pkt.sport)
      /\ (toDevice' = (IF writerUp THEN Append(toDevice, f) ELSE toDevice) \/ toDevice' = toDevice)
  BY DEF Refused, Undeliverable, Connected
<1>2. f.flags = "RST" /\ f.len = 0 /\ f.sport = pkt.sport
  BY DEF Frame
<1>3. \A s \in Sports : Keeps(s)
  BY <1>1, Torn
<1> HIDE DEF f
<1> QED BY <1>1, <1>2, <1>3, PacketIn, ResetPut

LEMMA HeardIs ==
  ASSUME DataInv, TakePacket, pkt.sport \in DOMAIN connections
  PROVE  /\ Heard \in Connection /\ Heard.client = connections[pkt.sport].client
         /\ Heard.state = connections[pkt.sport].state /\ Heard.txSeq = connections[pkt.sport].txSeq
         /\ Heard.rxAck = pkt.ack /\ Heard.rxWin = pkt.win
<1>1. fromDevice # <<>> /\ ConnectionTypes /\ PipeTypes
  BY DEF TakePacket, DataInv, UploadInv, StateInv
<1>2. Heard \in Connection /\ Heard.client = connections[pkt.sport].client
      /\ Heard.state = connections[pkt.sport].state
  BY <1>1, HeardFields
<1>3. connections[pkt.sport] \in Connection
  BY <1>1 DEF ConnectionTypes
<1>4. Heard.txSeq = connections[pkt.sport].txSeq /\ Heard.rxAck = pkt.ack /\ Heard.rxWin = pkt.win
  BY <1>3 DEF Heard, Connection
<1> QED BY <1>2, <1>4

LEMMA AcceptedData ==
  ASSUME DataInv, PipeTypes', Used, Accepted
  PROVE  \A s \in Sports : UInv(s)'
<1> DEFINE p == pkt.sport
           seq == (Heard.txSeq + 1) % SeqSpace
           conn == [Heard EXCEPT !.txSeq = seq, !.txAck = (@ + 1) % SeqSpace]
           Q == <<Frame(p, conn, "ACK", 0)>>
<1>1. /\ TakePacket /\ p \in DOMAIN connections /\ Heard.state = "Connecting" /\ pkt.flags = "SYN|ACK"
      /\ \/ /\ writerUp /\ toDevice' = toDevice \o Q
            /\ connections' = [connections EXCEPT ![p] = [conn EXCEPT !.state = "Connected"]]
         \/ /\ ~writerUp /\ toDevice' = toDevice
            /\ connections' = [connections EXCEPT ![p] = conn]
  BY DEF Accepted, Emit
<1>2. /\ Hears /\ fromDevice # <<>> /\ fromDevice' = Tail(fromDevice) /\ UNCHANGED <<writerUp, device>>
      /\ pkt \in Incoming /\ p \in Sports
  BY <1>1, PacketIn
<1>3. /\ Heard \in Connection /\ Heard.state = connections[p].state /\ Heard.txSeq = connections[p].txSeq
      /\ Heard.rxAck = pkt.ack /\ Heard.rxWin = pkt.win
  BY <1>1, HeardIs
<1>4. /\ conn \in Connection /\ conn.state = "Connecting" /\ conn.txSeq = seq
      /\ conn.rxAck = pkt.ack /\ conn.rxWin = pkt.win
      /\ [conn EXCEPT !.state = "Connected"].state = "Connected"
      /\ [conn EXCEPT !.state = "Connected"].txSeq = seq
      /\ [conn EXCEPT !.state = "Connected"].rxAck = pkt.ack
      /\ [conn EXCEPT !.state = "Connected"].rxWin = pkt.win
  <2>1. seq \in Numbers /\ (Heard.txAck + 1) % SeqSpace \in Numbers
    BY <1>3, ModRange DEF Connection, Numbers
  <2> HIDE DEF seq
  <2> QED BY <1>1, <1>3, <2>1 DEF Connection
<1> HIDE DEF conn
<1>5. CASE ~writerUp
  <2>1. \A s \in Sports : Keeps(s)
    BY <1>1, <1>2, <1>3, <1>4, <1>5 DEF Keeps
  <2> QED BY <1>1, <1>2, <1>5, <2>1, QuietKept
<1>6. CASE writerUp
  <2>1. /\ device[p].rcvd = 0 /\ device[p].held = 0
        /\ \A i \in DOMAIN toDevice : toDevice[i].sport = p => toDevice[i].len = 0
        /\ \A i \in DOMAIN fromDevice : fromDevice[i].sport = p => fromDevice[i].ack = 1 % SeqSpace
        /\ connections[p].txSeq = 0
    <3>1. Starting(p) /\ Connecting(p)
      BY <1>1, <1>2, <1>3 DEF DataInv, UInv, Connecting
    <3> QED BY <1>6, <3>1 DEF Starting
  <2>2. Out(p) = 0
    <3>1. toDevice \in Seq(Outgoing) /\ Len(toDevice) \in Nat /\ Len(toDevice) <= Len(toDevice)
      BY DEF DataInv, PipeTypes
    <3>2. \A i \in 1..Len(toDevice) : toDevice[i].sport = p => toDevice[i].len = 0
      BY <2>1, <3>1
    <3> QED BY <3>1, <3>2, CarriedNone DEF Out, OnPipe
  <2>3. fromDevice \in Seq(Incoming) /\ 1 \in DOMAIN fromDevice /\ fromDevice[1] = pkt
    BY <1>2 DEF DataInv, PipeTypes, pkt
  <2>4. pkt.ack = 1 % SeqSpace /\ seq = 1 % SeqSpace
    <3>1. seq = (0 + 1) % SeqSpace
      BY <1>3, <2>1
    <3> QED BY <2>1, <2>3, <3>1
  <2>5. \A i \in DOMAIN toDevice : toDevice[i].sport = p => toDevice[i].flags # "SYN"
    <3>1. SynFirst(p)
      BY <1>2 DEF DataInv, UInv
    <3> QED BY <1>1, <2>3, <3>1 DEF SynFirst
  <2> DEFINE one == 1 % SeqSpace
  <2>6. one \in Numbers /\ Lag(one, one) = 0
    <3>1. one \in Numbers
      BY ModRange
    <3> QED BY <3>1, LagRange
  <2>7. \A x \in Incoming : x.ack = one => Admits(one, x.ack, x.win, 0, 0) /\ Lag(one, x.ack) = 0
    <3> SUFFICES ASSUME NEW x \in Incoming, x.ack = one
                 PROVE  Admits(one, x.ack, x.win, 0, 0) /\ Lag(one, x.ack) = 0
      OBVIOUS
    <3>1. x.win \in Int /\ x.win <= DeviceWindow
      BY DEF Incoming
    <3> HIDE DEF one
    <3> QED BY <2>6, <3>1, Sizes DEF Admits
  <2> HIDE DEF one
  <2>8. Heeds(one, pkt.ack, pkt.win, fromDevice', p, 0, 0)
    <3>1. \A i \in DOMAIN fromDevice' : fromDevice'[i] \in Incoming
                                       /\ (fromDevice'[i].sport = p => fromDevice'[i].ack = one)
      <4>1. \A i \in DOMAIN fromDevice' : i + 1 \in DOMAIN fromDevice /\ fromDevice'[i] = fromDevice[i + 1]
        BY <1>2, <2>3
      <4> QED BY <2>1, <2>3, <4>1 DEF one
    <3>2. Admits(one, pkt.ack, pkt.win, 0, 0) /\ Lag(one, pkt.ack) = 0
      BY <1>2, <2>4, <2>7 DEF one
    <3>3. \A i \in DOMAIN fromDevice' : fromDevice'[i].sport = p =>
            /\ Admits(one, fromDevice'[i].ack, fromDevice'[i].win, 0, 0)
            /\ Lag(one, fromDevice'[i].ack) = 0
      BY <2>7, <3>1
    <3>4. 0 <= 0
      OBVIOUS
    <3> QED BY <3>2, <3>3, <3>4 DEF Heeds
  <2>9. ~Fresh(p)
    BY <1>1, <1>2 DEF DataInv, UInv, Nothing
  <2>10. Ready(p, conn)
    <3>1. seq = (1 + 0 + 0) % SeqSpace
      BY <2>4
    <3> QED BY <1>4, <2>1, <2>2, <2>4, <2>5, <2>8, <2>9, <3>1 DEF Ready, one
  <2>11. Emits(Q, p, conn, conn)
    BY <1>2, <1>4, ControlEmits
  <2>12. /\ toDevice' = toDevice \o Q
         /\ p \in DOMAIN connections' => /\ connections'[p].state = "Connected"
                                         /\ connections'[p].txSeq = conn.txSeq
                                         /\ connections'[p].rxAck = conn.rxAck
                                         /\ connections'[p].rxWin = conn.rxWin
         /\ \A q \in DOMAIN connections' : q # p => q \in DOMAIN connections /\ connections'[q] = connections[q]
    BY <1>1, <1>4, <1>6
  <2> HIDE DEF p, Q, seq
  <2> QED BY <1>2, <1>4, <2>10, <2>11, <2>12, SendsKept
<1> QED BY <1>5, <1>6

LEMMA ReceivedData ==
  ASSUME DataInv, PipeTypes', Used, Received
  PROVE  \A s \in Sports : UInv(s)'
<1> DEFINE p == pkt.sport
           conn == [Heard EXCEPT !.rxBuffered = @ + pkt.len,
                                 !.txAck = (@ + pkt.len) % SeqSpace]
           next == Flushed(conn)
           acks == IF pkt.len > 0 THEN <<Frame(p, conn, "ACK", 0)>> ELSE <<>>
           done == conn.clientClosed /\ Flushed(conn).pending = 0
           F == FlushFrames(p, conn)
           rst == <<Frame(p, next, "RST", 0)>>
           lost == IF pkt.len > 0 THEN 0 ELSE Least(MaxPayload, Sendable(conn))
           stuck == [conn EXCEPT !.pending = @ - lost]
<1>1. /\ TakePacket /\ Connected(p)
      /\ \/ /\ writerUp
            /\ toDevice' = toDevice \o acks \o F \o (IF done THEN rst ELSE <<>>)
            /\ IF done THEN Teardown(p) ELSE connections' = [connections EXCEPT ![p] = next]
         \/ /\ ~writerUp /\ toDevice' = toDevice
            /\ connections' = [connections EXCEPT ![p] = stuck]
  BY DEF Received
<1>2. /\ Hears /\ fromDevice # <<>> /\ fromDevice' = Tail(fromDevice) /\ UNCHANGED <<writerUp, device>>
      /\ pkt \in Incoming /\ p \in Sports
  BY <1>1, PacketIn
<1>3. /\ p \in DOMAIN connections /\ connections[p].state = "Connected"
      /\ Heard \in Connection /\ Heard.state = connections[p].state /\ Heard.txSeq = connections[p].txSeq
      /\ Heard.rxAck = pkt.ack /\ Heard.rxWin = pkt.win
  BY <1>1, PortUp, HeardIs
<1>4. /\ conn \in Connection /\ conn.state = "Connected" /\ conn.txSeq = connections[p].txSeq
      /\ conn.rxAck = pkt.ack /\ conn.rxWin = pkt.win
      /\ stuck.state = "Connected"
  <2>1. pkt.len \in Nat /\ Heard.rxBuffered + pkt.len \in Nat /\ (Heard.txAck + pkt.len) % SeqSpace \in Numbers
    <3>1. pkt.len \in Nat
      BY <1>2 DEF Incoming
    <3>2. Heard.rxBuffered \in Nat /\ Heard.txAck \in Int
      BY <1>3 DEF Connection, Numbers
    <3>3. Heard.rxBuffered + pkt.len \in Nat /\ Heard.txAck + pkt.len \in Int
      BY <3>1, <3>2
    <3> QED BY <3>1, <3>3, ModRange
  <2> DEFINE held == Heard.rxBuffered + pkt.len
             ack == (Heard.txAck + pkt.len) % SeqSpace
  <2> HIDE DEF held, ack, lost
  <2>2. conn = [Heard EXCEPT !.rxBuffered = held, !.txAck = ack]
    BY DEF held, ack
  <2>3. held \in Nat /\ ack \in Numbers
    BY <2>1 DEF held, ack
  <2> HIDE DEF conn
  <2>4. conn \in Connection /\ conn.state = "Connected" /\ conn.txSeq = connections[p].txSeq
        /\ conn.rxAck = pkt.ack /\ conn.rxWin = pkt.win
    BY <1>3, <2>2, <2>3 DEF Connection
  <2> QED BY <2>4 DEF Connection
<1> HIDE DEF conn, stuck, lost
<1>5. CASE ~writerUp
  <2>1. \A s \in Sports : Keeps(s)
    BY <1>1, <1>2, <1>3, <1>4, <1>5 DEF Keeps
  <2> QED BY <1>1, <1>2, <1>5, <2>1, QuietKept
<1>6. CASE writerUp
  <2>1. Ready(p, conn)
    BY <1>1, <1>2, <1>3, <1>4, <1>6, ReadyHeard
  <2>2. Emits(F, p, conn, next) /\ next \in Connection
        /\ next.state = "Connected" /\ next.rxAck = conn.rxAck /\ next.rxWin = conn.rxWin
    BY <1>2, <1>4, FlushEmits, FlushedFields
  <2>3. Emits(acks, p, conn, conn) /\ Carried(acks, p, Len(acks)) = 0
    <3>1. CASE pkt.len > 0
      BY <1>2, <1>4, <3>1, ControlEmits
    <3>2. CASE ~(pkt.len > 0)
      BY <1>4, <3>2, NothingEmits
    <3> QED BY <3>1, <3>2
  <2> HIDE DEF F, acks, next
  <2>4. Emits(acks \o F, p, conn, next)
    BY <1>4, <2>2, <2>3, EmitsBoth
  <2> DEFINE last == IF done THEN rst ELSE <<>>
             G == acks \o F
  <2>5. Emits(G \o last, p, conn, next) /\ last \in Seq(Outgoing)
    <3>1. CASE done
      <4>1. Frame(p, next, "RST", 0) \in Outgoing
        BY <1>2, <2>2, FrameIsOutgoing DEF Flags
      <4> HIDE DEF G
      <4>2. Emits(G \o rst, p, conn, next)
        BY <1>2, <1>4, <2>2, <2>4, ThenReset DEF G
      <4> QED BY <3>1, <4>1, <4>2
    <3>2. CASE ~done
      <4>1. G \in Seq(Outgoing)
        BY <2>4 DEF Emits
      <4> HIDE DEF G
      <4>2. G \o <<>> = G
        BY <4>1
      <4>3. last = <<>> /\ <<>> \in Seq(Outgoing)
        BY <3>2
      <4>4. Emits(G, p, conn, next)
        BY <2>4 DEF G
      <4> HIDE DEF last
      <4> QED BY <4>2, <4>3, <4>4
    <3> QED BY <3>1, <3>2
  <2>6. toDevice' = toDevice \o acks \o F \o last
    BY <1>1, <1>6
  <2>7. p \in DOMAIN connections' => /\ connections'[p].state = "Connected"
                                     /\ connections'[p].txSeq = next.txSeq
                                     /\ connections'[p].rxAck = conn.rxAck
                                     /\ connections'[p].rxWin = conn.rxWin
    <3>1. CASE done
      BY <1>1, <1>3, <1>6, <3>1, Torn
    <3>2. CASE ~done
      BY <1>1, <1>3, <1>6, <2>2, <3>2
    <3> QED BY <3>1, <3>2
  <2>8. \A q \in DOMAIN connections' : q # p => q \in DOMAIN connections /\ connections'[q] = connections[q]
    <3>1. CASE done
      BY <1>1, <1>3, <1>6, <3>1, Torn
    <3>2. CASE ~done
      BY <1>1, <1>3, <1>6, <2>2, <3>2
    <3> QED BY <3>1, <3>2
  <2> HIDE DEF last
  <2>9. toDevice' = toDevice \o (G \o last)
    <3>1. toDevice \in Seq(Outgoing) /\ acks \in Seq(Outgoing) /\ F \in Seq(Outgoing) /\ last \in Seq(Outgoing)
          /\ G \in Seq(Outgoing)
      BY <2>2, <2>3, <2>4, <2>5 DEF Emits, DataInv, PipeTypes
    <3>2. (toDevice \o acks) \o F = toDevice \o G
      BY <3>1, PutTwice
    <3> HIDE DEF G
    <3>3. (toDevice \o G) \o last = toDevice \o (G \o last)
      BY <3>1, PutTwice, SMTT(30)
    <3> QED BY <2>6, <3>2, <3>3
  <2> DEFINE Q == G \o last
  <2>10. Emits(Q, p, conn, next) /\ toDevice' = toDevice \o Q
    BY <2>5, <2>9
  <2> HIDE DEF Q, p
  <2> QED BY <1>2, <1>4, <2>1, <2>7, <2>8, <2>10, SendsKept
<1> QED BY <1>5, <1>6

LEMMA PacketData ==
  ASSUME DataInv, PipeTypes', Used, PacketStep
  PROVE  \A s \in Sports : UInv(s)'
<1> QED BY UnknownData, AcceptedData, TornData, ReceivedData DEF PacketStep
-----------------------------------------------------------------------------
(* The other steps of the mux task, and those of the clients.              *)

LEMMA ConnectData ==
  ASSUME PortsSuffice, DataInv, PipeTypes', Used, MuxConnect
  PROVE  \A s \in Sports : UInv(s)'
<1> DEFINE p == nextSport
           c == Head(cmds)
           new == NewConnection(c)
           f == Frame(p, new, "SYN", 0)
           Q == <<f>>
           n == Len(toDevice)
<1>1. /\ c \in Conns /\ UNCHANGED <<writerUp, fromDevice, device>>
      /\ \/ writerUp /\ toDevice' = toDevice \o Q /\ connections' = Put(connections, p, new)
         \/ ~writerUp /\ UNCHANGED <<connections, toDevice>>
  BY DEF MuxConnect, Emit
<1>2. p \in Sports /\ Fresh(p) /\ Cardinality(Served') = p
  BY ServedByConnect DEF DataInv
<1>3. Nothing(p)
  BY <1>2 DEF DataInv, UInv
<1>4. new \in Connection /\ new.state = "Connecting" /\ new.txSeq = 0
  BY <1>1, NewFields DEF NewConnection
<1>5. f \in Outgoing /\ f.sport = p /\ f.flags = "SYN" /\ f.len = 0
  <2>1. f \in Outgoing
    BY <1>2, <1>4, FrameIsOutgoing DEF Flags
  <2> QED BY <2>1 DEF Frame
<1> HIDE DEF new, f
<1>6. CASE ~writerUp
  <2>1. \A s \in Sports : Keeps(s)
    BY <1>1, <1>6 DEF Keeps
  <2> QED BY <1>1, <1>6, <2>1, QuietKept DEF Hears
<1>7. CASE writerUp
  <2>1. toDevice' = toDevice \o Q /\ connections' = Put(connections, p, new)
    BY <1>1, <1>7
  <2>2. /\ toDevice \in Seq(Outgoing) /\ n \in Nat /\ DOMAIN toDevice' = 1..(n + 1) /\ DOMAIN toDevice = 1..n
        /\ Len(toDevice') = n + 1 /\ toDevice' \in Seq(Outgoing)
        /\ \A i \in 1..n : toDevice'[i] = toDevice[i]
        /\ toDevice'[n + 1] = f
    <3>1. toDevice \in Seq(Outgoing)
      BY DEF DataInv, PipeTypes
    <3> QED BY <1>5, <2>1, <3>1
  <2> HIDE DEF n
  <2>3. /\ connections'[p] = new /\ p \in DOMAIN connections'
        /\ \A q \in DOMAIN connections' : q # p => q \in DOMAIN connections /\ connections'[q] = connections[q]
    BY <2>1 DEF Put
  <2>4. device'[p] = Closed /\ \A i \in 1..n : toDevice'[i].sport # p
    BY <1>1, <1>3, <2>2 DEF Nothing
  <2>5. \A i \in DOMAIN toDevice' : toDevice'[i].sport = p => toDevice'[i] = f /\ i = n + 1
    <3> TAKE i \in DOMAIN toDevice'
    <3>1. i \in 1..n \/ i = n + 1
      BY <2>2
    <3> QED BY <2>2, <2>4, <3>1
  <2>6. \A i \in DOMAIN fromDevice' : fromDevice'[i].sport # p
    BY <1>1, <1>3 DEF Nothing
  <2>10. /\ \A i \in DOMAIN toDevice' : toDevice'[i].sport = p => toDevice'[i].len = 0
         /\ device'[p].rcvd = 0 /\ device'[p].held = 0 /\ connections'[p].txSeq = 0
         /\ connections'[p].state # "Connected"
    BY <1>4, <1>5, <2>3, <2>4, <2>5 DEF Closed
  <2>11. \A s \in Sports : s = p => UInv(s)'
    <3> TAKE s \in Sports
    <3> HAVE s = p
    <3> HIDE DEF p
    <3>1. Room(s)' /\ Gapless(s)' /\ SynFirst(s)'
      <4>1. device'[s].held = 0 /\ ~device'[s].open
        BY <2>4 DEF Closed
      <4>2. Out(s)' = 0
        <5>1. \A i \in 1..(n + 1) : toDevice'[i].sport = s => toDevice'[i].len = 0
          BY <1>5, <2>2, <2>5
        <5>2. n + 1 \in Nat /\ n + 1 <= Len(toDevice')
          BY <2>2
        <5>3. Carried(toDevice', s, n + 1) = 0
          BY <2>2, <5>1, <5>2, CarriedNone
        <5> QED BY <2>2, <5>3 DEF Out, OnPipe
      <4>3. Room(s)' /\ Gapless(s)'
        BY <4>1, <4>2, Sizes DEF Room, Gapless
      <4>4. SynFirst(s)'
        <5>1. connections'[s].state # "Connected"
          BY <2>10
        <5> QED BY <2>5, <2>6, <4>1, <5>1 DEF SynFirst, Connected
      <4> QED BY <4>3, <4>4
    <3>2. Starting(s)'
      BY <2>6, <2>10 DEF Starting
    <3>3. InStep(s)'
      BY <2>10 DEF InStep, Connected
    <3>4. ~Fresh(s)'
      <4>1. Cardinality(Served') = s
        BY <1>2 DEF p
      <4>2. ~(s > Cardinality(Served'))
        BY <4>1 DEF Sports
      <4> QED BY <4>2 DEF Fresh
    <3> QED BY <3>1, <3>2, <3>3, <3>4 DEF UInv
  <2>12. ASSUME NEW s \in Sports, s # p PROVE UInv(s)'
    <3>1. Keeps(s)
      BY <2>3, <2>12 DEF Keeps
    <3>2. Q \in Seq(Outgoing) /\ \A i \in DOMAIN Q : Q[i] = f
      BY <1>5
    <3> HIDE DEF Q
    <3>3. \A i \in DOMAIN Q : Q[i].sport = s => Q[i].flags = "RST" /\ Q[i].len = 0 /\ ~Nothing(s)
      BY <1>5, <2>12, <3>2
    <3>4. Apart(s)
      BY <1>1, <2>1, <3>1, <3>2, <3>3, ApartIfPut DEF DataInv, Hears
    <3> QED BY <3>4, ApartKeeps DEF DataInv, Used
  <2> QED BY <2>11, <2>12
<1> QED BY <1>6, <1>7

LEMMA ExitData ==
  ASSUME DataInv, PipeTypes', Used, Exit
  PROVE  \A s \in Sports : UInv(s)'
<1>1. /\ Resets \in Seq(Outgoing)
      /\ \A i \in DOMAIN Resets :
           Resets[i].flags = "RST" /\ Resets[i].len = 0 /\ Resets[i].sport \in DOMAIN connections
  BY ResetsOut DEF DataInv, UploadInv, StateInv
<1>2. /\ toDevice' = (IF writerUp THEN toDevice \o Resets ELSE toDevice)
      /\ fromDevice' = <<>> /\ UNCHANGED <<writerUp, device>> /\ connections' = <<>>
  BY DEF Exit, Resets
<1>3. \A s \in Sports : Keeps(s)
  <2>1. DOMAIN connections' = {}
    BY <1>2
  <2> QED BY <2>1 DEF Keeps
<1>4. \A i \in DOMAIN Resets : ~Nothing(Resets[i].sport)
  BY <1>1 DEF Nothing
<1>5. CASE writerUp
  BY <1>1, <1>2, <1>3, <1>4, <1>5, ResetsKept
<1>6. CASE ~writerUp
  BY <1>2, <1>3, <1>6, QuietKept
<1> QED BY <1>5, <1>6

LEMMA FailData ==
  ASSUME DataInv, PipeTypes', Used, WriteFails
  PROVE  \A s \in Sports : UInv(s)'
<1> TAKE s \in Sports
<1>1. writerUp' = FALSE /\ UNCHANGED <<connections, fromDevice, device>>
  BY DEF WriteFails
<1>2. PICK n \in 0..Len(toDevice) : toDevice' = SubSeq(toDevice, 1, n)
  BY DEF WriteFails
<1>3. toDevice \in Seq(Outgoing)
  BY DEF DataInv, PipeTypes
<1>4. Onward(toDevice', toDevice, s) /\ Out(s)' <= Out(s)
  BY <1>2, <1>3, OnwardCut DEF Out, OnPipe
<1>5. Among(fromDevice', fromDevice, s)
  BY <1>1, HearsAmong DEF Hears, DataInv
<1>6. Nothing(s) => \A j \in DOMAIN toDevice' : toDevice'[j].sport # s
  <2>1. \A j \in DOMAIN toDevice' : j \in DOMAIN toDevice /\ toDevice'[j] = toDevice[j]
    BY <1>2, <1>3
  <2> QED BY <2>1 DEF Nothing
<1>7. Apart(s)
  BY <1>1, <1>4, <1>5, <1>6 DEF Apart
<1> QED BY <1>7, ApartKeeps DEF DataInv, Used

LEMMA StillData ==
  ASSUME DataInv, PipeTypes', Used, UNCHANGED <<writerUp, connections, toDevice, fromDevice, device>>
  PROVE  \A s \in Sports : UInv(s)'
<1>1. \A s \in Sports : Keeps(s)
  BY DEF Keeps
<1> QED BY <1>1, QuietKept DEF Hears
-----------------------------------------------------------------------------
(* The steps of the device.                                                *)

(* A packet of port p may be handed over; the frames of the others stay.   *)
LEMMA ElsewhereKept ==
  ASSUME DataInv, PipeTypes', Used, UNCHANGED <<writerUp, connections>>, NEW p \in Sports,
         \/ toDevice' = toDevice
         \/ toDevice # <<>> /\ Head(toDevice).sport = p /\ toDevice' = Tail(toDevice),
         \/ fromDevice' = fromDevice
         \/ \E g \in Incoming : g.sport = p /\ fromDevice' = Append(fromDevice, g),
         \A q \in Sports : q # p => device'[q] = device[q],
         UInv(p)'
  PROVE  \A s \in Sports : UInv(s)'
<1> TAKE s \in Sports
<1>1. CASE s = p
  BY <1>1
<1>2. CASE s # p
  <2>1. toDevice \in Seq(Outgoing) /\ fromDevice \in Seq(Incoming) /\ Out(s) \in Nat
    BY OutNat DEF DataInv, PipeTypes
  <2>2. Onward(toDevice', toDevice, s) /\ Out(s)' = Out(s)
        /\ (Nothing(s) => \A j \in DOMAIN toDevice' : toDevice'[j].sport # s)
    <3>1. CASE toDevice' = toDevice
      <4>1. \A j \in DOMAIN toDevice : j + 0 \in DOMAIN toDevice /\ toDevice[j] = toDevice[j + 0]
                                       /\ (j + 0) - 1 = j - 1
        BY <2>1
      <4>2. Onward(toDevice, toDevice, s)
        <5>1. 0 \in Nat
          OBVIOUS
        <5>2. \A j \in DOMAIN toDevice : toDevice[j].sport = s =>
               \/ toDevice[j].flags = "RST" /\ toDevice[j].len = 0
               \/ j + 0 \in DOMAIN toDevice /\ toDevice[j] = toDevice[j + 0]
                  /\ Carried(toDevice, s, j - 1) = Carried(toDevice, s, (j + 0) - 1)
          BY <4>1
        <5> QED BY <5>1, <5>2 DEF Onward
      <4> QED BY <3>1, <4>2 DEF Out, OnPipe, Nothing
    <3>2. CASE toDevice # <<>> /\ Head(toDevice).sport = p /\ toDevice' = Tail(toDevice)
      <4>1. Onward(toDevice', toDevice, s) /\ Out(s)' = Out(s)
        BY <1>2, <2>1, <3>2, OnwardTaken DEF Out, OnPipe
      <4>2. \A j \in DOMAIN toDevice' : j + 1 \in DOMAIN toDevice /\ toDevice'[j] = toDevice[j + 1]
        BY <2>1, <3>2
      <4> QED BY <4>1, <4>2 DEF Nothing
    <3> QED BY <3>1, <3>2
  <2>3. Among(fromDevice', fromDevice, s)
    <3>1. \A j \in DOMAIN fromDevice' : fromDevice'[j].sport = s =>
            j + 0 \in DOMAIN fromDevice /\ fromDevice'[j] = fromDevice[j + 0]
      <4>1. CASE fromDevice' = fromDevice
        <5>1. \A j \in DOMAIN fromDevice : j + 0 = j
          BY <2>1
        <5> QED BY <4>1, <5>1
      <4>2. ASSUME NEW g \in Incoming, g.sport = p, fromDevice' = Append(fromDevice, g)
            PROVE  \A j \in DOMAIN fromDevice' : fromDevice'[j].sport = s =>
                     j + 0 \in DOMAIN fromDevice /\ fromDevice'[j] = fromDevice[j + 0]
        <5>1. \A j \in DOMAIN fromDevice' : (j + 0 \in DOMAIN fromDevice /\ fromDevice'[j] = fromDevice[j + 0])
                                            \/ fromDevice'[j] = g
          BY <2>1, <4>2
        <5> QED BY <1>2, <4>2, <5>1
      <4> QED BY <4>1, <4>2
    <3>2. 0 \in Nat
      OBVIOUS
    <3> QED BY <3>1, <3>2 DEF Among
  <2>4. Apart(s)
    <3>1. Out(s)' <= Out(s)
      BY <2>1, <2>2
    <3> QED BY <1>2, <2>2, <2>3, <3>1 DEF Apart
  <2> QED BY <2>4, ApartKeeps DEF DataInv, Used
<1> QED BY <1>1, <1>2

(* A port that has a frame on the pipe is in use. *)
LEMMA InUse ==
  ASSUME DataInv, Used, NEW p \in Sports, ~Nothing(p)
  PROVE  ~Fresh(p)'
<1> QED BY DEF DataInv, UInv, Used

(* The first frame is taken. *)
LEMMA FrameTaken ==
  ASSUME DataInv, toDevice # <<>>, toDevice' = Tail(toDevice), NEW f, f = Head(toDevice),
         NEW p, p = f.sport
  PROVE  /\ f \in Outgoing /\ p \in Sports /\ f.len \in Nat /\ 1 \in DOMAIN toDevice /\ toDevice[1] = f
         /\ Out(p) = f.len + Out(p)' /\ Out(p) \in Nat /\ Out(p)' \in Nat
         /\ \A j \in DOMAIN toDevice' : j + 1 \in DOMAIN toDevice /\ j + 1 # 1 /\ toDevice'[j] = toDevice[j + 1]
         /\ ~Nothing(p)
<1>1. toDevice \in Seq(Outgoing) /\ toDevice' \in Seq(Outgoing)
  BY DEF DataInv, PipeTypes
<1>2. f \in Outgoing /\ 1 \in DOMAIN toDevice /\ toDevice[1] = f
  BY <1>1
<1>3. p \in Sports /\ f.len \in Nat
  BY <1>2 DEF Outgoing
<1>4. \A j \in DOMAIN toDevice' : j + 1 \in DOMAIN toDevice /\ j + 1 # 1 /\ toDevice'[j] = toDevice[j + 1]
  BY <1>1
<1>5. Carried(toDevice, p, Len(toDevice)) = f.len + Carried(toDevice', p, Len(toDevice'))
  <2> DEFINE n == Len(Tail(toDevice))
  <2>1. n \in Nat /\ n < Len(toDevice) /\ n + 1 = Len(toDevice)
    BY <1>1
  <2> HIDE DEF n
  <2>2. Carried(toDevice, p, n + 1)
          = (IF Head(toDevice).sport = p THEN Head(toDevice).len ELSE 0) + Carried(Tail(toDevice), p, n)
    BY <1>1, <2>1, CarriedTaken, LengthsOut
  <2> QED BY <2>1, <2>2 DEF n
<1>6. Carried(toDevice, p, Len(toDevice)) \in Nat /\ Carried(toDevice', p, Len(toDevice')) \in Nat
  BY <1>1, CarriedAll
<1>7. ~Nothing(p)
  BY <1>2 DEF Nothing
<1> QED BY <1>2, <1>3, <1>4, <1>5, <1>6, <1>7 DEF Out, OnPipe

(* The device takes a bytes of a frame, and closes or not. *)
LEMMA TakenIn ==
  ASSUME DataInv, PipeTypes', Used, toDevice # <<>>, toDevice' = Tail(toDevice),
         NEW f, f = Head(toDevice), NEW p, p = f.sport,
         UNCHANGED <<writerUp, connections, fromDevice>>,
         NEW a \in Nat, a <= f.len,
         device'[p].rcvd = device[p].rcvd + a, device'[p].held = device[p].held + a,
         device'[p].open => device[p].open /\ a = f.len
  PROVE  UInv(p)'
<1> DEFINE o == Out(p)
           h == device[p].held
           r == device[p].rcvd
<1>1. /\ f \in Outgoing /\ p \in Sports /\ f.len \in Nat /\ 1 \in DOMAIN toDevice /\ toDevice[1] = f
      /\ Out(p) = f.len + Out(p)' /\ Out(p) \in Nat /\ Out(p)' \in Nat
      /\ \A j \in DOMAIN toDevice' : j + 1 \in DOMAIN toDevice /\ j + 1 # 1 /\ toDevice'[j] = toDevice[j + 1]
      /\ ~Nothing(p)
  BY FrameTaken
<1>2. UInv(p) /\ h \in Nat /\ r \in Nat /\ toDevice \in Seq(Outgoing) /\ fromDevice \in Seq(Incoming)
  BY <1>1 DEF DataInv, PipeTypes, DeviceEnd
<1> DEFINE o2 == Out(p)'
<1>3. o = f.len + o2 /\ o \in Nat /\ o2 \in Nat /\ f.len \in Nat
  BY <1>1
<1>4. Room(p)'
  <2>1. h + o <= DeviceWindow
    BY <1>2 DEF UInv, Room
  <2> HIDE DEF o, h, o2
  <2>2. h + a + o2 <= DeviceWindow
    BY <1>2, <1>3, <2>1, Sizes, SMTT(30)
  <2> QED BY <2>2 DEF Room, o2, h
<1>5. Gapless(p)'
  <2> SUFFICES ASSUME device'[p].open PROVE InOrder(Tail(toDevice), p, 1 + (r + a))
    BY DEF Gapless
  <2> DEFINE x == 1 + r
  <2>1. InOrder(toDevice, p, x)
    BY <1>2 DEF UInv, Gapless
  <2>2. x \in Nat /\ x + f.len = 1 + (r + a)
    <3>1. a = f.len /\ r \in Nat
      BY <1>2
    <3> HIDE DEF r
    <3> QED BY <3>1
  <2> HIDE DEF x
  <2>3. InOrder(Tail(toDevice), p, x + Head(toDevice).len)
    BY <1>2, <2>1, <2>2, InOrderTaken
  <2> QED BY <2>2, <2>3
<1>6. SynFirst(p)'
  <2> SUFFICES ASSUME NEW i \in DOMAIN toDevice', toDevice'[i].sport = p, toDevice'[i].flags = "SYN"
               PROVE  /\ ~device'[p].open /\ ~Connected(p)'
                      /\ \A j \in DOMAIN toDevice' : j # i /\ toDevice'[j].sport = p => toDevice'[j].flags = "RST"
                      /\ \A j \in DOMAIN fromDevice' : fromDevice'[j].sport = p => fromDevice'[j].flags # "SYN|ACK"
    BY DEF SynFirst
  <2>1. i + 1 \in DOMAIN toDevice /\ toDevice'[i] = toDevice[i + 1]
    BY <1>1
  <2>2. /\ ~device[p].open /\ ~Connected(p)
        /\ \A j \in DOMAIN toDevice : j # i + 1 /\ toDevice[j].sport = p => toDevice[j].flags = "RST"
        /\ \A j \in DOMAIN fromDevice : fromDevice[j].sport = p => fromDevice[j].flags # "SYN|ACK"
    BY <1>2, <2>1 DEF UInv, SynFirst
  <2>3. \A j \in DOMAIN toDevice' : j # i => j + 1 # i + 1
    <3>1. toDevice' \in Seq(Outgoing)
      BY DEF PipeTypes
    <3> QED BY <3>1
  <2>4. \A j \in DOMAIN toDevice' : j # i /\ toDevice'[j].sport = p => toDevice'[j].flags = "RST"
    BY <1>1, <2>2, <2>3
  <2> QED BY <2>2, <2>4 DEF Connected
<1>7. Starting(p)'
  <2> SUFFICES ASSUME Connecting(p)
               PROVE  /\ device'[p].rcvd = 0 /\ device'[p].held = 0
                      /\ \A i \in DOMAIN toDevice' : toDevice'[i].sport = p => toDevice'[i].len = 0
                      /\ \A i \in DOMAIN fromDevice' :
                           fromDevice'[i].sport = p => fromDevice'[i].ack = 1 % SeqSpace
                      /\ writerUp' => connections'[p].txSeq = 0
    BY DEF Starting, Connecting
  <2>1. /\ device[p].rcvd = 0 /\ device[p].held = 0
        /\ \A i \in DOMAIN toDevice : toDevice[i].sport = p => toDevice[i].len = 0
        /\ \A i \in DOMAIN fromDevice : fromDevice[i].sport = p => fromDevice[i].ack = 1 % SeqSpace
        /\ writerUp => connections[p].txSeq = 0
    BY <1>2 DEF UInv, Starting
  <2>2. a = 0
    <3>1. f.len = 0
      BY <1>1, <2>1
    <3> QED BY <3>1
  <2>3. \A i \in DOMAIN toDevice' : toDevice'[i].sport = p => toDevice'[i].len = 0
    BY <1>1, <2>1
  <2> QED BY <2>1, <2>2, <2>3
<1>8. InStep(p)'
  <2> SUFFICES ASSUME Connected(p), writerUp
               PROVE  /\ Heeds(connections[p].txSeq, connections[p].rxAck, connections[p].rxWin, fromDevice, p,
                               o2, h + a)
                      /\ device'[p].open => connections[p].txSeq = (1 + (r + a) + o2) % SeqSpace
    BY DEF InStep, Connected
  <2>1. connections[p].txSeq \in Numbers /\ connections[p].rxAck \in Numbers /\ connections[p].rxWin \in Int
    BY PortUp DEF Connection
  <2>2. /\ Heeds(connections[p].txSeq, connections[p].rxAck, connections[p].rxWin, fromDevice, p, o, h)
        /\ device[p].open => connections[p].txSeq = (1 + r + o) % SeqSpace
    BY <1>2 DEF UInv, InStep
  <2>3. o2 <= o /\ o2 + (h + a) <= o + h /\ h + a \in Nat
    <3>1. o = f.len + o2 /\ o2 \in Nat /\ h \in Nat /\ f.len \in Nat
      BY <1>2, <1>3
    <3> HIDE DEF o, h, o2
    <3> QED BY <3>1
  <2>4. a = f.len => 1 + (r + a) + o2 = 1 + r + o
    <3>1. o = f.len + o2 /\ o2 \in Nat /\ r \in Nat /\ f.len \in Nat
      BY <1>2, <1>3
    <3> HIDE DEF o, r, o2
    <3> QED BY <3>1
  <2>5. fromDevice \in Seq(Incoming) /\ o \in Nat /\ h \in Nat /\ o2 \in Nat
    BY <1>2, <1>3
  <2> HIDE DEF o, h, o2, r
  <2>6. Heeds(connections[p].txSeq, connections[p].rxAck, connections[p].rxWin, fromDevice, p, o2, h + a)
    BY <2>1, <2>2, <2>3, <2>5, HeedsLess
  <2> QED BY <2>2, <2>4, <2>6
<1>9. ~Fresh(p)'
  BY <1>1, InUse
<1> QED BY <1>4, <1>5, <1>6, <1>7, <1>8, <1>9 DEF UInv

(* The frame that opens: there is nothing before it, and only resets after. *)
LEMMA OpenedIn ==
  ASSUME DataInv, PipeTypes', Used, toDevice # <<>>, toDevice' = Tail(toDevice),
         NEW f, f = Head(toDevice), NEW p, p = f.sport, f.flags = "SYN",
         UNCHANGED <<writerUp, connections>>,
         NEW g, fromDevice' = fromDevice \/ fromDevice' = Append(fromDevice, g),
         device'[p].rcvd = device[p].rcvd \/ device'[p].rcvd = 0,
         device'[p].held = device[p].held \/ device'[p].held = 0,
         device[p].rcvd = 0 \/ device'[p].rcvd = 0 => g.ack = 1 % SeqSpace
  PROVE  UInv(p)'
<1> DEFINE o == Out(p)
           o2 == Out(p)'
           h == device[p].held
<1>1. /\ f \in Outgoing /\ p \in Sports /\ f.len \in Nat /\ 1 \in DOMAIN toDevice /\ toDevice[1] = f
      /\ Out(p) = f.len + Out(p)' /\ Out(p) \in Nat /\ Out(p)' \in Nat
      /\ \A j \in DOMAIN toDevice' : j + 1 \in DOMAIN toDevice /\ j + 1 # 1 /\ toDevice'[j] = toDevice[j + 1]
      /\ ~Nothing(p)
  BY FrameTaken
<1>2. UInv(p) /\ h \in Nat /\ toDevice \in Seq(Outgoing) /\ fromDevice \in Seq(Incoming)
  BY <1>1 DEF DataInv, PipeTypes, DeviceEnd
<1>3. /\ ~Connected(p)
      /\ \A j \in DOMAIN toDevice : j # 1 /\ toDevice[j].sport = p => toDevice[j].flags = "RST"
  BY <1>1, <1>2 DEF UInv, SynFirst
<1>4. \A j \in DOMAIN toDevice' : toDevice'[j].sport = p => toDevice'[j].flags = "RST"
  BY <1>1, <1>3
<1>5. Room(p)'
  <2>1. h + o <= DeviceWindow
    BY <1>2 DEF UInv, Room
  <2>2. o = f.len + o2 /\ o \in Nat /\ o2 \in Nat /\ h \in Nat /\ f.len \in Nat
    BY <1>1, <1>2
  <2>3. device'[p].held = h \/ device'[p].held = 0
    OBVIOUS
  <2> DEFINE h2 == device'[p].held
  <2> HIDE DEF o, h, o2, h2
  <2>4. h2 = h \/ h2 = 0
    BY <2>3 DEF h2
  <2>5. h2 + o2 <= DeviceWindow
    BY <2>1, <2>2, <2>4, Sizes
  <2> QED BY <2>5 DEF Room, o2, h2
<1>6. Gapless(p)'
  <2>1. \A x : InOrder(toDevice', p, x)
    BY <1>4 DEF InOrder
  <2> QED BY <2>1 DEF Gapless
<1>7. SynFirst(p)'
  BY <1>4 DEF SynFirst
<1>8. Starting(p)'
  <2> SUFFICES ASSUME Connecting(p)
               PROVE  /\ device'[p].rcvd = 0 /\ device'[p].held = 0
                      /\ \A i \in DOMAIN toDevice' : toDevice'[i].sport = p => toDevice'[i].len = 0
                      /\ \A i \in DOMAIN fromDevice' :
                           fromDevice'[i].sport = p => fromDevice'[i].ack = 1 % SeqSpace
                      /\ writerUp' => connections'[p].txSeq = 0
    BY DEF Starting, Connecting
  <2>1. /\ device[p].rcvd = 0 /\ device[p].held = 0
        /\ \A i \in DOMAIN toDevice : toDevice[i].sport = p => toDevice[i].len = 0
        /\ \A i \in DOMAIN fromDevice : fromDevice[i].sport = p => fromDevice[i].ack = 1 % SeqSpace
        /\ writerUp => connections[p].txSeq = 0
    BY <1>2 DEF UInv, Starting
  <2>3. \A i \in DOMAIN toDevice' : toDevice'[i].sport = p => toDevice'[i].len = 0
    BY <1>1, <2>1
  <2>4. \A i \in DOMAIN fromDevice' : fromDevice'[i].sport = p => fromDevice'[i].ack = 1 % SeqSpace
    <3>1. CASE fromDevice' = fromDevice
      BY <2>1, <3>1
    <3>2. CASE fromDevice' = Append(fromDevice, g)
      <4>1. \A i \in DOMAIN fromDevice' : \/ i \in DOMAIN fromDevice /\ fromDevice'[i] = fromDevice[i]
                                          \/ fromDevice'[i] = g
        BY <1>2, <3>2
      <4> QED BY <2>1, <4>1
    <3> QED BY <3>1, <3>2
  <2> QED BY <2>1, <2>3, <2>4
<1>9. InStep(p)'
  BY <1>3 DEF InStep, Connected
<1>10. ~Fresh(p)'
  BY <1>1, InUse
<1> QED BY <1>5, <1>6, <1>7, <1>8, <1>9, <1>10 DEF UInv

(* What the fields of a frame of the device are. *)
LEMMA DeviceFields ==
  ASSUME NEW s, NEW d, NEW flags, NEW len
  PROVE  /\ DeviceFrame(s, d, flags, len).sport = s
         /\ DeviceFrame(s, d, flags, len).flags = flags
         /\ DeviceFrame(s, d, flags, len).ack = (1 + d.rcvd) % SeqSpace
         /\ DeviceFrame(s, d, flags, len).win = DeviceWindow - d.held
         /\ [DeviceFrame(s, d, flags, len) EXCEPT !.seq = 0].sport = s
         /\ [DeviceFrame(s, d, flags, len) EXCEPT !.seq = 0].ack = (1 + d.rcvd) % SeqSpace
<1> QED BY DEF DeviceFrame

LEMMA TakesPort ==
  ASSUME DataInv, PipeTypes', Used, DeviceTakes, NEW f, f = Head(toDevice), NEW p, p = f.sport
  PROVE  /\ UInv(p)' /\ p \in Sports
         /\ toDevice # <<>> /\ Head(toDevice).sport = p /\ toDevice' = Tail(toDevice)
         /\ \/ fromDevice' = fromDevice
            \/ \E g \in Incoming : g.sport = p /\ fromDevice' = Append(fromDevice, g)
         /\ \A q \in Sports : q # p => device'[q] = device[q]
<1> DEFINE d == device[p]
           new == [Closed EXCEPT !.open = TRUE, !.told = View(Closed)]
           synAck == [DeviceFrame(p, new, "SYN|ACK", 0) EXCEPT !.seq = 0]
           rst == DeviceFrame(p, d, "RST", 0)
<1>1. /\ toDevice # <<>> /\ toDevice' = Tail(toDevice) /\ Head(toDevice).sport = p
      /\ UNCHANGED <<writerUp, connections, mux>>
  BY DEF DeviceTakes, DeviceStep
<1>2. f \in Outgoing /\ p \in Sports /\ f.len \in Nat
  <2>1. toDevice \in Seq(Outgoing)
    BY DEF DataInv, PipeTypes
  <2>2. f \in Outgoing
    BY <1>1, <2>1
  <2> QED BY <2>2 DEF Outgoing
<1>3. device \in [Sports -> DeviceEnd] /\ d \in DeviceEnd
  BY <1>2 DEF DataInv, PipeTypes
<1>4. d.rcvd \in Nat /\ d.held \in Nat
  BY <1>3 DEF DeviceEnd
<1>5. new.rcvd = 0 /\ new.held = 0 /\ new.sent = 0
  BY DEF Closed
<1>6. (1 + 0) % SeqSpace = 1 % SeqSpace
  OBVIOUS
<1>7. rst \in Incoming /\ rst.sport = p /\ rst.ack = (1 + d.rcvd) % SeqSpace
  <2>1. 0 \in Nat /\ "RST" \in Flags
    BY DEF Flags
  <2>2. rst \in Incoming
    BY <1>2, <1>3, <2>1, FramesIncoming
  <2> QED BY <2>2, DeviceFields
<1>8. synAck \in Incoming /\ synAck.sport = p /\ synAck.ack = 1 % SeqSpace
  <2>1. 0 \in Nat /\ "SYN|ACK" \in Flags
    BY DEF Flags
  <2>2. synAck.sport = p /\ synAck.ack = (1 + new.rcvd) % SeqSpace
    <3> HIDE DEF new
    <3> QED BY DeviceFields
  <2>3. new \in DeviceEnd
    <3>1. Closed \in DeviceEnd
      BY Sizes DEF DeviceEnd, Closed, Numbers
    <3>2. View(Closed) \in Nat \X Int
      BY <1>2, <2>1, <3>1, FramesIncoming
    <3> DEFINE v == View(Closed)
    <3> HIDE DEF v
    <3>3. v \in Nat \X Int
      BY <3>2 DEF v
    <3>4. [Closed EXCEPT !.open = TRUE, !.told = v] \in DeviceEnd
      BY <3>1, <3>3 DEF DeviceEnd
    <3> QED BY <3>4 DEF v
  <2>4. synAck \in Incoming
    BY <1>2, <2>1, <2>3, FramesIncoming
  <2> QED BY <2>2, <2>4, <1>5, <1>6
<1>9. \/ f.flags = "SYN" /\ device' = [device EXCEPT ![p] = new] /\ ToHost(synAck)
      \/ f.flags = "SYN" /\ device' = device /\ ToHost(rst)
      \/ /\ f.flags = "ACK" /\ d.open /\ fromDevice' = fromDevice
         /\ device' = [device EXCEPT ![p] =
                 [d EXCEPT !.rcvd = @ + f.len, !.held = @ + f.len, !.ack = f.ack, !.win = f.win]]
      \/ f.flags = "RST" /\ device' = [device EXCEPT ![p].open = FALSE] /\ fromDevice' = fromDevice
      \/ ~d.open /\ device' = device /\ fromDevice' = fromDevice
  BY DEF DeviceTakes
<1> HIDE DEF synAck, rst, new
<1>10. CASE f.flags = "SYN" /\ device' = [device EXCEPT ![p] = new] /\ ToHost(synAck)
  <2>1. device'[p] = new /\ \A q \in Sports : q # p => device'[q] = device[q]
    BY <1>2, <1>3, <1>10
  <2>2. fromDevice' = fromDevice \/ fromDevice' = Append(fromDevice, synAck)
    BY <1>10 DEF ToHost
  <2>3. UInv(p)'
    BY <1>1, <1>5, <1>8, <1>10, <2>1, <2>2, OpenedIn
  <2> QED BY <1>1, <1>2, <1>8, <2>1, <2>2, <2>3
<1>11. CASE f.flags = "SYN" /\ device' = device /\ ToHost(rst)
  <2>2. fromDevice' = fromDevice \/ fromDevice' = Append(fromDevice, rst)
    BY <1>11 DEF ToHost
  <2>3. d.rcvd = 0 => rst.ack = 1 % SeqSpace
    BY <1>6, <1>7
  <2>4. UInv(p)'
    BY <1>1, <1>11, <2>2, <2>3, OpenedIn
  <2> QED BY <1>1, <1>2, <1>7, <1>11, <2>2, <2>4
<1>12. CASE /\ f.flags = "ACK" /\ d.open /\ fromDevice' = fromDevice
            /\ device' = [device EXCEPT ![p] =
                 [d EXCEPT !.rcvd = @ + f.len, !.held = @ + f.len, !.ack = f.ack, !.win = f.win]]
  <2>1. /\ device'[p].rcvd = d.rcvd + f.len /\ device'[p].held = d.held + f.len
        /\ \A q \in Sports : q # p => device'[q] = device[q]
    BY <1>2, <1>3, <1>12 DEF DeviceEnd
  <2>2. f.len <= f.len
    BY <1>2
  <2>3. UInv(p)'
    BY <1>1, <1>2, <1>12, <2>1, <2>2, TakenIn
  <2> QED BY <1>1, <1>2, <1>12, <2>1, <2>3
<1>13. CASE f.flags = "RST" /\ device' = [device EXCEPT ![p].open = FALSE] /\ fromDevice' = fromDevice
  <2>1. /\ device'[p].rcvd = d.rcvd /\ device'[p].held = d.held /\ ~device'[p].open
        /\ \A q \in Sports : q # p => device'[q] = device[q]
    BY <1>2, <1>3, <1>13 DEF DeviceEnd
  <2>2. d.rcvd = d.rcvd + 0 /\ d.held = d.held + 0 /\ 0 <= f.len /\ 0 \in Nat
    BY <1>2, <1>4
  <2>3. device'[p].rcvd = d.rcvd + 0 /\ device'[p].held = d.held + 0
    BY <2>1, <2>2
  <2>4. UInv(p)'
    BY <1>1, <1>2, <1>13, <2>1, <2>2, <2>3, TakenIn
  <2> QED BY <1>1, <1>2, <1>13, <2>1, <2>4
<1>14. CASE ~d.open /\ device' = device /\ fromDevice' = fromDevice
  <2>2. d.rcvd = d.rcvd + 0 /\ d.held = d.held + 0 /\ 0 <= f.len /\ 0 \in Nat
    BY <1>2, <1>4
  <2>3. device'[p].rcvd = d.rcvd + 0 /\ device'[p].held = d.held + 0 /\ ~device'[p].open
    BY <1>14, <2>2
  <2>4. UInv(p)'
    BY <1>1, <1>2, <1>14, <2>2, <2>3, TakenIn
  <2> QED BY <1>1, <1>2, <1>14, <2>4
<1> QED BY <1>9, <1>10, <1>11, <1>12, <1>13, <1>14

LEMMA TakesData ==
  ASSUME DataInv, PipeTypes', Used, DeviceTakes
  PROVE  \A s \in Sports : UInv(s)'
<1>1. PICK f : f = Head(toDevice)
  OBVIOUS
<1>2. PICK p : p = f.sport
  OBVIOUS
<1>3. UNCHANGED <<writerUp, connections>>
  BY DEF DeviceTakes, DeviceStep
<1>4. /\ UInv(p)' /\ p \in Sports
      /\ toDevice # <<>> /\ Head(toDevice).sport = p /\ toDevice' = Tail(toDevice)
      /\ \/ fromDevice' = fromDevice
         \/ \E g \in Incoming : g.sport = p /\ fromDevice' = Append(fromDevice, g)
      /\ \A q \in Sports : q # p => device'[q] = device[q]
  BY <1>1, <1>2, TakesPort
<1> QED BY <1>3, <1>4, ElsewhereKept

(* What the device does of its own accord leaves what it received, may make *)
(* room, may close, and tells no more than is so.                          *)
LEMMA ActsOn ==
  ASSUME DataInv, PipeTypes', Used, UNCHANGED <<writerUp, connections, toDevice>>, NEW p \in Sports,
         device[p].open, device'[p].rcvd = device[p].rcvd,
         device'[p].held = device[p].held \/ device'[p].held = 0,
         \/ fromDevice' = fromDevice
         \/ \E g \in Incoming : /\ g.sport = p /\ fromDevice' = Append(fromDevice, g)
                                /\ g.flags # "SYN|ACK"
                                /\ g.ack = (1 + device[p].rcvd) % SeqSpace
                                /\ g.win = DeviceWindow - device[p].held
                                /\ device'[p].held = device[p].held,
         \A q \in Sports : q # p => device'[q] = device[q]
  PROVE  \A s \in Sports : UInv(s)'
<1> DEFINE o == Out(p)
           h == device[p].held
           r == device[p].rcvd
           h2 == device'[p].held
<1>1. UInv(p) /\ h \in Nat /\ r \in Nat /\ o \in Nat /\ h2 \in Nat
      /\ toDevice \in Seq(Outgoing) /\ fromDevice \in Seq(Incoming) /\ h2 <= h
  <2>1. device[p] \in DeviceEnd /\ PipeTypes
    BY DEF DataInv, PipeTypes
  <2>2. h \in Nat /\ r \in Nat
    BY <2>1 DEF DeviceEnd
  <2>3. h2 = h \/ h2 = 0
    OBVIOUS
  <2> QED BY <2>1, <2>2, <2>3, OutNat DEF DataInv, PipeTypes
<1>2. Out(p)' = o
  BY DEF Out, OnPipe
<1>3. Room(p)'
  <2>1. h + o <= DeviceWindow
    BY <1>1 DEF UInv, Room
  <2>2. h2 + o <= DeviceWindow
    <3> HIDE DEF h, o, h2
    <3> QED BY <1>1, <2>1, Sizes
  <2> QED BY <1>2, <2>2 DEF Room
<1>4. Gapless(p)'
  BY <1>1 DEF UInv, Gapless
<1>5. SynFirst(p)'
  BY <1>1 DEF UInv, SynFirst
<1>6. Starting(p)'
  <2> SUFFICES ASSUME Connecting(p)
               PROVE  /\ device'[p].rcvd = 0 /\ device'[p].held = 0
                      /\ \A i \in DOMAIN toDevice : toDevice[i].sport = p => toDevice[i].len = 0
                      /\ \A i \in DOMAIN fromDevice' :
                           fromDevice'[i].sport = p => fromDevice'[i].ack = 1 % SeqSpace
                      /\ writerUp => connections[p].txSeq = 0
    BY DEF Starting, Connecting
  <2>1. /\ r = 0 /\ h = 0
        /\ \A i \in DOMAIN toDevice : toDevice[i].sport = p => toDevice[i].len = 0
        /\ \A i \in DOMAIN fromDevice : fromDevice[i].sport = p => fromDevice[i].ack = 1 % SeqSpace
        /\ writerUp => connections[p].txSeq = 0
    BY <1>1 DEF UInv, Starting
  <2>2. (1 + r) % SeqSpace = 1 % SeqSpace
    BY <2>1
  <2>3. \A i \in DOMAIN fromDevice' : fromDevice'[i].sport = p => fromDevice'[i].ack = 1 % SeqSpace
    <3>1. CASE fromDevice' = fromDevice
      BY <2>1, <3>1
    <3>2. ASSUME NEW g, fromDevice' = Append(fromDevice, g), g.ack = (1 + r) % SeqSpace
          PROVE  \A i \in DOMAIN fromDevice' : fromDevice'[i].sport = p => fromDevice'[i].ack = 1 % SeqSpace
      <4>1. \A i \in DOMAIN fromDevice' : \/ i \in DOMAIN fromDevice /\ fromDevice'[i] = fromDevice[i]
                                          \/ fromDevice'[i] = g
        BY <1>1, <3>2
      <4> QED BY <2>1, <2>2, <3>2, <4>1
    <3> QED BY <3>1, <3>2
  <2> QED BY <2>1, <2>3
<1>7. InStep(p)'
  <2> SUFFICES ASSUME Connected(p), writerUp
               PROVE  /\ Heeds(connections[p].txSeq, connections[p].rxAck, connections[p].rxWin, fromDevice', p,
                               o, h2)
                      /\ connections[p].txSeq = (1 + r + o) % SeqSpace
    BY <1>2 DEF InStep, Connected
  <2> DEFINE seq == connections[p].txSeq
  <2>1. seq \in Numbers /\ connections[p].rxAck \in Numbers /\ connections[p].rxWin \in Int
    BY PortUp DEF Connection
  <2>2. /\ Heeds(seq, connections[p].rxAck, connections[p].rxWin, fromDevice, p, o, h)
        /\ seq = (1 + r + o) % SeqSpace
    BY <1>1 DEF UInv, InStep
  <2>3. CASE fromDevice' = fromDevice
    <3>1. o <= o /\ o + h2 <= o + h
      <4> HIDE DEF o, h, h2
      <4> QED BY <1>1
    <3> HIDE DEF o, h, h2, seq
    <3>2. Heeds(seq, connections[p].rxAck, connections[p].rxWin, fromDevice, p, o, h2)
      BY <1>1, <2>1, <2>2, <3>1, HeedsLess
    <3> QED BY <2>2, <2>3, <3>2 DEF seq
  <2>4. ASSUME NEW g \in Incoming, fromDevice' = Append(fromDevice, g), g.ack = (1 + r) % SeqSpace,
               g.win = DeviceWindow - h, h2 = h
        PROVE  Heeds(seq, connections[p].rxAck, connections[p].rxWin, fromDevice', p, o, h2)
    <3>1. Lag(seq, g.ack) = o
      <4> DEFINE y == 1 + r
      <4>1. y \in Nat
        BY <1>1
      <4>2. o < SeqSpace
        <5>1. h + o <= DeviceWindow
          BY <1>1 DEF UInv, Room
        <5> HIDE DEF o, h
        <5> QED BY <1>1, <5>1, Sizes
      <4>3. seq = (y + o) % SeqSpace /\ g.ack = y % SeqSpace
        BY <2>2, <2>4
      <4> HIDE DEF y, o, seq
      <4>4. Lag((y + o) % SeqSpace, y % SeqSpace) = o
        BY <1>1, <4>1, <4>2, LagBehind
      <4> QED BY <4>3, <4>4
    <3> HIDE DEF o, h, h2, seq
    <3>2. Heeds(seq, connections[p].rxAck, connections[p].rxWin, Append(fromDevice, g), p, o, h)
      BY <1>1, <2>1, <2>2, <2>4, <3>1, HeedsTold
    <3> QED BY <2>4, <3>2
  <2> QED BY <2>2, <2>3, <2>4
<1>8. ~Fresh(p)'
  <2>1. ~Nothing(p)
    BY DEF Nothing, Closed
  <2> QED BY <2>1, InUse
<1>9. UInv(p)'
  BY <1>3, <1>4, <1>5, <1>6, <1>7, <1>8 DEF UInv
<1> QED BY <1>9, ElsewhereKept

LEMMA DeviceData ==
  ASSUME DataInv, PipeTypes', Used, DeviceActs
  PROVE  \A s \in Sports : UInv(s)'
<1>1. UNCHANGED <<writerUp, connections>>
  BY DeviceActsOnly
<1>2. device \in [Sports -> DeviceEnd]
  BY DEF DataInv, PipeTypes
<1>3. ASSUME NEW p \in Sports, DeviceConsumes(p)
      PROVE  \A s \in Sports : UInv(s)'
  <2>1. /\ device[p].open /\ device' = [device EXCEPT ![p].held = 0]
        /\ UNCHANGED <<toDevice, fromDevice>>
    BY <1>3 DEF DeviceConsumes
  <2>2. device'[p].rcvd = device[p].rcvd /\ device'[p].held = 0
        /\ \A q \in Sports : q # p => device'[q] = device[q]
    BY <1>2, <2>1 DEF DeviceEnd
  <2> QED BY <1>1, <2>1, <2>2, ActsOn
<1>4. ASSUME NEW p \in Sports, NEW n \in 0..MaxPayload, DeviceSends(p, n)
      PROVE  \A s \in Sports : UInv(s)'
  <2> DEFINE g == DeviceFrame(p, device[p], "ACK", n)
             v == View(device[p])
             m == device[p].sent + n
  <2>1. /\ device[p].open /\ mux = "running" /\ ToHost(g) /\ UNCHANGED toDevice
        /\ device' = [device EXCEPT ![p].sent = m, ![p].told = v]
    BY <1>4 DEF DeviceSends
  <2>2. /\ g \in Incoming /\ g.sport = p /\ g.flags = "ACK"
        /\ g.ack = (1 + device[p].rcvd) % SeqSpace /\ g.win = DeviceWindow - device[p].held
    <3>1. n \in Nat /\ "ACK" \in Flags /\ device[p] \in DeviceEnd
      BY <1>2, Sizes DEF Flags
    <3>2. g \in Incoming
      BY <3>1, FramesIncoming
    <3> QED BY <3>2, DeviceFields
  <2> HIDE DEF g, v, m
  <2>3. device'[p].rcvd = device[p].rcvd /\ device'[p].held = device[p].held
        /\ \A q \in Sports : q # p => device'[q] = device[q]
    BY <1>2, <2>1 DEF DeviceEnd
  <2>4. fromDevice' = Append(fromDevice, g)
    BY <2>1 DEF ToHost
  <2> QED BY <1>1, <2>1, <2>2, <2>3, <2>4, ActsOn
<1>5. ASSUME NEW p \in Sports, DeviceResets(p)
      PROVE  \A s \in Sports : UInv(s)'
  <2> DEFINE g == DeviceFrame(p, device[p], "RST", 0)
  <2>1. /\ device[p].open /\ mux = "running" /\ ToHost(g) /\ UNCHANGED toDevice
        /\ device' = [device EXCEPT ![p].open = FALSE]
    BY <1>5 DEF DeviceResets
  <2>2. /\ g \in Incoming /\ g.sport = p /\ g.flags = "RST"
        /\ g.ack = (1 + device[p].rcvd) % SeqSpace /\ g.win = DeviceWindow - device[p].held
    <3>1. 0 \in Nat /\ "RST" \in Flags /\ device[p] \in DeviceEnd
      BY <1>2 DEF Flags
    <3>2. g \in Incoming
      BY <3>1, FramesIncoming
    <3> QED BY <3>2, DeviceFields
  <2> HIDE DEF g
  <2>3. device'[p].rcvd = device[p].rcvd /\ device'[p].held = device[p].held
        /\ \A q \in Sports : q # p => device'[q] = device[q]
    BY <1>2, <2>1 DEF DeviceEnd
  <2>4. fromDevice' = Append(fromDevice, g)
    BY <2>1 DEF ToHost
  <2> QED BY <1>1, <2>1, <2>2, <2>3, <2>4, ActsOn
<1>6. CASE DeviceTakes
  BY <1>6, TakesData
<1> QED BY <1>3, <1>4, <1>5, <1>6 DEF DeviceActs
-----------------------------------------------------------------------------
(* The account holds at first and every step keeps it.                     *)

LEMMA DataInvInit ==
  ASSUME PortsSuffice, Init
  PROVE  DataInv
<1>1. UploadInv /\ PipeTypes
  <2>1. UploadInv
    BY UploadInvInit
  <2>2. <<>> \in Seq(Outgoing) /\ <<>> \in Seq(Incoming) /\ Closed \in DeviceEnd
    BY Sizes DEF DeviceEnd, Closed, Numbers
  <2> QED BY <2>1, <2>2 DEF Init, PipeTypes
<1>2. PortsInv
  <2>1. Served = {}
    BY DEF Init, Served
  <2>2. Cardinality({}) = 0
    BY FS_EmptySet
  <2>3. (0 % MaxSport) + 1 = 1
    BY Sizes
  <2> QED BY <2>1, <2>2, <2>3 DEF Init, PortsInv
<1>3. ASSUME NEW s \in Sports PROVE UInv(s)
  <2>1. DOMAIN toDevice = {} /\ DOMAIN fromDevice = {} /\ DOMAIN connections = {} /\ device[s] = Closed
        /\ toDevice = <<>>
    <3>1. DOMAIN <<>> = {}
      OBVIOUS
    <3> QED BY <3>1 DEF Init
  <2>2. Out(s) = 0
    <3>1. toDevice \in Seq(Outgoing) /\ 0 \in 0..Len(toDevice) /\ Len(toDevice) = 0
      BY <1>1, <2>1 DEF PipeTypes
    <3>2. \A i \in 1..0 : toDevice[i].sport = s => toDevice[i].len = 0
      OBVIOUS
    <3>3. 0 \in Nat /\ 0 <= Len(toDevice)
      BY <3>1
    <3>4. Carried(toDevice, s, 0) = 0
      BY <3>1, <3>2, <3>3, CarriedNone
    <3> QED BY <3>1, <3>4 DEF Out, OnPipe
  <2>3. Room(s)
    <3>1. Closed.held = 0
      BY DEF Closed
    <3> QED BY <2>1, <2>2, <3>1, Sizes DEF Room
  <2>4. Gapless(s)
    BY <2>1 DEF Gapless, Closed
  <2>5. SynFirst(s) /\ Starting(s) /\ InStep(s) /\ Nothing(s)
    BY <2>1 DEF SynFirst, Starting, InStep, Nothing, Connecting, Connected
  <2> QED BY <2>3, <2>4, <2>5 DEF UInv
<1> QED BY <1>1, <1>2, <1>3 DEF DataInv

LEMMA DataInvStep ==
  ASSUME PortsSuffice, DataInv, Next
  PROVE  DataInv'
<1>1. UploadInv /\ PipeTypes /\ PortsInv
  BY DEF DataInv
<1>2. UploadInv' /\ PipeTypes'
  BY <1>1, UploadInvKept, PipeTypesKept
<1>3. Served \subseteq Served' /\ PortsInv'
  BY <1>1, ServedKept
<1>4. Used
  BY <1>3, FreshFewer DEF Used
<1>5. \A s \in Sports : UInv(s)'
  <2>1. CASE ClientActs
    <3>1. UNCHANGED <<writerUp, connections, toDevice, fromDevice, device>>
      BY <2>1, ClientActsOnly
    <3> QED BY <1>2, <1>4, <3>1, StillData
  <2>2. CASE VersionReply
    <3>1. UNCHANGED <<writerUp, connections, toDevice, fromDevice, device>>
      BY <2>2 DEF VersionReply
    <3> QED BY <1>2, <1>4, <3>1, StillData
  <2>3. CASE MuxConnect
    BY <1>2, <1>4, <2>3, ConnectData
  <2>4. CASE DataStep
    BY <1>2, <1>4, <2>4, DataData
  <2>5. CASE Drained
    BY <1>2, <1>4, <2>5, DrainedData
  <2>6. CASE PacketStep
    BY <1>2, <1>4, <2>6, PacketData
  <2>7. CASE DeviceActs
    BY <1>2, <1>4, <2>7, DeviceData
  <2>8. CASE Exit
    BY <1>2, <1>4, <2>8, ExitData
  <2>9. CASE WriteFails
    BY <1>2, <1>4, <2>9, FailData
  <2> QED BY <2>1, <2>2, <2>3, <2>4, <2>5, <2>6, <2>7, <2>8, <2>9, NextIs DEF TaskActs
<1> QED BY <1>2, <1>3, <1>5 DEF DataInv

LEMMA DataInvAlways ==
  ASSUME PortsSuffice
  PROVE  Spec => []DataInv
<1>1. DataInv /\ [Next /\ UNCHANGED load]_<<vars, load>> => DataInv'
  <2> SUFFICES ASSUME DataInv, Next \/ UNCHANGED vars PROVE DataInv'
    BY DEF vars
  <2>1. CASE UNCHANGED vars
    <3>1. /\ UNCHANGED <<writerUp, nextSport, connections, cmds, calls, pump, pause, permit>>
          /\ UNCHANGED <<dataChan, drainChan, sportOf, forwarder, user>>
          /\ UNCHANGED <<mux, toDevice, fromDevice, device>>
      BY <2>1 DEF vars
    <3>2. UploadInv'
      <4>1. StateInv'
        BY <3>1, Untouched DEF DataInv, UploadInv, StateInv, ConnectionTypes
      <4> QED BY <3>1, <4>1, PipeUntouched, ChannelsUntouched DEF DataInv, UploadInv
    <3>3. PipeTypes' /\ PortsInv' /\ Served' = Served
      BY <3>1 DEF DataInv, PipeTypes, PortsInv, Served
    <3>4. Used
      BY <3>3 DEF Used, Fresh
    <3>5. \A s \in Sports : UInv(s)'
      BY <3>1, <3>3, <3>4, StillData
    <3> QED BY <3>2, <3>3, <3>5 DEF DataInv
  <2> QED BY <2>1, DataInvStep
<1>2. Init => DataInv
  BY DataInvInit
<1> QED BY <1>1, <1>2, PTL DEF Spec
-----------------------------------------------------------------------------
(* Who has which port. A port that is new or connecting is in nobody's     *)
(* hands, and a client that is not connected has done nothing.             *)

Up(c) == calls[c] = "connected"

Idle(c) ==
  /\ sportOf[c] = 0 /\ pump[c].pc = "off" /\ pump[c].chunk = 0
  /\ forwarder[c].pc = "off" /\ forwarder[c].queue = <<>>
  /\ user[c].side = "none" /\ user[c].out = 0 /\ user[c].in = 0 /\ user[c].given = 0

Unclaimed(s) ==
  /\ \A c \in Conns : sportOf[c] # s
  /\ \A i \in DOMAIN dataChan : dataChan[i][1] # s
  /\ \A i \in DOMAIN drainChan : drainChan[i][1] # s

Claims ==
  /\ \A s \in Sports : Connected(s) => sportOf[connections[s].client] = s
  /\ \A c, d \in Conns : sportOf[c] = sportOf[d] /\ sportOf[c] # 0 => c = d
  /\ \A s \in Sports : Connecting(s) \/ Fresh(s) => Unclaimed(s)
  /\ \A c \in Conns : IF Up(c) THEN sportOf[c] # 0 ELSE Idle(c)
  /\ \A i \in DOMAIN dataChan : dataChan[i][1] # 0
  /\ \A i \in DOMAIN drainChan : drainChan[i][1] # 0

Rest(c) == pump'[c] = pump[c] /\ forwarder'[c] = forwarder[c] /\ user'[c] = user[c]

(* What a channel names is what it named, or the port of a connected client. *)
Names(new, old) ==
  \A i \in DOMAIN new : \/ \E j \in DOMAIN old : new[i][1] = old[j][1]
                        \/ \E c \in Conns : Up(c) /\ new[i][1] = sportOf[c]

LEMMA NamesSame == ASSUME NEW chan PROVE Names(chan, chan)
<1> QED BY DEF Names

LEMMA NamesTaken ==
  ASSUME NEW chan \in Seq((0..MaxSport) \X Nat), chan # <<>>
  PROVE  Names(Tail(chan), chan)
<1>1. \A i \in DOMAIN Tail(chan) : i + 1 \in DOMAIN chan /\ Tail(chan)[i] = chan[i + 1]
  OBVIOUS
<1> QED BY <1>1 DEF Names

LEMMA NamesPut ==
  ASSUME NEW chan \in Seq((0..MaxSport) \X Nat), NEW c \in Conns, Up(c), NEW n, NEW x, x = sportOf[c]
  PROVE  Names(Append(chan, <<x, n>>), chan)
<1> DEFINE t == <<x, n>>
<1>1. t[1] = x
  OBVIOUS
<1> HIDE DEF t
<1>2. \A i \in DOMAIN Append(chan, t) :
        (i \in DOMAIN chan /\ Append(chan, t)[i] = chan[i]) \/ Append(chan, t)[i] = t
  OBVIOUS
<1>3. Names(Append(chan, t), chan)
  BY <1>1, <1>2 DEF Names
<1> QED BY <1>3 DEF t

LEMMA ClaimsIf ==
  ASSUME Claims, Used, UNCHANGED sportOf,
         \A s \in Sports : Connected(s)' =>
           Connected(s) /\ connections'[s].client = connections[s].client,
         \A s \in Sports : Connecting(s)' => Connecting(s) \/ Fresh(s),
         Names(dataChan', dataChan), Names(drainChan', drainChan),
         \A c \in Conns : (calls'[c] = "connected" <=> Up(c)) /\ (~Up(c) => Rest(c))
  PROVE  Claims'
<1>1. \A s \in Sports : Connected(s)' => sportOf'[connections'[s].client] = s
  BY DEF Claims
<1>2. \A c, d \in Conns : sportOf'[c] = sportOf'[d] /\ sportOf'[c] # 0 => c = d
  BY DEF Claims
<1>3. \A s \in Sports : Connecting(s)' \/ Fresh(s)' => Unclaimed(s)'
  <2> SUFFICES ASSUME NEW s \in Sports, Connecting(s)' \/ Fresh(s)' PROVE Unclaimed(s)'
    OBVIOUS
  <2>1. Unclaimed(s)
    BY DEF Used, Claims
  <2> QED BY <2>1 DEF Unclaimed, Names
<1>4. \A c \in Conns : IF Up(c)' THEN sportOf'[c] # 0 ELSE Idle(c)'
  <2> TAKE c \in Conns
  <2>1. Up(c)' <=> Up(c)
    BY DEF Up
  <2>2. CASE Up(c)
    BY <2>1, <2>2 DEF Claims
  <2>3. CASE ~Up(c)
    BY <2>1, <2>3 DEF Claims, Idle, Rest
  <2> QED BY <2>2, <2>3
<1>5. \A i \in DOMAIN dataChan' : dataChan'[i][1] # 0
  BY DEF Claims, Names
<1>6. \A i \in DOMAIN drainChan' : drainChan'[i][1] # 0
  BY DEF Claims, Names
<1> QED BY <1>1, <1>2, <1>3, <1>4, <1>5, <1>6 DEF Claims

(* Who acts is connected. *)
LEMMA ActsUp ==
  ASSUME Claims, NEW c \in Conns,
         PumpAct(c) \/ ForwarderAct(c) \/ UserWrites(c) \/ UserReads(c) \/ UserShuts(c) \/ UserDrops(c)
  PROVE  Up(c)
<1> SUFFICES ASSUME Idle(c) PROVE FALSE
  BY DEF Claims
<1>1. CASE PumpAct(c)
  BY <1>1 DEF PumpAct, PumpChecks, PumpNotified, PumpReads, PumpSends, Idle
<1>2. CASE ForwarderAct(c)
  BY <1>2 DEF ForwarderAct, ForwarderWrites, ForwarderEnds, ForwarderStep, Idle
<1>3. CASE UserWrites(c) \/ UserReads(c) \/ UserShuts(c) \/ UserDrops(c)
  BY <1>3 DEF UserWrites, UserReads, UserShuts, UserDrops, UserStep, Idle
<1> QED BY <1>1, <1>2, <1>3

LEMMA ClientClaims ==
  ASSUME DataInv, Claims, Used, ClientActs
  PROVE  Claims'
<1>0. ChannelTypes /\ calls \in [Conns -> {"idle", "calling", "connected", "refused", "gone"}]
      /\ dataChan \in Seq((0..MaxSport) \X Nat) /\ drainChan \in Seq((0..MaxSport) \X Nat)
  BY DEF DataInv, UploadInv, StateInv, ConnectionTypes, ChannelTypes
<1>1. connections' = connections
  BY ClientActsOnly
<1>2. /\ \A s \in Sports : Connected(s)' =>
           Connected(s) /\ connections'[s].client = connections[s].client
      /\ \A s \in Sports : Connecting(s)' => Connecting(s) \/ Fresh(s)
  BY <1>1 DEF Connected, Connecting
<1>3. CASE CallShutdown
  BY <1>2, <1>3, NamesSame, ClaimsIf DEF CallShutdown, Up, Rest
<1>4. ASSUME NEW c \in Conns, CallConnect(c) PROVE Claims'
  <2>1. UNCHANGED <<sportOf, dataChan, drainChan, pump, forwarder, user>>
    BY <1>4 DEF CallConnect
  <2>2. \A d \in Conns : calls'[d] = "connected" <=> Up(d)
    BY <1>0, <1>4 DEF CallConnect, Up
  <2> QED BY <1>2, <2>1, <2>2, NamesSame, ClaimsIf DEF Rest
<1>5. ASSUME NEW c \in Conns, PumpAct(c) PROVE Claims'
  <2>1. Up(c)
    BY <1>5, ActsUp
  <2>2. UNCHANGED <<sportOf, drainChan, forwarder, calls>>
    BY <1>5 DEF PumpAct, PumpChecks, PumpNotified, PumpReads, PumpSends, PumpStep
  <2>3. \A d \in Conns \ {c} : pump'[d] = pump[d] /\ user'[d] = user[d]
    BY <1>0, <1>5 DEF PumpAct, PumpChecks, PumpNotified, PumpReads, PumpSends, ChannelTypes
  <2>4. Names(dataChan', dataChan)
    <3>1. CASE dataChan' = dataChan
      BY <3>1, NamesSame
    <3>2. CASE dataChan' = Append(dataChan, <<sportOf[c], pump[c].chunk>>)
      BY <1>0, <2>1, <3>2, NamesPut
    <3> QED BY <1>5, <3>1, <3>2 DEF PumpAct, PumpChecks, PumpNotified, PumpReads, PumpSends
  <2>5. \A d \in Conns : (calls'[d] = "connected" <=> Up(d)) /\ (~Up(d) => Rest(d))
    BY <2>1, <2>2, <2>3 DEF Rest, Up
  <2> QED BY <1>2, <2>2, <2>4, <2>5, NamesSame, ClaimsIf
<1>6. ASSUME NEW c \in Conns, ForwarderAct(c) PROVE Claims'
  <2>1. Up(c)
    BY <1>6, ActsUp
  <2>2. UNCHANGED <<sportOf, dataChan, pump, calls>>
    BY <1>6 DEF ForwarderAct, ForwarderWrites, ForwarderEnds, ForwarderStep
  <2>3. \A d \in Conns \ {c} : forwarder'[d] = forwarder[d] /\ user'[d] = user[d]
    BY <1>0, <1>6 DEF ForwarderAct, ForwarderWrites, ForwarderEnds, ChannelTypes
  <2>4. Names(drainChan', drainChan)
    <3>1. CASE drainChan' = drainChan
      BY <3>1, NamesSame
    <3>2. CASE drainChan' = Append(drainChan, <<sportOf[c], Head(forwarder[c].queue)>>)
      BY <1>0, <2>1, <3>2, NamesPut
    <3> QED BY <1>6, <3>1, <3>2 DEF ForwarderAct, ForwarderWrites, ForwarderEnds
  <2>5. \A d \in Conns : (calls'[d] = "connected" <=> Up(d)) /\ (~Up(d) => Rest(d))
    BY <2>1, <2>2, <2>3 DEF Rest, Up
  <2> QED BY <1>2, <2>2, <2>4, <2>5, NamesSame, ClaimsIf
<1>7. ASSUME NEW c \in Conns, UserWrites(c) \/ UserReads(c) \/ UserShuts(c) \/ UserDrops(c)
      PROVE  Claims'
  <2>1. Up(c)
    BY <1>7, ActsUp
  <2>2. UNCHANGED <<sportOf, dataChan, drainChan, pump, forwarder, calls>>
    BY <1>7 DEF UserWrites, UserReads, UserShuts, UserDrops, UserStep
  <2>3. \A d \in Conns \ {c} : user'[d] = user[d]
    BY <1>0, <1>7 DEF UserWrites, UserReads, UserShuts, UserDrops, ChannelTypes
  <2>4. \A d \in Conns : (calls'[d] = "connected" <=> Up(d)) /\ (~Up(d) => Rest(d))
    BY <2>1, <2>2, <2>3 DEF Rest, Up
  <2> QED BY <1>2, <2>2, <2>4, NamesSame, ClaimsIf
<1> QED BY <1>3, <1>4, <1>5, <1>6, <1>7 DEF ClientActs, UserAct
-----------------------------------------------------------------------------
(* What the mux task takes from the pumps' channel is pending, or is sent. *)

Moves(s) ==
  /\ Connecting(s)' => Connecting(s)
  /\ Connected(s)' =>
       /\ Connected(s) /\ connections'[s].client = connections[s].client
       /\ connections'[s].pending + InChan(dataChan', s)
            <= connections[s].pending + InChan(dataChan, s)
       /\ writerUp' =>
            Out(s)' + connections'[s].pending + InChan(dataChan', s)
              = Out(s) + connections[s].pending + InChan(dataChan, s)

(* a bytes of port p are taken from the channel. *)
Takes(p, a) ==
  \A s \in Sports : InChan(dataChan, s) = (IF s = p THEN a ELSE 0) + InChan(dataChan', s)

(* The connection of p stays what it was, but for some of its fields. *)
Stays(p) ==
  /\ p \in DOMAIN connections' =>
       /\ p \in DOMAIN connections /\ connections'[p].state = connections[p].state
       /\ connections'[p].client = connections[p].client
  /\ \A q \in DOMAIN connections' :
       q # p => q \in DOMAIN connections /\ connections'[q] = connections[q]
  /\ \A q \in DOMAIN connections : q # p => q \in DOMAIN connections'

LEMMA OutPut ==
  ASSUME PipeTypes, NEW Q \in Seq(Outgoing), toDevice' = toDevice \o Q, NEW s
  PROVE  /\ Out(s)' = Out(s) + Carried(Q, s, Len(Q))
         /\ Out(s) \in Nat /\ Carried(Q, s, Len(Q)) \in Nat
         /\ (\A i \in DOMAIN Q : Q[i].sport # s) => Carried(Q, s, Len(Q)) = 0
<1>1. toDevice \in Seq(Outgoing) /\ Len(Q) \in Nat /\ Len(toDevice \o Q) = Len(toDevice) + Len(Q)
      /\ DOMAIN Q = 1..Len(Q)
  BY DEF PipeTypes
<1>2. Carried(toDevice \o Q, s, Len(toDevice) + Len(Q)) = Carried(toDevice, s, Len(toDevice)) + Carried(Q, s, Len(Q))
  BY <1>1, CarriedJoined
<1>3. Out(s)' = Out(s) + Carried(Q, s, Len(Q))
  BY <1>1, <1>2 DEF Out, OnPipe
<1>4. Out(s) \in Nat /\ Carried(Q, s, Len(Q)) \in Nat
  BY OutNat, CarriedAll
<1>5. ASSUME \A i \in DOMAIN Q : Q[i].sport # s PROVE Carried(Q, s, Len(Q)) = 0
  <2>1. \A i \in 1..Len(Q) : Q[i].sport = s => Q[i].len = 0
    BY <1>1, <1>5
  <2> QED BY <1>1, <2>1, CarriedNone
<1> QED BY <1>3, <1>4, <1>5

LEMMA MovesIf ==
  ASSUME DataInv, DataInv', NEW p, NEW a \in Nat, Takes(p, a), Stays(p), writerUp' = writerUp,
         NEW Q \in Seq(Outgoing), \A i \in DOMAIN Q : Q[i].sport = p, toDevice' = toDevice \o Q,
         Connected(p)' =>
           /\ connections'[p].pending <= connections[p].pending + a
           /\ writerUp => connections'[p].pending + Carried(Q, p, Len(Q)) = connections[p].pending + a
  PROVE  \A s \in Sports : Moves(s)
<1>0. \A s \in Sports : Connecting(s)' => Connecting(s)
  BY DEF Connecting, Stays
<1> SUFFICES ASSUME NEW s \in Sports, Connected(s)' PROVE Moves(s)
  BY <1>0 DEF Moves
<1>1. Connected(s) /\ connections'[s].client = connections[s].client
  BY DEF Connected, Stays
<1> DEFINE i == InChan(dataChan, s)
           j == InChan(dataChan', s)
           o == Out(s)
           e == Out(s)'
           q == Carried(Q, s, Len(Q))
           w == connections[s].pending
           v == connections'[s].pending
<1>2. i \in Nat /\ j \in Nat /\ i = (IF s = p THEN a ELSE 0) + j
  <2>1. dataChan \in Seq((0..MaxSport) \X Nat) /\ dataChan' \in Seq((0..MaxSport) \X Nat)
    BY DEF DataInv, UploadInv, ChannelTypes
  <2>2. i \in Nat
    BY <2>1, InChanNat
  <2>3. j \in Nat
    BY <2>1, InChanNat
  <2> QED BY <2>2, <2>3 DEF Takes
<1>3. PipeTypes
  BY DEF DataInv
<1>4. e = o + q /\ o \in Nat /\ q \in Nat /\ (s # p => q = 0)
  BY <1>3, OutPut
<1>5. w \in Nat /\ v \in Nat
  BY <1>1 DEF DataInv, UploadInv, StateInv, ConnectionTypes, Connected, Connection
<1>6. CASE s = p
  <2>1. v <= w + a /\ (writerUp => v + q = w + a)
    BY <1>6
  <2> HIDE DEF i, j, o, e, q, v, w
  <2>2. v + j <= w + i /\ (writerUp => e + v + j = o + w + i)
    BY <1>2, <1>4, <1>5, <1>6, <2>1
  <2> QED BY <1>0, <1>1, <2>2 DEF Moves, i, j, o, e, q, v, w
<1>7. CASE s # p
  <2>1. v = w
    BY <1>7 DEF Stays, Connected
  <2> HIDE DEF i, j, o, e, q, v, w
  <2>2. v + j <= w + i /\ (writerUp => e + v + j = o + w + i)
    BY <1>2, <1>4, <1>5, <1>7, <2>1
  <2> QED BY <1>0, <1>1, <2>2 DEF Moves, i, j, o, e, q, v, w
<1> QED BY <1>6, <1>7

(* The channel of the pumps stays, or its first bytes are taken. *)
LEMMA TakesNone ==
  ASSUME UploadInv, dataChan' = dataChan, NEW p
  PROVE  Takes(p, 0)
<1> SUFFICES ASSUME NEW s \in Sports PROVE InChan(dataChan, s) = 0 + InChan(dataChan, s)
  BY DEF Takes
<1>1. InChan(dataChan, s) \in Nat
  BY InChanNat DEF UploadInv, ChannelTypes
<1> QED BY <1>1

LEMMA TakesFirst ==
  ASSUME UploadInv, TakeData
  PROVE  Takes(Head(dataChan)[1], Head(dataChan)[2]) /\ Head(dataChan)[2] \in Nat
<1>1. dataChan \in Seq((0..MaxSport) \X Nat) /\ dataChan # <<>> /\ dataChan' = Tail(dataChan)
  BY DEF UploadInv, ChannelTypes, TakeData
<1>2. Head(dataChan)[2] \in Nat
  BY <1>1
<1>3. ASSUME NEW s \in Sports
      PROVE  InChan(dataChan, s) = (IF s = Head(dataChan)[1] THEN Head(dataChan)[2] ELSE 0) + InChan(Tail(dataChan), s)
  BY <1>1, InChanTaken
<1> QED BY <1>1, <1>2, <1>3 DEF Takes

LEMMA StaysTorn ==
  ASSUME NEW p \in DOMAIN connections, Teardown(p)
  PROVE  Stays(p) /\ ~Connected(p)'
<1>1. \A q \in DOMAIN connections : q # p => q \in DOMAIN connections'
  BY DEF Teardown, Without
<1> QED BY <1>1, Torn DEF Stays, Connected

LEMMA StaysSame ==
  ASSUME NEW p \in DOMAIN connections, NEW conn, connections' = [connections EXCEPT ![p] = conn],
         conn.state = connections[p].state, conn.client = connections[p].client
  PROVE  Stays(p) /\ connections'[p] = conn
<1> QED BY DEF Stays

LEMMA StaysAll ==
  ASSUME connections' = connections, NEW p
  PROVE  Stays(p)
<1> QED BY DEF Stays

LEMMA PutNothing ==
  ASSUME PipeTypes, toDevice' = toDevice
  PROVE  toDevice' = toDevice \o <<>> /\ <<>> \in Seq(Outgoing) /\ DOMAIN <<>> = {}
<1>1. toDevice \in Seq(Outgoing)
  BY DEF PipeTypes
<1> QED BY <1>1

(* Nothing is sent for p, whose connection goes or waits with as many bytes. *)
LEMMA MovesQuietly ==
  ASSUME DataInv, DataInv', NEW p, NEW a \in Nat, Takes(p, a), Stays(p), writerUp' = writerUp,
         toDevice' = toDevice,
         Connected(p)' => /\ connections'[p].pending <= connections[p].pending + a
                          /\ writerUp => connections'[p].pending = connections[p].pending + a
  PROVE  \A s \in Sports : Moves(s)
<1> DEFINE Q == <<>>
<1>1. toDevice' = toDevice \o Q /\ Q \in Seq(Outgoing) /\ DOMAIN Q = {}
  BY PutNothing DEF DataInv
<1>2. Len(Q) = 0
  OBVIOUS
<1>3. Carried(Q, p, 0) = 0
  <2>1. 0 \in Nat /\ 0 <= Len(Q) /\ \A i \in 1..0 : Q[i].sport = p => Q[i].len = 0
    BY <1>2
  <2> HIDE DEF Q
  <2> QED BY <1>1, <2>1, CarriedNone
<1> HIDE DEF Q
<1>4. Connected(p)' =>
           /\ connections'[p].pending <= connections[p].pending + a
           /\ writerUp => connections'[p].pending + Carried(Q, p, Len(Q)) = connections[p].pending + a
  <2> SUFFICES ASSUME Connected(p)', writerUp
               PROVE  connections'[p].pending + Carried(Q, p, Len(Q)) = connections[p].pending + a
    OBVIOUS
  <2>1. connections'[p].pending \in Nat
    BY DEF DataInv, UploadInv, StateInv, ConnectionTypes, Connected, Connection
  <2> QED BY <1>2, <1>3, <2>1
<1> QED BY <1>1, <1>4, MovesIf

(* The connection of p goes, and what is sent for it may be anything. *)
LEMMA MovesTorn ==
  ASSUME DataInv, DataInv', NEW p, NEW a \in Nat, Takes(p, a), Stays(p), writerUp' = writerUp,
         NEW Q \in Seq(Outgoing), \A i \in DOMAIN Q : Q[i].sport = p, toDevice' = toDevice \o Q,
         ~Connected(p)'
  PROVE  \A s \in Sports : Moves(s)
<1> QED BY MovesIf

LEMMA IgnoredMoves ==
  ASSUME DataInv, DataInv', DataIgnored
  PROVE  \A s \in Sports : Moves(s)
<1>0. PICK p : p = Head(dataChan)[1]
  OBVIOUS
<1> DEFINE a == Head(dataChan)[2]
<1>1. /\ TakeData /\ ~Connected(p)
      /\ connections' = connections /\ toDevice' = toDevice /\ writerUp' = writerUp
  BY <1>0 DEF DataIgnored, TakeData
<1>2. Takes(p, a) /\ a \in Nat
  BY <1>0, <1>1, TakesFirst DEF DataInv
<1>3. Stays(p) /\ ~Connected(p)'
  BY <1>1, StaysAll DEF Connected
<1> HIDE DEF a
<1> QED BY <1>1, <1>2, <1>3, MovesQuietly

LEMMA FromPumpMoves ==
  ASSUME DataInv, DataInv', DataFromPump
  PROVE  \A s \in Sports : Moves(s)
<1>0. PICK p : p = Head(dataChan)[1]
  OBVIOUS
<1> DEFINE n == Head(dataChan)[2]
           old == connections[p]
           conn == [old EXCEPT !.pending = @ + n]
           Q == FlushFrames(p, conn)
<1>1. /\ TakeData /\ writerUp' = writerUp /\ Connected(p)
      /\ \/ /\ toDevice' = toDevice \o Q
            /\ connections' = [connections EXCEPT ![p] = Flushed(conn)]
         \/ Teardown(p) /\ toDevice' = toDevice
  BY <1>0 DEF DataFromPump, TakeData
<1>2. Takes(p, n) /\ n \in Nat
  BY <1>0, <1>1, TakesFirst DEF DataInv
<1>3. p \in Sports /\ p \in DOMAIN connections /\ old \in Connection /\ old.state = "Connected"
  BY <1>1, PortUp
<1>4. conn \in Connection /\ conn.state = old.state /\ conn.client = old.client /\ conn.pending = old.pending + n
  <2> HIDE DEF n, old
  <2>1. conn \in Connection
    BY <1>2, <1>3 DEF Connection
  <2> QED BY <1>3, <2>1 DEF Connection
<1> HIDE DEF conn, n
<1>5. CASE Teardown(p) /\ toDevice' = toDevice
  <2>1. Stays(p) /\ ~Connected(p)'
    BY <1>3, <1>5, StaysTorn
  <2> QED BY <1>1, <1>2, <1>5, <2>1, MovesQuietly
<1>6. CASE toDevice' = toDevice \o Q /\ connections' = [connections EXCEPT ![p] = Flushed(conn)]
  <2>1. /\ Flushed(conn).state = conn.state /\ Flushed(conn).client = conn.client
        /\ Flushed(conn).pending = conn.pending - Sendable(conn)
    BY <1>4, FlushedFields
  <2>2. Stays(p) /\ connections'[p] = Flushed(conn)
    BY <1>3, <1>4, <1>6, <2>1, StaysSame
  <2>3. Q \in Seq(Outgoing) /\ (\A i \in DOMAIN Q : Q[i].sport = p) /\ Carried(Q, p, Len(Q)) = Sendable(conn)
    BY <1>3, <1>4, FlushEmits DEF Emits
  <2> DEFINE k == Sendable(conn)
             w == conn.pending
  <2>4. k \in Nat /\ k <= w /\ w \in Nat
    BY <1>4, SendableFacts DEF Connection
  <2>5. connections'[p].pending = w - k /\ Carried(Q, p, Len(Q)) = k /\ connections[p].pending + n = w
    BY <1>4, <2>1, <2>2, <2>3
  <2> HIDE DEF k, w, Q
  <2>6. /\ connections'[p].pending <= connections[p].pending + n
        /\ connections'[p].pending + Carried(Q, p, Len(Q)) = connections[p].pending + n
    BY <2>4, <2>5
  <2> QED BY <1>1, <1>2, <1>6, <2>2, <2>3, <2>6, MovesIf
<1> QED BY <1>1, <1>5, <1>6

LEMMA ClosedMoves ==
  ASSUME DataInv, DataInv', ClientClosed
  PROVE  \A s \in Sports : Moves(s)
<1>0. PICK p : p = Head(dataChan)[1]
  OBVIOUS
<1> DEFINE n == Head(dataChan)[2]
           old == connections[p]
           conn == [old EXCEPT !.clientClosed = TRUE]
           F == FlushFrames(p, conn)
           rst == <<Frame(p, Flushed(conn), "RST", 0)>>
<1>1. /\ TakeData /\ writerUp' = writerUp /\ Connected(p) /\ n = 0
      /\ \/ /\ toDevice' = toDevice \o F
            /\ connections' = [connections EXCEPT ![p] = Flushed(conn)]
         \/ Teardown(p) /\ (toDevice' = toDevice \/ toDevice' = toDevice \o F \o rst)
  BY <1>0 DEF ClientClosed, TakeData
<1>2. Takes(p, 0)
  BY <1>0, <1>1, TakesFirst DEF DataInv
<1>3. p \in Sports /\ p \in DOMAIN connections /\ old \in Connection /\ old.state = "Connected"
  BY <1>1, PortUp
<1>4. conn \in Connection /\ conn.state = old.state /\ conn.client = old.client /\ conn.pending = old.pending
  <2> HIDE DEF old
  <2>1. conn \in Connection
    BY <1>3 DEF Connection
  <2> QED BY <1>3, <2>1 DEF Connection
<1> HIDE DEF conn
<1>5. /\ Flushed(conn).state = conn.state /\ Flushed(conn).client = conn.client /\ Flushed(conn) \in Connection
      /\ Flushed(conn).pending = conn.pending - Sendable(conn)
  BY <1>4, FlushedFields
<1>6. F \in Seq(Outgoing) /\ (\A i \in DOMAIN F : F[i].sport = p) /\ Carried(F, p, Len(F)) = Sendable(conn)
  BY <1>3, <1>4, FlushEmits DEF Emits
<1>7. CASE Teardown(p) /\ toDevice' = toDevice
  <2>1. Stays(p) /\ ~Connected(p)'
    BY <1>3, <1>7, StaysTorn
  <2> QED BY <1>1, <1>2, <1>7, <2>1, MovesQuietly
<1>8. CASE Teardown(p) /\ toDevice' = toDevice \o F \o rst
  <2>1. Stays(p) /\ ~Connected(p)'
    BY <1>3, <1>8, StaysTorn
  <2>2. rst \in Seq(Outgoing) /\ \A i \in DOMAIN rst : rst[i].sport = p
    <3>1. Frame(p, Flushed(conn), "RST", 0) \in Outgoing /\ Frame(p, Flushed(conn), "RST", 0).sport = p
      <4>1. Frame(p, Flushed(conn), "RST", 0) \in Outgoing
        BY <1>3, <1>5, FrameIsOutgoing DEF Flags
      <4> QED BY <4>1 DEF Frame
    <3> QED BY <3>1
  <2> HIDE DEF rst, F
  <2> DEFINE Q == F \o rst
  <2>3. Q \in Seq(Outgoing) /\ \A i \in DOMAIN Q : Q[i].sport = p
    BY <1>6, <2>2
  <2>4. toDevice' = toDevice \o Q
    <3>1. toDevice \in Seq(Outgoing)
      BY DEF DataInv, PipeTypes
    <3>2. (toDevice \o F) \o rst = toDevice \o (F \o rst)
      BY <1>6, <2>2, <3>1, PutTwice
    <3> QED BY <1>8, <3>2 DEF F
  <2> HIDE DEF Q
  <2> QED BY <1>1, <1>2, <2>1, <2>3, <2>4, MovesTorn
<1>9. CASE toDevice' = toDevice \o F /\ connections' = [connections EXCEPT ![p] = Flushed(conn)]
  <2>2. Stays(p) /\ connections'[p] = Flushed(conn)
    BY <1>3, <1>4, <1>5, <1>9, StaysSame
  <2> DEFINE k == Sendable(conn)
             w == conn.pending
  <2>4. k \in Nat /\ k <= w /\ w \in Nat
    BY <1>4, SendableFacts DEF Connection
  <2>5. connections'[p].pending = w - k /\ Carried(F, p, Len(F)) = k /\ connections[p].pending = w
    BY <1>4, <1>5, <1>6, <2>2
  <2> HIDE DEF k, w, F
  <2>6. /\ connections'[p].pending <= connections[p].pending + 0
        /\ connections'[p].pending + Carried(F, p, Len(F)) = connections[p].pending + 0
    BY <2>4, <2>5
  <2> QED BY <1>1, <1>2, <1>6, <1>9, <2>2, <2>6, MovesIf
<1> QED BY <1>1, <1>7, <1>8, <1>9

LEMMA DrainedMoves ==
  ASSUME DataInv, DataInv', Drained
  PROVE  \A s \in Sports : Moves(s)
<1>0. PICK p : p = Head(drainChan)[1]
  OBVIOUS
<1> DEFINE old == connections[p]
           held == Less(old.rxBuffered, Head(drainChan)[2])
           conn == [old EXCEPT !.rxBuffered = held]
           f == Frame(p, conn, "ACK", 0)
<1>1. drainChan # <<>> /\ writerUp' = writerUp /\ dataChan' = dataChan
  BY DEF Drained
<1>2. Takes(p, 0)
  BY <1>1, TakesNone DEF DataInv
<1>3. CASE p \notin DOMAIN connections
  <2>1. connections' = connections /\ toDevice' = toDevice
    BY <1>0, <1>3 DEF Drained
  <2>2. Stays(p) /\ ~Connected(p)'
    BY <1>3, <2>1, StaysAll DEF Connected
  <2> QED BY <1>1, <1>2, <2>1, <2>2, MovesQuietly
<1>4. CASE p \in DOMAIN connections
  <2>1. /\ connections' = [connections EXCEPT ![p] = conn]
        /\ toDevice' = toDevice \/ toDevice' = Append(toDevice, f)
    BY <1>0, <1>4 DEF Drained
  <2>2. p \in Sports /\ old \in Connection
    BY <1>4 DEF DataInv, UploadInv, StateInv, ConnectionTypes
  <2>3. held \in Nat
    <3>1. Head(drainChan)[2] \in Nat
      BY <1>1 DEF DataInv, UploadInv, ChannelTypes
    <3> QED BY <2>2, <3>1 DEF Less, Connection
  <2>4. /\ conn \in Connection /\ conn.state = old.state /\ conn.client = old.client
        /\ conn.pending = old.pending
    <3> HIDE DEF held, old
    <3> QED BY <2>2, <2>3, ShiftedFields
  <2>5. f \in Outgoing /\ f.sport = p /\ f.len = 0
    <3>1. f \in Outgoing
      BY <2>2, <2>4, FrameIsOutgoing DEF Flags
    <3> QED BY <3>1 DEF Frame
  <2> HIDE DEF conn, f
  <2>6. Stays(p) /\ connections'[p].pending = connections[p].pending /\ connections[p].pending \in Nat
    <3>1. Stays(p) /\ connections'[p] = conn
      BY <1>4, <2>1, <2>4, StaysSame
    <3> QED BY <2>2, <2>4, <3>1 DEF Connection
  <2>7. CASE toDevice' = toDevice
    <3> QED BY <1>1, <1>2, <2>6, <2>7, MovesQuietly
  <2>8. CASE toDevice' = Append(toDevice, f)
    <3> DEFINE Q == <<f>>
    <3>1. toDevice' = toDevice \o Q /\ Q \in Seq(Outgoing) /\ Len(Q) = 1
          /\ \A i \in DOMAIN Q : Q[i].sport = p
      BY <2>5, <2>8, OneFrame
    <3>2. Carried(Q, p, 1) = 0
      BY <2>5, CarriedOne
    <3> HIDE DEF Q
    <3>3. /\ connections'[p].pending <= connections[p].pending + 0
          /\ connections'[p].pending + Carried(Q, p, Len(Q)) = connections[p].pending + 0
      BY <2>6, <3>1, <3>2
    <3> QED BY <1>1, <1>2, <2>6, <3>1, <3>3, MovesIf
  <2> QED BY <2>1, <2>7, <2>8
<1> QED BY <1>3, <1>4

LEMMA UnknownMoves ==
  ASSUME DataInv, DataInv', UnknownConnection
  PROVE  \A s \in Sports : Moves(s)
<1>0. PICK p : p = pkt.sport
  OBVIOUS
<1> DEFINE anon == [txSeq |-> 0, txAck |-> pkt.seq, rxBuffered |-> 0]
           f == Frame(p, anon, "RST", 0)
           Q == <<f>>
<1>1. /\ p \notin DOMAIN connections /\ connections' = connections
      /\ writerUp' = writerUp /\ dataChan' = dataChan
      /\ toDevice' = toDevice \/ toDevice' = Append(toDevice, f)
  BY <1>0 DEF UnknownConnection, TakePacket
<1>2. Takes(p, 0)
  BY <1>1, TakesNone DEF DataInv
<1>3. Stays(p) /\ ~Connected(p)'
  BY <1>1, StaysAll DEF Connected
<1>4. f.sport = p
  BY DEF Frame
<1> HIDE DEF f
<1>5. CASE toDevice' = toDevice
  BY <1>1, <1>2, <1>3, <1>5, MovesQuietly
<1>6. CASE toDevice' = Append(toDevice, f)
  <2>1. f \in Outgoing
    <3>1. toDevice' \in Seq(Outgoing) /\ toDevice \in Seq(Outgoing)
      BY DEF PipeTypes, DataInv
    <3>2. toDevice'[Len(toDevice) + 1] = f /\ Len(toDevice) + 1 \in DOMAIN toDevice'
      BY <1>6, <3>1
    <3> QED BY <3>1, <3>2
  <2>2. toDevice' = toDevice \o Q /\ Q \in Seq(Outgoing) /\ \A i \in DOMAIN Q : Q[i].sport = p
    BY <1>4, <1>6, <2>1, OneFrame
  <2> HIDE DEF Q
  <2> QED BY <1>1, <1>2, <1>3, <2>2, MovesTorn
<1> QED BY <1>1, <1>5, <1>6

LEMMA TornMoves ==
  ASSUME DataInv, DataInv', Refused \/ Undeliverable
  PROVE  \A s \in Sports : Moves(s)
<1>0. PICK p : p = pkt.sport
  OBVIOUS
<1> DEFINE f == Frame(p, Heard, "RST", 0)
           Q == <<f>>
<1>1. /\ p \in DOMAIN connections /\ Teardown(p)
      /\ writerUp' = writerUp /\ dataChan' = dataChan
      /\ toDevice' = toDevice \/ toDevice' = Append(toDevice, f)
  BY <1>0 DEF Refused, Undeliverable, TakePacket, Connected
<1>2. Takes(p, 0)
  BY <1>1, TakesNone DEF DataInv
<1>3. Stays(p) /\ ~Connected(p)'
  BY <1>1, StaysTorn
<1>4. f.sport = p
  BY DEF Frame
<1> HIDE DEF f
<1>5. CASE toDevice' = toDevice
  BY <1>1, <1>2, <1>3, <1>5, MovesQuietly
<1>6. CASE toDevice' = Append(toDevice, f)
  <2>1. f \in Outgoing
    <3>1. toDevice' \in Seq(Outgoing) /\ toDevice \in Seq(Outgoing)
      BY DEF PipeTypes, DataInv
    <3>2. toDevice'[Len(toDevice) + 1] = f /\ Len(toDevice) + 1 \in DOMAIN toDevice'
      BY <1>6, <3>1
    <3> QED BY <3>1, <3>2
  <2>2. toDevice' = toDevice \o Q /\ Q \in Seq(Outgoing) /\ \A i \in DOMAIN Q : Q[i].sport = p
    BY <1>4, <1>6, <2>1, OneFrame
  <2> HIDE DEF Q
  <2> QED BY <1>1, <1>2, <1>3, <2>2, MovesTorn
<1> QED BY <1>1, <1>5, <1>6

LEMMA ReceivedMoves ==
  ASSUME DataInv, DataInv', Received
  PROVE  \A s \in Sports : Moves(s)
<1>0. PICK p : p = pkt.sport
  OBVIOUS
<1> DEFINE conn == [Heard EXCEPT !.rxBuffered = @ + pkt.len, !.txAck = (@ + pkt.len) % SeqSpace]
           acks == IF pkt.len > 0 THEN <<Frame(p, conn, "ACK", 0)>> ELSE <<>>
           F == FlushFrames(p, conn)
           next == Flushed(conn)
           rst == <<Frame(p, next, "RST", 0)>>
           done == conn.clientClosed /\ next.pending = 0
           lost == IF pkt.len > 0 THEN 0 ELSE Least(MaxPayload, Sendable(conn))
           stuck == [conn EXCEPT !.pending = @ - lost]
<1>1. /\ TakePacket /\ Connected(p) /\ writerUp' = writerUp /\ dataChan' = dataChan
      /\ \/ writerUp /\ done /\ Teardown(p) /\ toDevice' = toDevice \o acks \o F \o rst
         \/ /\ writerUp /\ ~done /\ toDevice' = toDevice \o acks \o F \o <<>>
            /\ connections' = [connections EXCEPT ![p] = next]
         \/ /\ ~writerUp /\ toDevice' = toDevice
            /\ connections' = [connections EXCEPT ![p] = stuck]
  BY <1>0 DEF Received, TakePacket
<1>2. p \in Sports /\ pkt \in Incoming /\ pkt.len \in Nat
  <2>1. pkt \in Incoming /\ pkt.sport \in Sports
    BY <1>1, PacketIn, SMTT(30)
  <2> QED BY <1>0, <2>1 DEF Incoming
<1>3. /\ p \in DOMAIN connections /\ connections[p].state = "Connected"
      /\ Heard \in Connection /\ Heard.state = connections[p].state
      /\ Heard.client = connections[p].client /\ Heard.pending = connections[p].pending
  BY <1>0, <1>1, PortUp, HeardFields DEF TakePacket, DataInv, UploadInv, StateInv
<1>4. /\ conn \in Connection /\ conn.state = connections[p].state
      /\ conn.client = connections[p].client /\ conn.pending = connections[p].pending
  BY <1>2, <1>3, ReceivedFields
<1>5. stuck.state = conn.state /\ stuck.client = conn.client /\ stuck.pending = conn.pending - lost
  <2> HIDE DEF conn, lost
  <2> QED BY <1>4 DEF Connection
<1> DEFINE k == Sendable(conn)
           w == conn.pending
<1>6. k \in Nat /\ k <= w /\ w \in Nat /\ lost \in Nat
  BY <1>4, SendableFacts, Sizes DEF Connection, Least
<1> HIDE DEF conn, stuck, lost
<1>7. Takes(p, 0)
  BY <1>1, TakesNone DEF DataInv
<1>8. acks \in Seq(Outgoing) /\ (\A i \in DOMAIN acks : acks[i].sport = p) /\ Carried(acks, p, Len(acks)) = 0
      /\ Emits(acks, p, conn, conn)
  <2>1. CASE pkt.len > 0
    BY <1>2, <1>4, <2>1, ControlEmits DEF Emits
  <2>2. CASE ~(pkt.len > 0)
    BY <1>4, <2>2, NothingEmits DEF Emits
  <2> QED BY <2>1, <2>2
<1>9. F \in Seq(Outgoing) /\ (\A i \in DOMAIN F : F[i].sport = p) /\ Carried(F, p, Len(F)) = k
      /\ Emits(F, p, conn, next)
  BY <1>2, <1>4, FlushEmits DEF Emits
<1>10. /\ next.state = conn.state /\ next.client = conn.client /\ next \in Connection
       /\ next.pending = w - k
  BY <1>4, FlushedFields
<1> DEFINE G == acks \o F
<1> HIDE DEF acks, F, next, k, w
<1>11. G \in Seq(Outgoing) /\ (\A i \in DOMAIN G : G[i].sport = p) /\ Carried(G, p, Len(G)) = k
  <2>1. Carried(G, p, Len(G)) = Carried(acks, p, Len(acks)) + Carried(F, p, Len(F))
        /\ Emits(G, p, conn, next)
    BY <1>4, <1>8, <1>9, EmitsBoth
  <2>2. Carried(G, p, Len(G)) = k
    BY <1>6, <1>8, <1>9, <2>1
  <2> QED BY <2>1, <2>2 DEF Emits
<1>12. (toDevice \o acks) \o F = toDevice \o G /\ toDevice \in Seq(Outgoing)
  <2>1. toDevice \in Seq(Outgoing)
    BY DEF DataInv, PipeTypes
  <2> QED BY <1>8, <1>9, <2>1, PutTwice
<1> HIDE DEF G
<1>13. CASE writerUp /\ done /\ Teardown(p) /\ toDevice' = toDevice \o acks \o F \o rst
  <2>1. Stays(p) /\ ~Connected(p)'
    BY <1>3, <1>13, StaysTorn
  <2>2. rst \in Seq(Outgoing) /\ \A i \in DOMAIN rst : rst[i].sport = p
    <3>1. Frame(p, next, "RST", 0) \in Outgoing
      BY <1>2, <1>10, FrameIsOutgoing DEF Flags
    <3>2. Frame(p, next, "RST", 0).sport = p
      BY DEF Frame
    <3> QED BY <3>1, <3>2
  <2> HIDE DEF rst
  <2> DEFINE Q == G \o rst
  <2>3. Q \in Seq(Outgoing) /\ \A i \in DOMAIN Q : Q[i].sport = p
    BY <1>11, <2>2
  <2>4. toDevice' = toDevice \o Q
    <3>1. (toDevice \o G) \o rst = toDevice \o (G \o rst)
      BY <1>11, <1>12, <2>2, PutTwice
    <3> QED BY <1>12, <1>13, <3>1
  <2> HIDE DEF Q
  <2> QED BY <1>1, <1>7, <2>1, <2>3, <2>4, MovesTorn
<1>14. CASE /\ writerUp /\ ~done /\ toDevice' = toDevice \o acks \o F \o <<>>
            /\ connections' = [connections EXCEPT ![p] = next]
  <2>1. toDevice' = toDevice \o G
    <3>1. toDevice \o G \in Seq(Outgoing)
      BY <1>11, <1>12
    <3>2. (toDevice \o G) \o <<>> = toDevice \o G
      BY <3>1
    <3> QED BY <1>12, <1>14, <3>2
  <2>2. Stays(p) /\ connections'[p] = next
    BY <1>3, <1>4, <1>10, <1>14, StaysSame
  <2>3. /\ connections'[p].pending <= connections[p].pending + 0
        /\ connections'[p].pending + Carried(G, p, Len(G)) = connections[p].pending + 0
    <3>1. connections'[p].pending = w - k /\ connections[p].pending = w
      BY <1>4, <1>10, <2>2 DEF w
    <3> QED BY <1>6, <1>11, <3>1
  <2> QED BY <1>1, <1>7, <1>11, <2>1, <2>2, <2>3, MovesIf
<1>15. CASE ~writerUp /\ toDevice' = toDevice /\ connections' = [connections EXCEPT ![p] = stuck]
  <2>1. Stays(p) /\ connections'[p] = stuck
    BY <1>3, <1>4, <1>5, <1>15, StaysSame
  <2>2. connections'[p].pending <= connections[p].pending + 0
    <3>1. connections'[p].pending = w - lost /\ connections[p].pending = w
      BY <1>4, <1>5, <2>1 DEF w
    <3> QED BY <1>6, <3>1
  <2> QED BY <1>1, <1>7, <1>15, <2>1, <2>2, MovesQuietly
<1> QED BY <1>1, <1>13, <1>14, <1>15

(* The steps of the task but those that start a connection. *)
Moving == DataStep \/ Drained \/ UnknownConnection \/ Refused \/ Undeliverable \/ Received

LEMMA TaskMoves ==
  ASSUME DataInv, DataInv', Moving
  PROVE  \A s \in Sports : Moves(s)
<1> QED BY IgnoredMoves, FromPumpMoves, ClosedMoves, DrainedMoves, UnknownMoves, TornMoves,
           ReceivedMoves DEF Moving, DataStep
-----------------------------------------------------------------------------
(* The claims are kept.                                                    *)

LEMMA TornUp ==
  ASSUME StateInv, NEW p \in DOMAIN connections, Teardown(p)
  PROVE  \A c \in Conns : calls'[c] = "connected" <=> Up(c)
<1>1. calls[connections[p].client] = IF connections[p].state = "Connecting" THEN "calling" ELSE "connected"
  BY DEF StateInv, Tokens
<1>2. calls \in [Conns -> {"idle", "calling", "connected", "refused", "gone"}]
  BY DEF StateInv, ConnectionTypes
<1> QED BY <1>1, <1>2 DEF Teardown, Up

LEMMA NamesNone == ASSUME NEW chan PROVE Names(<<>>, chan)
<1>1. DOMAIN <<>> = {}
  OBVIOUS
<1> QED BY <1>1 DEF Names

LEMMA NamesHere ==
  ASSUME UploadInv
  PROVE  /\ dataChan' = dataChan \/ (dataChan # <<>> /\ dataChan' = Tail(dataChan)) => Names(dataChan', dataChan)
         /\ drainChan' = drainChan \/ (drainChan # <<>> /\ drainChan' = Tail(drainChan)) => Names(drainChan', drainChan)
<1>1. dataChan \in Seq((0..MaxSport) \X Nat) /\ drainChan \in Seq((0..MaxSport) \X Nat)
  BY DEF UploadInv, ChannelTypes
<1> QED BY <1>1, NamesSame, NamesTaken

LEMMA MovingClaims ==
  ASSUME DataInv, DataInv', Claims, Used, Moving
  PROVE  Claims'
<1>1. /\ \A s \in Sports : Connected(s)' =>
           Connected(s) /\ connections'[s].client = connections[s].client
      /\ \A s \in Sports : Connecting(s)' => Connecting(s) \/ Fresh(s)
  BY TaskMoves DEF Moves
<1>2. UploadInv /\ StateInv
  BY DEF DataInv, UploadInv
<1>3. CASE DataStep
  <2>1. /\ dataChan # <<>> /\ dataChan' = Tail(dataChan)
        /\ UNCHANGED <<drainChan, sportOf, pump, forwarder, user>>
    BY <1>3 DEF DataStep, DataIgnored, DataFromPump, ClientClosed, TakeData
  <2>2. \A c \in Conns : calls'[c] = "connected" <=> Up(c)
    <3>1. calls' = calls \/ \E p \in DOMAIN connections : Teardown(p)
      BY <1>3 DEF DataStep, DataIgnored, DataFromPump, ClientClosed, Connected
    <3> QED BY <1>2, <3>1, TornUp DEF Up
  <2>3. Names(dataChan', dataChan) /\ Names(drainChan', drainChan)
    BY <1>2, <2>1, NamesHere
  <2> QED BY <1>1, <2>1, <2>2, <2>3, ClaimsIf DEF Rest
<1>4. CASE Drained
  <2>1. /\ drainChan # <<>> /\ drainChan' = Tail(drainChan)
        /\ UNCHANGED <<dataChan, calls, sportOf, pump, forwarder, user>>
    BY <1>4 DEF Drained
  <2>2. Names(dataChan', dataChan) /\ Names(drainChan', drainChan)
    BY <1>2, <2>1, NamesHere
  <2> QED BY <1>1, <2>1, <2>2, ClaimsIf DEF Rest, Up
<1>5. CASE UnknownConnection \/ Refused \/ Undeliverable \/ Received
  <2>1. /\ UNCHANGED <<dataChan, drainChan, sportOf, pump, user>> /\ TakePacket
    BY <1>5 DEF UnknownConnection, Refused, Undeliverable, Received, TakePacket, KeepTasks
  <2>2. \A c \in Conns : calls'[c] = "connected" <=> Up(c)
    <3>1. calls' = calls \/ \E p \in DOMAIN connections : Teardown(p)
      BY <1>5 DEF UnknownConnection, Refused, Undeliverable, Received, Connected
    <3> QED BY <1>2, <3>1, TornUp DEF Up
  <2>3. Names(dataChan', dataChan) /\ Names(drainChan', drainChan)
    BY <1>2, <2>1, NamesHere
  <2>4. ASSUME NEW c \in Conns, ~Up(c) PROVE forwarder'[c] = forwarder[c]
    <3>1. CASE UnknownConnection \/ Refused \/ Undeliverable
      BY <3>1 DEF UnknownConnection, Refused, Undeliverable, KeepTasks
    <3>2. CASE Received
      <4> DEFINE x == Append(forwarder[Heard.client].queue, pkt.len)
      <4>1. Connected(pkt.sport) /\ Heard.client = connections[pkt.sport].client
        BY <2>1, <3>2, HeardFields DEF Received, TakePacket, DataInv, UploadInv, StateInv, Connected
      <4>2. Up(Heard.client)
        BY <1>2, <4>1 DEF StateInv, Tokens, Connected, Up
      <4>3. forwarder' = [forwarder EXCEPT ![Heard.client].queue = x] \/ forwarder' = forwarder
        BY <3>2 DEF Received
      <4> HIDE DEF x
      <4>4. c # Heard.client
        BY <2>4, <4>2
      <4>5. forwarder \in [Conns -> [pc : {"off", "running", "done"}, queue : Seq(Nat)]]
        BY <1>2 DEF UploadInv, ChannelTypes
      <4> QED BY <4>3, <4>4, <4>5, SMTT(30)
    <3> QED BY <1>5, <3>1, <3>2
  <2>5. \A c \in Conns : (calls'[c] = "connected" <=> Up(c)) /\ (~Up(c) => Rest(c))
    BY <2>1, <2>2, <2>4 DEF Rest
  <2> QED BY <1>1, <2>1, <2>3, <2>5, ClaimsIf, SMTT(30)
<1> QED BY <1>3, <1>4, <1>5 DEF Moving

LEMMA StillClaims ==
  ASSUME Claims, Used,
         UNCHANGED <<connections, dataChan, drainChan, calls, sportOf, pump, forwarder, user>>
  PROVE  Claims'
<1>1. /\ \A s \in Sports : Connected(s)' =>
           Connected(s) /\ connections'[s].client = connections[s].client
      /\ \A s \in Sports : Connecting(s)' => Connecting(s) \/ Fresh(s)
  BY DEF Connected, Connecting
<1>2. Names(dataChan', dataChan) /\ Names(drainChan', drainChan)
  BY NamesSame
<1> QED BY <1>1, <1>2, ClaimsIf DEF Rest, Up

LEMMA ExitClaims ==
  ASSUME DataInv, Claims, Used, Exit
  PROVE  Claims'
<1>1. /\ connections' = <<>> /\ dataChan' = <<>> /\ drainChan' = <<>>
      /\ UNCHANGED <<sportOf, pump, forwarder, user>>
  BY DEF Exit
<1>2. DOMAIN connections' = {}
  BY <1>1
<1>3. /\ \A s \in Sports : Connected(s)' =>
           Connected(s) /\ connections'[s].client = connections[s].client
      /\ \A s \in Sports : Connecting(s)' => Connecting(s) \/ Fresh(s)
  BY <1>2 DEF Connected, Connecting
<1>4. Names(dataChan', dataChan) /\ Names(drainChan', drainChan)
  BY <1>1, NamesNone
<1>5. \A c \in Conns : calls'[c] = "connected" <=> Up(c)
  BY DEF Exit, Up
<1> QED BY <1>1, <1>3, <1>4, <1>5, ClaimsIf DEF Rest

LEMMA ConnectClaims ==
  ASSUME PortsSuffice, DataInv, Claims, Used, MuxConnect
  PROVE  Claims'
<1>0. PICK p, c : p = nextSport /\ c = Head(cmds)
  OBVIOUS
<1>1. /\ c \in Conns /\ UNCHANGED <<dataChan, drainChan, sportOf, pump, forwarder, user>>
  BY <1>0 DEF MuxConnect
<1>2. p \in Sports /\ Fresh(p) /\ p \notin DOMAIN connections
  <2>1. p \in Sports /\ Fresh(p)
    BY <1>0, ServedByConnect DEF DataInv
  <2> QED BY <2>1 DEF DataInv, UInv, Nothing
<1>3. NewConnection(c).state = "Connecting"
  BY <1>1, NewFields
<1>4. /\ connections' = connections \/ connections' = Put(connections, p, NewConnection(c))
      /\ \/ calls' = [d \in Conns |-> calls[d]]
         \/ calls' = [calls EXCEPT ![c] = "refused"]
  BY <1>0, <1>2 DEF MuxConnect
<1>5. calls[c] = "calling" /\ calls \in [Conns -> {"idle", "calling", "connected", "refused", "gone"}]
  <2>1. cmds \in Seq(Conns \cup {"Shutdown"}) /\ cmds # <<>> /\ Head(cmds) \in Conns
    BY DEF DataInv, UploadInv, StateInv, ConnectionTypes, MuxConnect
  <2>2. 1 \in DOMAIN cmds /\ cmds[1] = c /\ cmds[1] \in Conns
    BY <1>0, <2>1
  <2> QED BY <2>2 DEF DataInv, UploadInv, StateInv, ConnectionTypes, Tokens
<1>6. \A d \in Conns : calls'[d] = "connected" <=> Up(d)
  BY <1>1, <1>4, <1>5 DEF Up
<1>7. /\ \A s \in Sports : Connected(s)' =>
           Connected(s) /\ connections'[s].client = connections[s].client
      /\ \A s \in Sports : Connecting(s)' => Connecting(s) \/ Fresh(s)
  <2>1. CASE connections' = connections
    BY <2>1 DEF Connected, Connecting
  <2>2. CASE connections' = Put(connections, p, NewConnection(c))
    BY <1>2, <1>3, <2>2 DEF Connected, Connecting, Put
  <2> QED BY <1>4, <2>1, <2>2
<1> QED BY <1>1, <1>6, <1>7, NamesSame, ClaimsIf DEF Rest

LEMMA AcceptedClaims ==
  ASSUME DataInv, Claims, Used, Accepted
  PROVE  Claims'
<1>0. PICK p, c : p = pkt.sport /\ c = Heard.client
  OBVIOUS
<1> DEFINE conn == [Heard EXCEPT !.txSeq = (@ + 1) % SeqSpace, !.txAck = (@ + 1) % SeqSpace]
           up == [conn EXCEPT !.state = "Connected"]
<1>1. /\ TakePacket /\ p \in DOMAIN connections /\ Heard.state = "Connecting"
      /\ UNCHANGED <<dataChan, drainChan>>
      /\ \/ /\ connections' = [connections EXCEPT ![p] = up]
            /\ calls' = [calls EXCEPT ![c] = "connected"]
            /\ sportOf' = [sportOf EXCEPT ![c] = p]
            /\ pump' = [pump EXCEPT ![c].pc = "check"]
            /\ forwarder' = [forwarder EXCEPT ![c].pc = "running"]
            /\ user' = [user EXCEPT ![c].side = "open"]
         \/ /\ connections' = [connections EXCEPT ![p] = conn]
            /\ UNCHANGED <<calls, sportOf, pump, forwarder, user>>
  BY <1>0 DEF Accepted, TakePacket
<1>2. /\ p \in Sports /\ Heard \in Connection /\ c = connections[p].client
      /\ Heard.state = connections[p].state /\ c \in Conns
  <2>1. Heard \in Connection /\ Heard.client = connections[p].client /\ Heard.state = connections[p].state
    BY <1>0, <1>1, HeardFields DEF TakePacket, DataInv, UploadInv, StateInv
  <2> QED BY <1>0, <1>1, <2>1 DEF DataInv, UploadInv, StateInv, ConnectionTypes, Connection
<1>3. /\ conn \in Connection /\ conn.client = c /\ conn.state = "Connecting"
      /\ up.client = c /\ up.state = "Connected"
  <2>1. conn \in Connection /\ conn.client = c /\ conn.state = "Connecting"
    BY <1>0, <1>1, <1>2, AcceptedFields
  <2> HIDE DEF conn
  <2> QED BY <2>1, SMTT(30) DEF Connection
<1> HIDE DEF conn, up
<1>4. /\ Connecting(p) /\ ~Connected(p) /\ Unclaimed(p) /\ ~Fresh(p)
  <2>1. Connecting(p) /\ ~Connected(p)
    BY <1>1, <1>2 DEF Connecting, Connected
  <2>2. ~Fresh(p)
    BY <1>1, <1>2 DEF DataInv, UInv, Nothing
  <2> QED BY <1>2, <2>1, <2>2 DEF Claims
<1>5. calls[c] = "calling" /\ ~Up(c) /\ calls \in [Conns -> {"idle", "calling", "connected", "refused", "gone"}]
      /\ \A q \in DOMAIN connections : q # p => connections[q].client # c
  <2>1. calls[c] = "calling"
    BY <1>1, <1>2 DEF DataInv, UploadInv, StateInv, Tokens
  <2> QED BY <1>1, <1>2, <2>1 DEF DataInv, UploadInv, StateInv, Tokens, ConnectionTypes, Up
<1>6. ChannelTypes
  BY DEF DataInv, UploadInv
<1>7. CASE /\ connections' = [connections EXCEPT ![p] = conn]
           /\ UNCHANGED <<calls, sportOf, pump, forwarder, user>>
  <2>1. /\ \A s \in Sports : Connected(s)' =>
             Connected(s) /\ connections'[s].client = connections[s].client
        /\ \A s \in Sports : Connecting(s)' => Connecting(s) \/ Fresh(s)
    BY <1>1, <1>3, <1>4, <1>7 DEF Connected, Connecting
  <2> QED BY <1>1, <1>7, <2>1, NamesSame, ClaimsIf DEF Rest, Up
<1>8. CASE /\ connections' = [connections EXCEPT ![p] = up]
           /\ calls' = [calls EXCEPT ![c] = "connected"]
           /\ sportOf' = [sportOf EXCEPT ![c] = p]
           /\ pump' = [pump EXCEPT ![c].pc = "check"]
           /\ forwarder' = [forwarder EXCEPT ![c].pc = "running"]
           /\ user' = [user EXCEPT ![c].side = "open"]
  <2>1. /\ sportOf'[c] = p /\ \A d \in Conns : d # c => sportOf'[d] = sportOf[d]
        /\ calls'[c] = "connected" /\ \A d \in Conns : d # c => calls'[d] = calls[d] /\ Rest(d)
        /\ connections'[p] = up /\ DOMAIN connections' = DOMAIN connections
        /\ \A q \in DOMAIN connections : q # p => connections'[q] = connections[q]
    BY <1>1, <1>2, <1>5, <1>6, <1>8 DEF ChannelTypes, Rest
  <2>2. \A s \in Sports : Connected(s)' => sportOf'[connections'[s].client] = s
    <3> SUFFICES ASSUME NEW s \in Sports, Connected(s)', s # p
                 PROVE  sportOf'[connections'[s].client] = s
      BY <1>3, <2>1
    <3>1. Connected(s) /\ connections'[s] = connections[s] /\ connections[s].client # c
      BY <1>5, <2>1 DEF Connected
    <3>2. connections[s].client \in Conns
      BY <3>1 DEF Connected, DataInv, UploadInv, StateInv, ConnectionTypes, Connection
    <3> QED BY <2>1, <3>1, <3>2 DEF Claims
  <2>3. \A d, e \in Conns : sportOf'[d] = sportOf'[e] /\ sportOf'[d] # 0 => d = e
    BY <1>4, <2>1 DEF Claims, Unclaimed
  <2>4. \A s \in Sports : Connecting(s)' \/ Fresh(s)' => Unclaimed(s)'
    <3> SUFFICES ASSUME NEW s \in Sports, Connecting(s)' \/ Fresh(s)' PROVE Unclaimed(s)'
      OBVIOUS
    <3>1. s # p /\ (Connecting(s) \/ Fresh(s))
      BY <1>3, <1>4, <2>1 DEF Connecting, Used
    <3>2. Unclaimed(s)
      BY <3>1 DEF Claims
    <3> QED BY <1>1, <2>1, <3>1, <3>2 DEF Unclaimed
  <2>5. \A d \in Conns : IF Up(d)' THEN sportOf'[d] # 0 ELSE Idle(d)'
    <3> TAKE d \in Conns
    <3>1. CASE d = c
      BY <1>2, <2>1, <3>1 DEF Up, Sports
    <3>2. CASE d # c
      BY <2>1, <3>2 DEF Claims, Up, Idle, Rest
    <3> QED BY <3>1, <3>2
  <2> QED BY <1>1, <2>2, <2>3, <2>4, <2>5 DEF Claims
<1> QED BY <1>1, <1>7, <1>8

LEMMA ClaimsInit ==
  ASSUME Init
  PROVE  Claims
<1>1. DOMAIN connections = {} /\ DOMAIN dataChan = {} /\ DOMAIN drainChan = {}
  <2>1. DOMAIN <<>> = {}
    OBVIOUS
  <2> QED BY <2>1 DEF Init
<1>2. \A c \in Conns : sportOf[c] = 0 /\ ~Up(c) /\ Idle(c)
  BY DEF Init, Up, Idle
<1>3. \A s \in Sports : Unclaimed(s) /\ ~Connected(s)
  BY <1>1, <1>2 DEF Unclaimed, Connected, Sports
<1> QED BY <1>1, <1>2, <1>3 DEF Claims

LEMMA ClaimsStep ==
  ASSUME PortsSuffice, DataInv, DataInv', Claims, Used, Next
  PROVE  Claims'
<1>1. CASE ClientActs
  BY <1>1, ClientClaims
<1>2. CASE VersionReply \/ WriteFails
  BY <1>2, StillClaims DEF VersionReply, WriteFails
<1>3. CASE DeviceActs
  BY <1>3, StillClaims, DeviceActsOnly
<1>4. CASE TaskActs
  BY <1>4, ConnectClaims, MovingClaims, AcceptedClaims DEF TaskActs, Moving, PacketStep
<1> QED BY <1>1, <1>2, <1>3, <1>4, ExitClaims, NextIs
-----------------------------------------------------------------------------
(* The bytes of a client: at the device or on their way to it, and still   *)
(* with the client or its pump.                                            *)

Past(s) == device[s].rcvd + Out(s) + connections[s].pending + InChan(dataChan, s)
Own(c) == pump[c].chunk + user[c].out

Ledger(s) ==
  Connected(s) /\ writerUp /\ device[s].open =>
    \A c \in Conns : c = connections[s].client => user[c].given = Past(s) + Own(c)

(* A pump has bytes only between its read and its send, and the task        *)
(* leaves no connection behind.                                             *)
Tidy ==
  /\ \A c \in Conns : pump[c].pc # "sending" => pump[c].chunk = 0
  /\ mux = "exited" => \A s \in Sports : s \notin DOMAIN connections

Balanced(s) ==
  Connected(s)' /\ writerUp' /\ device'[s].open =>
    /\ Connected(s) /\ writerUp /\ device[s].open
    /\ connections'[s].client = connections[s].client
    /\ \A c \in Conns : c = connections[s].client =>
         user'[c].given - (Past(s)' + Own(c)') = user[c].given - (Past(s) + Own(c))

LEMMA LedgerTypes ==
  ASSUME DataInv, NEW s \in Sports, Connected(s)
  PROVE  /\ device[s].rcvd \in Nat /\ Out(s) \in Nat /\ connections[s].pending \in Nat
         /\ InChan(dataChan, s) \in Nat /\ Past(s) \in Nat
         /\ connections[s].client \in Conns
<1>1. connections[s] \in Connection
  BY PortUp
<1>2. device[s].rcvd \in Nat
  BY DEF DataInv, PipeTypes, DeviceEnd
<1>3. Out(s) \in Nat
  BY OutNat DEF DataInv
<1>4. connections[s].pending \in Nat /\ connections[s].client \in Conns
  BY <1>1 DEF Connection
<1>5. InChan(dataChan, s) \in Nat
  BY InChanNat DEF DataInv, UploadInv, ChannelTypes
<1> QED BY <1>2, <1>3, <1>4, <1>5 DEF Past

LEMMA OwnTypes ==
  ASSUME ChannelTypes, NEW c \in Conns
  PROVE  /\ pump[c].chunk \in Nat /\ user[c].out \in Nat /\ user[c].given \in Nat /\ Own(c) \in Nat
         /\ pump[c] \in PumpType /\ user[c] \in UserType
<1>1. pump[c] \in PumpType /\ user[c] \in UserType
  BY DEF ChannelTypes, PumpType, UserType
<1>2. pump[c].chunk \in Nat /\ user[c].out \in Nat /\ user[c].given \in Nat
  BY <1>1 DEF PumpType, UserType
<1> QED BY <1>1, <1>2 DEF Own

LEMMA LedgerTypesNext ==
  ASSUME DataInv', NEW s \in Sports, Connected(s)'
  PROVE  /\ device'[s].rcvd \in Nat /\ Out(s)' \in Nat /\ connections'[s].pending \in Nat
         /\ InChan(dataChan', s) \in Nat /\ Past(s)' \in Nat
         /\ connections'[s].client \in Conns
         /\ \A c \in Conns : Own(c)' \in Nat /\ user'[c].given \in Nat
<1>1. connections'[s] \in Connection
  BY DEF DataInv, UploadInv, StateInv, ConnectionTypes, Connected
<1>2. device'[s].rcvd \in Nat
  BY DEF DataInv, PipeTypes, DeviceEnd
<1>3. Out(s)' \in Nat
  <2>1. toDevice' \in Seq(Outgoing)
    BY DEF DataInv, PipeTypes
  <2>2. Carried(toDevice', s, Len(toDevice')) \in Nat
    BY <2>1, CarriedAll
  <2> QED BY <2>2 DEF Out, OnPipe
<1>4. connections'[s].pending \in Nat /\ connections'[s].client \in Conns
  BY <1>1 DEF Connection
<1>5. InChan(dataChan', s) \in Nat
  <2>1. dataChan' \in Seq((0..MaxSport) \X Nat)
    BY DEF DataInv, UploadInv, ChannelTypes
  <2> QED BY <2>1, InChanNat
<1>6. Past(s)' \in Nat
  <2> DEFINE r == device'[s].rcvd
             o == Out(s)'
             w == connections'[s].pending
             i == InChan(dataChan', s)
  <2>1. Past(s)' = r + o + w + i
    BY DEF Past
  <2>2. r \in Nat /\ o \in Nat /\ w \in Nat /\ i \in Nat
    BY <1>2, <1>3, <1>4, <1>5
  <2> HIDE DEF r, o, w, i
  <2> QED BY <2>1, <2>2
<1>7. ASSUME NEW c \in Conns PROVE Own(c)' \in Nat /\ user'[c].given \in Nat
  <2>1. pump'[c].chunk \in Nat /\ user'[c].out \in Nat /\ user'[c].given \in Nat
    BY DEF DataInv, UploadInv, ChannelTypes
  <2> QED BY <2>1 DEF Own
<1> QED BY <1>2, <1>3, <1>4, <1>5, <1>6, <1>7

LEMMA LedgerIf ==
  ASSUME DataInv, DataInv', NEW s \in Sports, Ledger(s), Balanced(s)
  PROVE  Ledger(s)'
<1> SUFFICES ASSUME Connected(s)', writerUp', device'[s].open, NEW c \in Conns,
                    c = connections'[s].client
             PROVE  user'[c].given = Past(s)' + Own(c)'
  BY DEF Ledger
<1>1. /\ Connected(s) /\ writerUp /\ device[s].open /\ c = connections[s].client
  BY DEF Balanced
<1>2. Past(s) \in Nat /\ Past(s)' \in Nat /\ Own(c)' \in Nat /\ user'[c].given \in Nat
  BY <1>1, LedgerTypes, LedgerTypesNext
<1>3. Own(c) \in Nat /\ user[c].given \in Nat
  BY OwnTypes DEF DataInv, UploadInv
<1>4. user'[c].given - (Past(s)' + Own(c)') = user[c].given - (Past(s) + Own(c))
  BY <1>1 DEF Balanced
<1>5. user[c].given = Past(s) + Own(c)
  BY <1>1 DEF Ledger
<1> DEFINE x == Past(s)
           x2 == Past(s)'
           y == Own(c)
           y2 == Own(c)'
           g == user[c].given
           g2 == user'[c].given
<1>6. x \in Nat /\ x2 \in Nat /\ y \in Nat /\ y2 \in Nat /\ g \in Nat /\ g2 \in Nat
      /\ g2 - (x2 + y2) = g - (x + y) /\ g = x + y
  BY <1>2, <1>3, <1>4, <1>5
<1> HIDE DEF x, x2, y, y2, g, g2
<1>7. g2 = x2 + y2
  BY <1>6
<1> QED BY <1>7 DEF x2, y2, g2

LEMMA MovingBalanced ==
  ASSUME DataInv, DataInv', Moving, NEW s \in Sports
  PROVE  Balanced(s)
<1> SUFFICES ASSUME Connected(s)', writerUp', device'[s].open
             PROVE  /\ Connected(s) /\ writerUp /\ device[s].open
                    /\ connections'[s].client = connections[s].client
                    /\ \A c \in Conns : Past(s)' + Own(c)' = Past(s) + Own(c) /\ user' = user
  BY DEF Balanced
<1>1. UNCHANGED <<writerUp, device, pump, user>>
  BY DEF Moving, DataStep, DataIgnored, DataFromPump, ClientClosed, TakeData, Drained,
         UnknownConnection, Refused, Undeliverable, Received, TakePacket, KeepTasks
<1>2. Moves(s)
  BY TaskMoves
<1>3. /\ Connected(s) /\ connections'[s].client = connections[s].client
      /\ Out(s)' + connections'[s].pending + InChan(dataChan', s)
           = Out(s) + connections[s].pending + InChan(dataChan, s)
  BY <1>1, <1>2 DEF Moves
<1> DEFINE r == device[s].rcvd
           o == Out(s)
           o2 == Out(s)'
           w == connections[s].pending
           w2 == connections'[s].pending
           i == InChan(dataChan, s)
           i2 == InChan(dataChan', s)
<1>4. r \in Nat /\ o \in Nat /\ w \in Nat /\ i \in Nat /\ o2 \in Nat /\ w2 \in Nat /\ i2 \in Nat
  <2>1. o2 \in Nat /\ w2 \in Nat /\ i2 \in Nat
    BY LedgerTypesNext
  <2> QED BY <1>3, <2>1, LedgerTypes
<1>5. Past(s) = r + o + w + i /\ Past(s)' = r + o2 + w2 + i2
  BY <1>1 DEF Past
<1>6. o2 + w2 + i2 = o + w + i
  BY <1>3
<1> HIDE DEF r, o, o2, w, w2, i, i2
<1>7. Past(s)' = Past(s)
  BY <1>4, <1>5, <1>6
<1>8. \A c \in Conns : Own(c)' = Own(c)
  BY <1>1 DEF Own
<1> QED BY <1>1, <1>3, <1>7, <1>8

(* Neither the clients' bytes nor the port's account change. *)
LEMMA SameBalanced ==
  ASSUME NEW s \in Sports, writerUp' => writerUp, device'[s].open => device[s].open,
         Connected(s)' => Connected(s) /\ connections'[s].client = connections[s].client,
         Connected(s)' /\ writerUp' /\ device'[s].open =>
            /\ Past(s)' = Past(s)
            /\ \A c \in Conns : c = connections[s].client => pump'[c] = pump[c] /\ user'[c] = user[c]
  PROVE  Balanced(s)
<1> QED BY DEF Balanced, Own

(* A client, its pump or its forwarder moves bytes: what is before the task *)
(* changes, by what c was given.                                           *)
LEMMA BalancedIf ==
  ASSUME DataInv, DataInv', Claims, NEW s \in Sports, NEW c \in Conns,
         UNCHANGED <<writerUp, connections, toDevice, device>>,
         \A d \in Conns : d # c => pump'[d] = pump[d] /\ user'[d] = user[d],
         s # sportOf[c] => InChan(dataChan', s) = InChan(dataChan, s),
         s = sportOf[c] /\ Connected(s) =>
           user'[c].given - (InChan(dataChan', s) + Own(c)') = user[c].given - (InChan(dataChan, s) + Own(c))
  PROVE  Balanced(s)
<1> SUFFICES ASSUME Connected(s), Connected(s)', NEW d \in Conns, d = connections[s].client
             PROVE  user'[d].given - (Past(s)' + Own(d)') = user[d].given - (Past(s) + Own(d))
  BY DEF Balanced, Connected
<1> DEFINE r == device[s].rcvd
           o == Out(s)
           w == connections[s].pending
           i == InChan(dataChan, s)
           j == InChan(dataChan', s)
           x == Own(d)
           y == Own(d)'
           g == user[d].given
           h == user'[d].given
<1>1. r \in Nat /\ o \in Nat /\ w \in Nat /\ i \in Nat /\ j \in Nat
  BY LedgerTypes, LedgerTypesNext
<1>2. Past(s) = r + o + w + i /\ Past(s)' = r + o + w + j
  BY DEF Past, Out, OnPipe
<1>3. x \in Nat /\ y \in Nat /\ g \in Nat /\ h \in Nat
  <2>1. x \in Nat /\ g \in Nat
    BY OwnTypes DEF DataInv, UploadInv
  <2>2. y \in Nat /\ h \in Nat
    BY LedgerTypesNext
  <2> QED BY <2>1, <2>2
<1>4. sportOf[d] = s
  BY DEF Claims
<1>5. h - (j + y) = g - (i + x)
  <2>1. CASE d = c
    BY <1>4, <2>1
  <2>2. CASE d # c
    <3>1. s # sportOf[c]
      <4>1. sportOf[d] # 0
        BY <1>4 DEF Sports
      <4> QED BY <1>4, <2>2, <4>1 DEF Claims
    <3>2. i = j /\ x = y /\ g = h
      BY <2>2, <3>1 DEF Own
    <3> QED BY <3>2
  <2> QED BY <2>1, <2>2
<1> HIDE DEF r, o, w, i, j, x, y, g, h
<1>6. h - (r + o + w + j + y) = g - (r + o + w + i + x)
  BY <1>1, <1>3, <1>5
<1> QED BY <1>2, <1>6 DEF x, y, g, h

LEMMA PumpBalanced ==
  ASSUME DataInv, DataInv', Claims, Tidy, NEW c \in Conns, PumpAct(c), NEW s \in Sports
  PROVE  Balanced(s)
<1> DEFINE a == pump[c].chunk
           b == pump'[c].chunk
           u == user[c].out
           v == user'[c].out
           i == InChan(dataChan, s)
           j == InChan(dataChan', s)
<1>1. UNCHANGED <<mux, writerUp, connections, toDevice, device, sportOf>>
  BY DEF PumpAct, PumpChecks, PumpNotified, PumpReads, PumpSends, PumpStep, taskVars
<1>2. ChannelTypes /\ dataChan \in Seq((0..MaxSport) \X Nat) /\ dataChan' \in Seq((0..MaxSport) \X Nat)
  BY DEF DataInv, UploadInv, ChannelTypes
<1>3. /\ a \in Nat /\ u \in Nat /\ b \in Nat /\ v \in Nat /\ user[c].given \in Nat
      /\ sportOf[c] \in 0..MaxSport /\ pump[c] \in PumpType
  <2>1. b \in Nat /\ v \in Nat
    BY DEF DataInv, UploadInv, ChannelTypes
  <2>2. sportOf[c] \in 0..MaxSport
    BY <1>2 DEF ChannelTypes
  <2> QED BY <1>2, <2>1, <2>2, OwnTypes
<1>4. \A d \in Conns : d # c => pump'[d] = pump[d] /\ user'[d] = user[d]
  BY <1>2 DEF PumpAct, PumpChecks, PumpNotified, PumpReads, PumpSends, ChannelTypes
<1>5. user'[c].given = user[c].given
  BY <1>2 DEF PumpAct, PumpChecks, PumpNotified, PumpReads, PumpSends, ChannelTypes
<1>6. i \in Nat /\ j \in Nat
  BY <1>2, InChanNat
<1>7. s # sportOf[c] => j = i
  <2>1. dataChan' = dataChan \/ dataChan' = Append(dataChan, <<sportOf[c], a>>)
    BY DEF PumpAct, PumpChecks, PumpNotified, PumpReads, PumpSends
  <2>2. InChan(Append(dataChan, <<sportOf[c], a>>), s) = i + (IF sportOf[c] = s THEN a ELSE 0)
    BY <1>2, <1>3, InChanPut
  <2>3. CASE dataChan' = dataChan
    BY <2>3
  <2>4. CASE dataChan' = Append(dataChan, <<sportOf[c], a>>)
    <3> SUFFICES ASSUME s # sportOf[c] PROVE j = i
      OBVIOUS
    <3>1. j = i + 0
      BY <2>2, <2>4
    <3> HIDE DEF i, j
    <3> QED BY <1>6, <3>1
  <2> QED BY <2>1, <2>3, <2>4
<1>8. s = sportOf[c] /\ Connected(s) => j + b + v = i + a + u
  <2> SUFFICES ASSUME s = sportOf[c], Connected(s) PROVE j + b + v = i + a + u
    OBVIOUS
  <2>1. CASE PumpChecks(c) \/ PumpNotified(c)
    <3>1. dataChan' = dataChan /\ user' = user /\ b = a
      BY <1>2, <2>1 DEF PumpChecks, PumpNotified, ChannelTypes
    <3> QED BY <3>1
  <2>2. CASE PumpReads(c)
    <3> DEFINE n == Least(u, MaxPayload)
    <3>1. dataChan' = dataChan /\ b = n /\ v = u - n /\ pump[c].pc = "reading"
      BY <1>2, <2>2 DEF PumpReads, ChannelTypes
    <3>2. a = 0
      BY <3>1 DEF Tidy
    <3>3. n \in Nat /\ n <= u
      BY <1>3, Sizes DEF Least
    <3> HIDE DEF a, b, u, v, i, j, n
    <3>4. i = j
      BY <3>1 DEF i, j
    <3> QED BY <1>3, <1>6, <3>1, <3>2, <3>3, <3>4
  <2>3. CASE PumpSends(c)
    <3>1. mux # "exited"
      BY DEF Tidy, Connected
    <3>2. dataChan' = Append(dataChan, <<sportOf[c], a>>) /\ user' = user /\ b = 0
      BY <1>2, <2>3, <3>1 DEF PumpSends, ChannelTypes
    <3>3. j = i + a
      <4>1. InChan(Append(dataChan, <<sportOf[c], a>>), s) = i + (IF sportOf[c] = s THEN a ELSE 0)
        BY <1>2, <1>3, InChanPut
      <4> QED BY <3>2, <4>1
    <3>4. u = v
      BY <3>2
    <3> HIDE DEF a, b, u, v, i, j
    <3> QED BY <1>3, <1>6, <3>2, <3>3, <3>4
  <2> QED BY <2>1, <2>2, <2>3 DEF PumpAct
<1>9. Own(c) = a + u /\ Own(c)' = b + v
  BY DEF Own
<1> DEFINE g == user[c].given
<1>10. s = sportOf[c] /\ Connected(s) => g - (j + (b + v)) = g - (i + (a + u))
  <2> HIDE DEF a, b, u, v, i, j
  <2> QED BY <1>3, <1>6, <1>8 DEF g
<1>11. s = sportOf[c] /\ Connected(s) =>
          user'[c].given - (InChan(dataChan', s) + Own(c)') = user[c].given - (InChan(dataChan, s) + Own(c))
  BY <1>5, <1>9, <1>10
<1> HIDE DEF a, b, u, v, i, j, g
<1>12. s # sportOf[c] => InChan(dataChan', s) = InChan(dataChan, s)
  BY <1>7 DEF i, j
<1> QED BY <1>1, <1>4, <1>11, <1>12, BalancedIf

LEMMA UserBalanced ==
  ASSUME DataInv, DataInv', Claims, NEW c \in Conns, ForwarderAct(c) \/ UserAct(c), NEW s \in Sports
  PROVE  Balanced(s)
<1>1. UNCHANGED <<writerUp, connections, toDevice, device, dataChan, pump>>
  BY DEF ForwarderAct, ForwarderWrites, ForwarderEnds, ForwarderStep, UserAct, CallConnect, UserWrites,
         UserReads, UserShuts, UserDrops, UserStep, taskVars
<1>2. user \in [Conns -> UserType]
  BY DEF DataInv, UploadInv, ChannelTypes, UserType
<1>3. \A d \in Conns : d # c => user'[d] = user[d]
  BY <1>2 DEF ForwarderAct, ForwarderWrites, ForwarderEnds, UserAct, CallConnect, UserWrites, UserReads,
              UserShuts, UserDrops
<1> DEFINE g == user[c].given
           u == user[c].out
           h == user'[c].given
           v == user'[c].out
<1>4. (h = g /\ v = u) \/ (h = g + 1 /\ v = u + 1)
  <2>1. CASE UserWrites(c)
    BY <1>2, <2>1 DEF UserWrites, UserType
  <2>2. CASE ForwarderAct(c)
    BY <1>2, <2>2 DEF ForwarderAct, ForwarderWrites, ForwarderEnds, UserType
  <2>3. CASE CallConnect(c) \/ UserReads(c) \/ UserShuts(c) \/ UserDrops(c)
    BY <1>2, <2>3 DEF CallConnect, UserReads, UserShuts, UserDrops, UserType
  <2> QED BY <2>1, <2>2, <2>3 DEF UserAct
<1> DEFINE i == InChan(dataChan, s)
           a == pump[c].chunk
<1>5. i \in Nat /\ a \in Nat /\ g \in Nat /\ u \in Nat
  <2>1. ChannelTypes /\ dataChan \in Seq((0..MaxSport) \X Nat)
    BY DEF DataInv, UploadInv, ChannelTypes
  <2>2. i \in Nat
    BY <2>1, InChanNat
  <2> QED BY <2>1, <2>2, OwnTypes
<1>6. Own(c) = a + u /\ Own(c)' = a + v /\ InChan(dataChan', s) = i
  BY <1>1 DEF Own
<1>7. h - (i + (a + v)) = g - (i + (a + u))
  <2> HIDE DEF g, h, u, v, i, a
  <2> QED BY <1>4, <1>5
<1>8. user'[c].given - (InChan(dataChan', s) + Own(c)') = user[c].given - (InChan(dataChan, s) + Own(c))
  BY <1>6, <1>7
<1> HIDE DEF g, h, u, v, i, a
<1>9. InChan(dataChan', s) = InChan(dataChan, s) /\ \A d \in Conns : d # c => pump'[d] = pump[d] /\ user'[d] = user[d]
  BY <1>1, <1>3
<1> QED BY <1>1, <1>8, <1>9, BalancedIf

LEMMA StillBalanced ==
  ASSUME UNCHANGED <<connections, toDevice, device, dataChan, pump, user>>, writerUp' => writerUp,
         NEW s \in Sports
  PROVE  Balanced(s)
<1>1. Past(s)' = Past(s)
  BY DEF Past, Out, OnPipe
<1> QED BY <1>1, SameBalanced DEF Connected

LEMMA ClientBalanced ==
  ASSUME DataInv, DataInv', Claims, Tidy, ClientActs, NEW s \in Sports
  PROVE  Balanced(s)
<1>1. CASE CallShutdown
  BY <1>1, StillBalanced DEF CallShutdown
<1> QED BY <1>1, PumpBalanced, UserBalanced DEF ClientActs

LEMMA DeviceBalanced ==
  ASSUME DataInv, DeviceActs, NEW s \in Sports
  PROVE  Balanced(s)
<1>1. UNCHANGED <<writerUp, connections, dataChan, pump, user>>
  BY DeviceActsOnly
<1>2. device \in [Sports -> DeviceEnd] /\ toDevice \in Seq(Outgoing)
  BY DEF DataInv, PipeTypes
<1>3. ASSUME Connected(s), device'[s].open
      PROVE  device[s].open /\ device'[s].rcvd + Out(s)' = device[s].rcvd + Out(s)
  <2>1. CASE DeviceTakes
    <3>0. PICK f, p : f = Head(toDevice) /\ p = f.sport
      OBVIOUS
    <3>1. toDevice # <<>> /\ toDevice' = Tail(toDevice)
      BY <2>1 DEF DeviceTakes
    <3>2. /\ f \in Outgoing /\ p \in Sports /\ f.len \in Nat /\ 1 \in DOMAIN toDevice /\ toDevice[1] = f
          /\ Out(p) = f.len + Out(p)' /\ Out(p) \in Nat /\ Out(p)' \in Nat
      BY <3>0, <3>1, FrameTaken
    <3>3. CASE s = p
      <4>1. f.flags # "SYN"
        <5>1. SynFirst(s) /\ toDevice[1].sport = s
          BY <3>0, <3>2, <3>3 DEF DataInv, UInv
        <5>2. toDevice[1].flags # "SYN"
          BY <1>3, <3>2, <5>1 DEF SynFirst
        <5> QED BY <3>2, <5>2
      <4>2. f.flags = "ACK" /\ device[p].open /\ device'[p].rcvd = device[p].rcvd + f.len
        <5> DEFINE d == device[p]
        <5>1. d \in DeviceEnd
          BY <1>2, <3>2
        <5>2. \/ /\ f.flags = "ACK" /\ d.open
                 /\ device' = [device EXCEPT ![p] =
                      [d EXCEPT !.rcvd = @ + f.len, !.held = @ + f.len, !.ack = f.ack, !.win = f.win]]
              \/ f.flags = "RST" /\ device' = [device EXCEPT ![p].open = FALSE]
              \/ f.flags = "ACK" /\ ~d.open /\ device' = device
          BY <2>1, <3>0, <4>1 DEF DeviceTakes
        <5>3. CASE f.flags = "RST" /\ device' = [device EXCEPT ![p].open = FALSE]
          BY <1>2, <1>3, <3>2, <3>3, <5>3 DEF DeviceEnd
        <5>4. CASE f.flags = "ACK" /\ ~d.open /\ device' = device
          BY <1>3, <3>3, <5>4
        <5>5. CASE /\ f.flags = "ACK" /\ d.open
                   /\ device' = [device EXCEPT ![p] =
                       [d EXCEPT !.rcvd = @ + f.len, !.held = @ + f.len, !.ack = f.ack, !.win = f.win]]
          <6> DEFINE e == [d EXCEPT !.rcvd = @ + f.len, !.held = @ + f.len, !.ack = f.ack, !.win = f.win]
          <6>1. e.rcvd = d.rcvd + f.len
            <7> HIDE DEF d
            <7> QED BY <5>1 DEF DeviceEnd
          <6> HIDE DEF e
          <6>2. device'[p] = e
            BY <1>2, <3>2, <5>5 DEF e
          <6> QED BY <5>5, <6>1, <6>2
        <5> QED BY <5>2, <5>3, <5>4, <5>5
      <4> DEFINE r == device[p].rcvd
                 o == Out(p)
                 q == Out(p)'
      <4>3. r \in Nat /\ device'[p].rcvd = r + f.len /\ o = f.len + q /\ q \in Nat
        BY <1>2, <3>2, <4>2 DEF DeviceEnd
      <4> HIDE DEF r, o, q
      <4>4. device'[p].rcvd + q = r + o
        BY <3>2, <4>3
      <4> QED BY <3>3, <4>2, <4>4 DEF r, o, q
    <3>4. CASE s # p
      <4>1. Out(s)' = Out(s)
        BY <1>2, <3>0, <3>1, <3>4, OnwardTaken DEF Out, OnPipe
      <4>2. device'[s] = device[s]
        BY <1>2, <2>1, <3>0, <3>4 DEF DeviceTakes
      <4> QED BY <1>3, <4>1, <4>2
    <3> QED BY <3>3, <3>4
  <2>2. CASE toDevice' = toDevice /\ device'[s].rcvd = device[s].rcvd /\ (device'[s].open => device[s].open)
    <3>1. Out(s)' = Out(s)
      BY <2>2 DEF Out, OnPipe
    <3> QED BY <1>3, <2>2, <3>1
  <2>3. ASSUME NEW p \in Sports, DeviceConsumes(p)
        PROVE  toDevice' = toDevice /\ device'[s].rcvd = device[s].rcvd /\ (device'[s].open => device[s].open)
    BY <1>2, <2>3 DEF DeviceConsumes, DeviceEnd
  <2>4. ASSUME NEW p \in Sports, NEW n \in 0..MaxPayload, DeviceSends(p, n)
        PROVE  toDevice' = toDevice /\ device'[s].rcvd = device[s].rcvd /\ (device'[s].open => device[s].open)
    <3> DEFINE v == View(device[p])
               m == device[p].sent + n
    <3>1. device' = [device EXCEPT ![p].sent = m, ![p].told = v] /\ toDevice' = toDevice
      BY <2>4 DEF DeviceSends
    <3> HIDE DEF v, m
    <3> QED BY <1>2, <3>1 DEF DeviceEnd
  <2>5. ASSUME NEW p \in Sports, DeviceResets(p)
        PROVE  toDevice' = toDevice /\ device'[s].rcvd = device[s].rcvd /\ (device'[s].open => device[s].open)
    BY <1>2, <2>5 DEF DeviceResets, DeviceEnd
  <2> QED BY <2>1, <2>2, <2>3, <2>4, <2>5 DEF DeviceActs
<1>4. Connected(s)' => Connected(s) /\ connections'[s].client = connections[s].client
  BY <1>1 DEF Connected
<1> SUFFICES ASSUME Connected(s), device'[s].open
             PROVE  /\ device[s].open
                    /\ \A c \in Conns : Past(s)' = Past(s) /\ Own(c)' = Own(c) /\ user' = user
  BY <1>1, <1>4 DEF Balanced
<1>5. device[s].open /\ device'[s].rcvd + Out(s)' = device[s].rcvd + Out(s)
  BY <1>3
<1> DEFINE x == device[s].rcvd + Out(s)
           y == connections[s].pending
           z == InChan(dataChan, s)
<1>6. Past(s) = x + y + z
  BY DEF Past
<1>7. Past(s)' = x + y + z
  BY <1>1, <1>5 DEF Past
<1>8. Past(s)' = Past(s)
  BY <1>6, <1>7
<1> QED BY <1>1, <1>5, <1>8 DEF Own

LEMMA ConnectBalanced ==
  ASSUME PortsSuffice, DataInv, MuxConnect, NEW s \in Sports
  PROVE  Balanced(s)
<1>0. PICK p, c : p = nextSport /\ c = Head(cmds)
  OBVIOUS
<1> DEFINE f == Frame(p, NewConnection(c), "SYN", 0)
           Q == <<f>>
<1>1. /\ c \in Conns /\ UNCHANGED <<writerUp, device, dataChan, pump, user>>
      /\ \/ toDevice' = toDevice \o Q /\ connections' = Put(connections, p, NewConnection(c))
         \/ UNCHANGED <<connections, toDevice>>
  BY <1>0 DEF MuxConnect, Emit
<1>2. p \in Sports
  BY <1>0, ServedByConnect DEF DataInv
<1>3. NewConnection(c) \in Connection /\ NewConnection(c).state = "Connecting"
  BY <1>1, NewFields
<1>4. CASE UNCHANGED <<connections, toDevice>>
  BY <1>1, <1>4, StillBalanced
<1>5. CASE toDevice' = toDevice \o Q /\ connections' = Put(connections, p, NewConnection(c))
  <2>1. /\ connections'[p] = NewConnection(c)
        /\ \A q \in DOMAIN connections' : q # p => q \in DOMAIN connections /\ connections'[q] = connections[q]
    BY <1>5 DEF Put
  <2>2. CASE s = p
    BY <1>3, <2>1, <2>2 DEF Balanced, Connected
  <2>3. CASE s # p
    <3>1. f \in Outgoing /\ f.sport = p
      <4>1. f \in Outgoing
        BY <1>2, <1>3, FrameIsOutgoing DEF Flags
      <4> QED BY <4>1 DEF Frame
    <3> HIDE DEF f
    <3>2. Q \in Seq(Outgoing) /\ \A i \in DOMAIN Q : Q[i].sport # s
      BY <2>3, <3>1
    <3> HIDE DEF Q
    <3>3. Out(s)' = Out(s)
      <4>1. PipeTypes
        BY DEF DataInv
      <4> DEFINE k == Carried(Q, s, Len(Q))
      <4>2. Out(s)' = Out(s) + k /\ Out(s) \in Nat /\ k = 0
        BY <1>5, <3>2, <4>1, OutPut
      <4> HIDE DEF k
      <4> QED BY <4>2
    <3>4. Connected(s)' => Connected(s) /\ connections'[s] = connections[s]
      BY <2>1, <2>3 DEF Connected
    <3>5. Connected(s)' => Past(s)' = Past(s)
      BY <1>1, <3>3, <3>4 DEF Past
    <3> QED BY <1>1, <3>4, <3>5, SameBalanced
  <2> QED BY <2>2, <2>3
<1> QED BY <1>1, <1>4, <1>5

LEMMA AcceptedLedger ==
  ASSUME DataInv, DataInv', Claims, Accepted, NEW s \in Sports, Ledger(s)
  PROVE  Ledger(s)'
<1>0. PICK p, c : p = pkt.sport /\ c = Heard.client
  OBVIOUS
<1> DEFINE conn == [Heard EXCEPT !.txSeq = (@ + 1) % SeqSpace, !.txAck = (@ + 1) % SeqSpace]
           up == [conn EXCEPT !.state = "Connected"]
           f == Frame(p, conn, "ACK", 0)
           Q == <<f>>
<1>1. /\ TakePacket /\ p \in DOMAIN connections /\ Heard.state = "Connecting"
      /\ UNCHANGED <<writerUp, device, dataChan>>
      /\ \/ /\ toDevice' = toDevice \o Q
            /\ connections' = [connections EXCEPT ![p] = up]
            /\ pump' = [pump EXCEPT ![c].pc = "check"]
            /\ user' = [user EXCEPT ![c].side = "open"]
         \/ /\ ~writerUp /\ connections' = [connections EXCEPT ![p] = conn]
            /\ UNCHANGED <<toDevice, pump, user>>
  BY <1>0 DEF Accepted, TakePacket, Emit
<1>2. /\ p \in Sports /\ Heard \in Connection /\ c = connections[p].client
      /\ Heard.state = connections[p].state /\ c \in Conns /\ Heard.pending = connections[p].pending
  <2>1. /\ Heard \in Connection /\ Heard.client = connections[p].client /\ Heard.state = connections[p].state
        /\ Heard.pending = connections[p].pending
    BY <1>0, <1>1, HeardFields DEF TakePacket, DataInv, UploadInv, StateInv
  <2> QED BY <1>0, <1>1, <2>1 DEF DataInv, UploadInv, StateInv, ConnectionTypes, Connection
<1>3. /\ conn \in Connection /\ conn.client = c /\ conn.state = "Connecting"
      /\ up.client = c /\ up.state = "Connected" /\ up.pending = connections[p].pending
  <2>1. conn \in Connection /\ conn.client = c /\ conn.state = "Connecting" /\ conn.pending = Heard.pending
    BY <1>0, <1>1, <1>2, AcceptedFields
  <2> HIDE DEF conn
  <2> QED BY <1>2, <2>1, SMTT(30) DEF Connection
<1>4. f \in Outgoing /\ f.sport = p /\ f.len = 0
  <2>1. f \in Outgoing
    BY <1>2, <1>3, FrameIsOutgoing DEF Flags
  <2> HIDE DEF conn
  <2> QED BY <2>1 DEF Frame
<1> HIDE DEF conn, up, f
<1>5. Connecting(p) /\ ~Connected(p) /\ Unclaimed(p) /\ Starting(p) /\ connections[p].pending = 0
  <2>1. Connecting(p) /\ ~Connected(p)
    BY <1>1, <1>2 DEF Connecting, Connected
  <2>2. connections[p].pending = 0
    BY <1>1, <1>2 DEF DataInv, UploadInv, StateInv, Upload
  <2> QED BY <1>2, <2>1, <2>2 DEF Claims, DataInv, UInv
<1>6. calls[c] = "calling" /\ Idle(c) /\ \A q \in DOMAIN connections : q # p => connections[q].client # c
  <2>1. calls[c] = "calling"
    BY <1>1, <1>2 DEF DataInv, UploadInv, StateInv, Tokens
  <2> QED BY <1>1, <1>2, <2>1 DEF DataInv, UploadInv, StateInv, Tokens, Up, Claims
<1>7. CASE ~writerUp
  BY <1>1, <1>7 DEF Ledger
<1>8. CASE /\ toDevice' = toDevice \o Q
           /\ connections' = [connections EXCEPT ![p] = up]
           /\ pump' = [pump EXCEPT ![c].pc = "check"]
           /\ user' = [user EXCEPT ![c].side = "open"]
  <2>1. Out(s)' = Out(s) /\ Out(s) \in Nat
    <3> DEFINE k == Carried(Q, s, Len(Q))
    <3>1. Q \in Seq(Outgoing) /\ Len(Q) = 1
      BY <1>4
    <3>2. Carried(Q, s, 1) = 0
      BY <1>4, CarriedOne
    <3>3. PipeTypes
      BY DEF DataInv
    <3>4. k = 0
      BY <3>1, <3>2
    <3> HIDE DEF Q
    <3>5. Out(s)' = Out(s) + k /\ Out(s) \in Nat
      BY <1>8, <3>1, <3>3, OutPut
    <3> HIDE DEF k
    <3> QED BY <3>4, <3>5
  <2>2. /\ \A d \in Conns : /\ d # c => pump'[d] = pump[d]
                            /\ pump'[d].chunk = pump[d].chunk
                            /\ user'[d].out = user[d].out /\ user'[d].given = user[d].given
    BY <1>8 DEF DataInv, UploadInv, ChannelTypes
  <2>3. \A d \in Conns : Own(d)' = Own(d) /\ user'[d].given = user[d].given
    BY <2>2 DEF Own
  <2>4. CASE s = p
    <3>1. device[s].rcvd = 0 /\ Out(s) = 0
      <4>1. /\ device[s].rcvd = 0 /\ \A i \in DOMAIN toDevice : toDevice[i].sport = s => toDevice[i].len = 0
        BY <1>5, <2>4 DEF Starting
      <4>2. toDevice \in Seq(Outgoing) /\ Len(toDevice) \in Nat /\ Len(toDevice) <= Len(toDevice)
        BY DEF DataInv, PipeTypes
      <4>3. \A i \in 1..Len(toDevice) : toDevice[i].sport = s => toDevice[i].len = 0
        BY <4>1, <4>2
      <4> QED BY <4>1, <4>2, <4>3, CarriedNone DEF Out, OnPipe
    <3>2. InChan(dataChan, s) = 0
      <4>1. dataChan \in Seq((0..MaxSport) \X Nat)
        BY DEF DataInv, UploadInv, ChannelTypes
      <4> QED BY <1>5, <2>4, <4>1, InChanNat DEF Unclaimed
    <3>3. connections'[s].pending = 0 /\ connections'[s].client = c
      BY <1>1, <1>3, <1>5, <1>8, <2>4
    <3>4. Past(s)' = 0
      <4>1. device'[s].rcvd = 0 /\ Out(s)' = 0 /\ InChan(dataChan', s) = 0
        BY <1>1, <2>1, <3>1, <3>2
      <4> QED BY <3>3, <4>1 DEF Past
    <3>5. Own(c)' = 0 /\ user'[c].given = 0
      BY <1>2, <1>6, <2>3 DEF Idle, Own
    <3> QED BY <3>3, <3>4, <3>5 DEF Ledger
  <2>5. CASE s # p
    <3>1. Connected(s)' => Connected(s) /\ connections'[s] = connections[s]
      BY <1>8, <2>5 DEF Connected
    <3>2. Past(s)' = Past(s) \/ ~Connected(s)'
      BY <1>1, <2>1, <3>1 DEF Past
    <3>3. Balanced(s)
      BY <1>1, <2>3, <3>1, <3>2 DEF Balanced
    <3> QED BY <3>3, LedgerIf
  <2> QED BY <2>4, <2>5
<1> QED BY <1>1, <1>7, <1>8

LEMMA TidyStep ==
  ASSUME DataInv, Claims, Tidy, Next
  PROVE  Tidy'
<1>1. ChannelTypes
  BY DEF DataInv, UploadInv
<1>2. ASSUME NEW c \in Conns PROVE pump'[c].pc # "sending" => pump'[c].chunk = 0
  <2>1. CASE pump' = pump
    BY <2>1 DEF Tidy
  <2>2. ASSUME NEW d \in Conns, PumpAct(d) PROVE pump'[c].pc # "sending" => pump'[c].chunk = 0
    <3>1. pump \in [Conns -> PumpType] /\ (pump[d].pc # "sending" => pump[d].chunk = 0)
      BY <1>1 DEF ChannelTypes, PumpType, Tidy
    <3>2. CASE c # d
      BY <2>2, <3>1, <3>2 DEF PumpAct, PumpChecks, PumpNotified, PumpReads, PumpSends, Tidy
    <3>3. CASE c = d
      <4>1. CASE PumpChecks(d)
        BY <3>1, <3>3, <4>1 DEF PumpChecks, PumpType
      <4>2. CASE PumpNotified(d)
        BY <3>1, <3>3, <4>2 DEF PumpNotified, PumpType
      <4>3. CASE PumpReads(d)
        BY <3>1, <3>3, <4>3 DEF PumpReads, PumpType
      <4>4. CASE PumpSends(d)
        BY <3>1, <3>3, <4>4 DEF PumpSends, PumpType
      <4> QED BY <2>2, <4>1, <4>2, <4>3, <4>4 DEF PumpAct
    <3> QED BY <3>2, <3>3
  <2>3. CASE Accepted
    <3>0. PICK p, d : p = pkt.sport /\ d = Heard.client
      OBVIOUS
    <3>1. p \in DOMAIN connections /\ Heard.state = "Connecting" /\ TakePacket
          /\ (pump' = pump \/ pump' = [pump EXCEPT ![d].pc = "check"])
      BY <2>3, <3>0 DEF Accepted
    <3>2. d = connections[p].client /\ Heard.state = connections[p].state /\ d \in Conns
      <4>1. Heard \in Connection /\ Heard.client = connections[p].client /\ Heard.state = connections[p].state
        BY <3>0, <3>1, HeardFields DEF TakePacket, DataInv, UploadInv, StateInv
      <4> QED BY <3>0, <4>1 DEF Connection
    <3>3. Idle(d)
      BY <3>1, <3>2 DEF DataInv, UploadInv, StateInv, Tokens, Claims, Up
    <3>4. pump \in [Conns -> PumpType] /\ pump[d].chunk = 0
      BY <1>1, <3>3 DEF ChannelTypes, PumpType, Idle
    <3>5. CASE pump' = [pump EXCEPT ![d].pc = "check"] /\ c = d
      BY <3>4, <3>5 DEF PumpType
    <3>6. CASE pump' = [pump EXCEPT ![d].pc = "check"] /\ c # d
      BY <3>4, <3>6 DEF Tidy
    <3> QED BY <2>1, <3>1, <3>5, <3>6
  <2>4. Next => pump' = pump \/ Accepted \/ \E d \in Conns : PumpAct(d)
    <3>1. ClientActs => pump' = pump \/ \E d \in Conns : PumpAct(d)
      BY DEF ClientActs, CallShutdown, ForwarderAct, ForwarderWrites, ForwarderEnds, ForwarderStep,
             UserAct, CallConnect, UserWrites, UserReads, UserShuts, UserDrops, UserStep
    <3>2. TaskActs => pump' = pump \/ Accepted
      BY DEF TaskActs, MuxConnect, DataStep, DataIgnored, DataFromPump, ClientClosed, TakeData, Drained,
             PacketStep, UnknownConnection, Refused, Undeliverable, Received, KeepTasks
    <3>3. VersionReply \/ Exit \/ WriteFails => pump' = pump
      BY DEF VersionReply, Exit, WriteFails
    <3> QED BY <3>1, <3>2, <3>3, NextIs, DeviceActsOnly
  <2> QED BY <2>1, <2>2, <2>3, <2>4
<1>3. mux' = "exited" => \A s \in Sports : s \notin DOMAIN connections'
  <2>1. CASE Exit
    <3>1. DOMAIN <<>> = {}
      OBVIOUS
    <3> QED BY <2>1, <3>1 DEF Exit
  <2>2. CASE ClientActs
    BY <2>2, ClientActsOnly DEF Tidy
  <2>3. CASE DeviceActs
    BY <2>3, DeviceActsOnly DEF Tidy
  <2>4. CASE TaskActs
    BY <2>4, TaskActsOnly
  <2>5. CASE VersionReply \/ WriteFails
    BY <2>5 DEF VersionReply, WriteFails, Tidy
  <2> QED BY <2>1, <2>2, <2>3, <2>4, <2>5, NextIs
<1> QED BY <1>2, <1>3 DEF Tidy
-----------------------------------------------------------------------------
LedgerInv == DataInv /\ Claims /\ Tidy /\ \A s \in Sports : Ledger(s)

LEMMA UploadIfLedgerInv == LedgerInv => UploadConserved
<1> SUFFICES ASSUME LedgerInv, NEW s \in Sports, Live(s), NEW c, c = connections[s].client
             PROVE  user[c].given = device[s].rcvd + OnPipe(s, Len(toDevice)) + connections[s].pending
                                      + InChan(dataChan, s) + pump[c].chunk + user[c].out
  BY DEF UploadConserved
<1>1. Connected(s) /\ DataInv
  BY DEF Live, LedgerInv
<1>2. c \in Conns /\ Past(s) \in Nat
  BY <1>1, LedgerTypes
<1>3. user[c].given = Past(s) + Own(c)
  BY <1>2 DEF LedgerInv, Ledger, Live
<1>4. pump[c].chunk \in Nat /\ user[c].out \in Nat
  BY <1>1, <1>2, OwnTypes DEF DataInv, UploadInv
<1> DEFINE x == Past(s)
           a == pump[c].chunk
           b == user[c].out
<1>5. x = device[s].rcvd + OnPipe(s, Len(toDevice)) + connections[s].pending + InChan(dataChan, s)
  BY DEF Past, Out
<1>6. user[c].given = x + (a + b)
  BY <1>3 DEF Own
<1>7. x \in Nat /\ a \in Nat /\ b \in Nat
  BY <1>2, <1>4
<1> HIDE DEF x, a, b
<1>8. user[c].given = x + a + b
  BY <1>6, <1>7
<1> QED BY <1>5, <1>8 DEF a, b

LEMMA LedgerInvInit ==
  ASSUME PortsSuffice, Init
  PROVE  LedgerInv
<1>1. DataInv /\ Claims
  BY DataInvInit, ClaimsInit
<1>2. Tidy
  BY DEF Init, Tidy
<1>3. \A s \in Sports : ~Connected(s)
  <2>1. DOMAIN <<>> = {}
    OBVIOUS
  <2> QED BY <2>1 DEF Init, Connected
<1> QED BY <1>1, <1>2, <1>3 DEF LedgerInv, Ledger

LEMMA LedgerInvStep ==
  ASSUME PortsSuffice, LedgerInv, Next
  PROVE  LedgerInv'
<1>1. DataInv /\ Claims /\ Tidy /\ \A s \in Sports : Ledger(s)
  BY DEF LedgerInv
<1>2. DataInv'
  BY <1>1, DataInvStep
<1>3. Served \subseteq Served'
  BY <1>1, ServedKept DEF DataInv
<1>4. Used
  BY <1>3, FreshFewer DEF Used
<1>5. Claims' /\ Tidy'
  BY <1>1, <1>2, <1>4, ClaimsStep, TidyStep
<1>6. ASSUME NEW s \in Sports PROVE Ledger(s)'
  <2>1. Balanced(s) => Ledger(s)'
    BY <1>1, <1>2, LedgerIf
  <2>2. CASE ClientActs
    BY <1>1, <1>2, <2>1, <2>2, ClientBalanced
  <2>3. CASE DeviceActs
    BY <1>1, <2>1, <2>3, DeviceBalanced
  <2>4. CASE MuxConnect
    BY <1>1, <2>1, <2>4, ConnectBalanced
  <2>5. CASE Moving
    BY <1>1, <1>2, <2>1, <2>5, MovingBalanced
  <2>6. CASE Accepted
    BY <1>1, <1>2, <2>6, AcceptedLedger
  <2>7. CASE VersionReply
    BY <2>1, <2>7, StillBalanced DEF VersionReply
  <2>8. CASE WriteFails
    BY <2>8 DEF WriteFails, Ledger
  <2>9. CASE Exit
    <3>1. DOMAIN <<>> = {}
      OBVIOUS
    <3> QED BY <2>9, <3>1 DEF Exit, Ledger, Connected
  <2> QED BY <2>2, <2>3, <2>4, <2>5, <2>6, <2>7, <2>8, <2>9, NextIs DEF TaskActs, Moving, PacketStep
<1> QED BY <1>1, <1>2, <1>5, <1>6 DEF LedgerInv

LEMMA LedgerInvAlways ==
  ASSUME PortsSuffice
  PROVE  Spec => [](DataInv /\ LedgerInv)
<1>1. DataInv /\ DataInv' /\ LedgerInv /\ [Next /\ UNCHANGED load]_<<vars, load>> => LedgerInv'
  <2> SUFFICES ASSUME DataInv', LedgerInv, Next \/ UNCHANGED vars PROVE LedgerInv'
    BY DEF vars
  <2>1. CASE UNCHANGED vars
    <3>1. /\ UNCHANGED <<mux, connections, toDevice, device, dataChan, drainChan, pump, user, writerUp>>
          /\ UNCHANGED <<calls, cmds, sportOf, forwarder>>
      BY <2>1 DEF vars
    <3>2. Used
      BY <3>1 DEF Used, Fresh, Served
    <3>3. Claims' /\ Tidy'
      BY <3>1, <3>2, StillClaims DEF LedgerInv, Tidy
    <3>4. \A s \in Sports : Ledger(s)'
      <4> TAKE s \in Sports
      <4>1. Balanced(s)
        BY <3>1, StillBalanced
      <4> QED BY <4>1, LedgerIf DEF LedgerInv
    <3> QED BY <3>3, <3>4 DEF LedgerInv
  <2> QED BY <2>1, LedgerInvStep
<1>2. Init => LedgerInv
  BY LedgerInvInit
<1>3. Spec => []DataInv
  BY DataInvAlways
<1> QED BY <1>1, <1>2, <1>3, PTL DEF Spec

(* As long as a task is not called more often than there are source ports,  *)
(* the device is never sent more than it made room for: what it holds and   *)
(* what is on the pipe for it fit its window (flush_pending).               *)
THEOREM DeviceKeepsRoom ==
  ASSUME PortsSuffice
  PROVE  Spec => []DeviceNotOverrun
<1>1. DataInv => DeviceNotOverrun
  BY RoomIfDataInv
<1>2. Spec => []DataInv
  BY DataInvAlways
<1> QED BY <1>1, <1>2, PTL

(* Under the same condition the device never sees a gap: a data frame       *)
(* carries the number of the byte the device waits for, also when the       *)
(* numbers wrap (flush_pending, send_tcp).                                  *)
THEOREM NoGapsSent ==
  ASSUME PortsSuffice
  PROVE  Spec => []NoGap
<1>1. DataInv => NoGap
  BY RoomIfDataInv
<1>2. Spec => []DataInv
  BY DataInvAlways
<1> QED BY <1>1, <1>2, PTL

(* Under the same condition no byte of a client is lost or sent twice while *)
(* its connection lives: what it wrote is at the device, in the frames on   *)
(* the pipe, with the task, in the pumps' channel, with its pump, or still  *)
(* in its stream (the pump handle_incoming starts, run, flush_pending).     *)
THEOREM NothingLost ==
  ASSUME PortsSuffice
  PROVE  Spec => []UploadConserved
<1>1. LedgerInv => UploadConserved
  BY UploadIfLedgerInv
<1>2. Spec => [](DataInv /\ LedgerInv)
  BY LedgerInvAlways
<1> QED BY <1>1, <1>2, PTL
=============================================================================
