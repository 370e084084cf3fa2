-------------------------- MODULE UsbMuxData_proof --------------------------
(* What is held and told at both ends of a connection, for any window,     *)
(* buffers and number spaces: what the task holds of a client is bounded,  *)
(* in either direction, no window is negative, and a client that shuts its *)
(* side down gets all of its bytes out before the reset. The invariants    *)
(* say when a pump is paused, how a connection ends, and what the device   *)
(* may still send; they hold as long as no source port is handed out twice.*)
EXTENDS UsbMux_proof
-----------------------------------------------------------------------------
(* What the task holds of a client's bytes is bounded: while the pump is   *)
(* not paused the connection is below the high mark, and a pump that reads *)
(* was not paused when it looked.                                          *)

Easy(s) ==
  Connected(s) =>
    \A c \in Conns : c = connections[s].client /\ ~pause[c] => connections[s].pending <= HighWater

(* No connection has more bytes pending. *)
Shrinks ==
  \A s \in Sports : Connected(s)' =>
    /\ Connected(s) /\ connections'[s].client = connections[s].client
    /\ connections'[s].pending <= connections[s].pending

LEMMA PendingTypes ==
  ASSUME DataInv, DataInv', NEW s \in Sports
  PROVE  /\ Connected(s) => connections[s].pending \in Nat /\ InChan(dataChan, s) \in Nat
         /\ Connected(s)' => connections'[s].pending \in Nat /\ InChan(dataChan', s) \in Nat
<1> QED BY LedgerTypes, LedgerTypesNext

LEMMA EasyShrinks ==
  ASSUME DataInv, DataInv', \A s \in Sports : Easy(s), Shrinks, pause' = pause
  PROVE  \A s \in Sports : Easy(s)'
<1> SUFFICES ASSUME NEW s \in Sports, Connected(s)', NEW c \in Conns,
                    c = connections'[s].client, ~pause'[c]
             PROVE  connections'[s].pending <= HighWater
  BY DEF Easy
<1>1. /\ Connected(s) /\ c = connections[s].client /\ ~pause[c]
      /\ connections'[s].pending <= connections[s].pending
  BY DEF Shrinks
<1>2. connections[s].pending <= HighWater
  BY <1>1 DEF Easy
<1>3. connections[s].pending \in Nat /\ connections'[s].pending \in Nat
  BY <1>1, PendingTypes
<1> DEFINE x == connections[s].pending
           y == connections'[s].pending
<1> HIDE DEF x, y
<1>4. x <= HighWater /\ y <= x /\ x \in Nat /\ y \in Nat
  BY <1>1, <1>2, <1>3 DEF x, y
<1>5. y <= HighWater
  BY <1>4, Sizes
<1> QED BY <1>5 DEF y

LEMMA EasyResumed ==
  ASSUME DataInv, DataInv', \A s \in Sports : Easy(s), Shrinks,
         NEW p \in Sports, Connected(p), NEW d, d = connections[p].client, NEW k \in Int, Resume(d, k),
         Connected(p)' => connections'[p].pending = k
  PROVE  \A s \in Sports : Easy(s)'
<1>1. StateInv /\ pause \in [Conns -> BOOLEAN] /\ d \in Conns
  BY LedgerTypes DEF DataInv, UploadInv, StateInv, ConnectionTypes
<1>2. pause' = [pause EXCEPT ![d] = @ /\ ~(pause[d] /\ k < LowWater)]
  BY DEF Resume
<1> SUFFICES ASSUME NEW s \in Sports, Connected(s)', NEW c \in Conns,
                    c = connections'[s].client, ~pause'[c]
             PROVE  connections'[s].pending <= HighWater
  BY DEF Easy
<1>3. /\ Connected(s) /\ c = connections[s].client
      /\ connections'[s].pending <= connections[s].pending
  BY DEF Shrinks
<1>4. connections[s].pending \in Nat /\ connections'[s].pending \in Nat
  BY <1>3, PendingTypes
<1> DEFINE x == connections[s].pending
           y == connections'[s].pending
<1>5. CASE ~pause[c]
  <2>1. x <= HighWater /\ y <= x /\ x \in Nat /\ y \in Nat
    BY <1>3, <1>4, <1>5 DEF Easy
  <2> HIDE DEF x, y
  <2>2. y <= HighWater
    BY <2>1, Sizes
  <2> QED BY <2>2 DEF y
<1>6. CASE pause[c]
  <2>1. c = d /\ k < LowWater
    BY <1>1, <1>2, <1>6
  <2>2. s = p
    BY <1>1, <1>3, <2>1 DEF StateInv, Tokens, Connected
  <2>3. y = k
    BY <2>2
  <2> HIDE DEF y
  <2>4. y <= HighWater
    BY <2>1, <2>3, Sizes
  <2> QED BY <2>4 DEF y
<1> QED BY <1>5, <1>6

LEMMA ShrinksIf ==
  ASSUME DataInv, DataInv', Moving, NEW p, Takes(p, 0)
  PROVE  Shrinks
<1> SUFFICES ASSUME NEW s \in Sports, Connected(s)'
             PROVE  /\ Connected(s) /\ connections'[s].client = connections[s].client
                    /\ connections'[s].pending <= connections[s].pending
  BY DEF Shrinks
<1>1. /\ Connected(s) /\ connections'[s].client = connections[s].client
      /\ connections'[s].pending + InChan(dataChan', s)
            <= connections[s].pending + InChan(dataChan, s)
  BY TaskMoves DEF Moves
<1> DEFINE x == connections[s].pending
           y == connections'[s].pending
           i == InChan(dataChan, s)
           j == InChan(dataChan', s)
<1>2. x \in Nat /\ y \in Nat /\ i \in Nat /\ j \in Nat
  BY <1>1, PendingTypes
<1>3. i = (IF s = p THEN 0 ELSE 0) + j
  BY DEF Takes
<1> HIDE DEF i, j, x, y
<1>4. y + j <= x + i
  BY <1>1 DEF i, j, x, y
<1>5. y <= x
  BY <1>2, <1>3, <1>4
<1> QED BY <1>1, <1>5 DEF x, y

LEMMA PacketEasy ==
  ASSUME DataInv, DataInv', \A s \in Sports : Easy(s),
         Drained \/ UnknownConnection \/ Refused \/ Undeliverable \/ Received
  PROVE  \A s \in Sports : Easy(s)'
<1>1. Shrinks
  <2>1. dataChan' = dataChan
    BY DEF Drained, UnknownConnection, Refused, Undeliverable, Received, TakePacket
  <2>2. UploadInv
    BY DEF DataInv
  <2>3. Takes(0, 0)
    BY <2>1, <2>2, TakesNone
  <2>4. Moving
    BY DEF Moving
  <2> QED BY <2>3, <2>4, ShrinksIf, SMTT(30)
<1>2. CASE pause' = pause
  BY <1>1, <1>2, EasyShrinks
<1>3. CASE Received /\ pause' # pause
  <2>0. PICK p, d : p = pkt.sport /\ d = Heard.client
    OBVIOUS
  <2> DEFINE conn == [Heard EXCEPT !.rxBuffered = @ + pkt.len, !.txAck = (@ + pkt.len) % SeqSpace]
             next == Flushed(conn)
             lost == IF pkt.len > 0 THEN 0 ELSE Least(MaxPayload, Sendable(conn))
             stuck == [conn EXCEPT !.pending = @ - lost]
             done == conn.clientClosed /\ next.pending = 0
  <2>1. /\ TakePacket /\ Connected(p)
        /\ \/ /\ IF done THEN Teardown(p) ELSE connections' = [connections EXCEPT ![p] = next]
              /\ Resume(d, next.pending)
           \/ /\ connections' = [connections EXCEPT ![p] = stuck]
              /\ ~(lost > 0) /\ Resume(d, conn.pending)
    BY <1>3, <2>0 DEF Received
  <2>2. p \in Sports /\ pkt \in Incoming /\ pkt.len \in Nat
    <3>1. pkt \in Incoming /\ pkt.sport \in Sports
      BY <2>1, PacketIn
    <3> QED BY <2>0, <3>1 DEF Incoming
  <2>3. /\ p \in DOMAIN connections /\ d = connections[p].client
        /\ Heard \in Connection /\ Heard.state = connections[p].state
    BY <2>0, <2>1, PortUp, HeardFields DEF TakePacket, DataInv, UploadInv, StateInv
  <2>4. conn \in Connection
    BY <2>2, <2>3, ReceivedFields
  <2>5. next \in Connection /\ next.pending \in Int /\ conn.pending \in Int
    <3> HIDE DEF conn
    <3>1. next \in Connection
      BY <2>4, FlushedFields
    <3> HIDE DEF next
    <3> QED BY <2>4, <3>1 DEF Connection
  <2>6. lost \in Nat /\ stuck.pending = conn.pending - lost
    <3>1. Sendable(conn) \in Nat
      BY <2>4, SendableFacts
    <3>2. lost \in Nat
      BY <3>1, Sizes DEF Least
    <3> HIDE DEF conn, lost
    <3> QED BY <2>4, <3>2 DEF Connection
  <2> HIDE DEF conn, next, lost, stuck
  <2>7. CASE /\ IF done THEN Teardown(p) ELSE connections' = [connections EXCEPT ![p] = next]
             /\ Resume(d, next.pending)
    <3>1. Connected(p)' => connections'[p].pending = next.pending
      BY <2>3, <2>7, StaysTorn
    <3> QED BY <1>1, <2>1, <2>2, <2>3, <2>5, <2>7, <3>1, EasyResumed
  <2>8. CASE /\ connections' = [connections EXCEPT ![p] = stuck]
             /\ ~(lost > 0) /\ Resume(d, conn.pending)
    <3>1. lost = 0 /\ Resume(d, conn.pending)
      BY <2>6, <2>8
    <3>2. connections'[p].pending = conn.pending
      <4>1. connections'[p] = stuck
        BY <2>3, <2>8
      <4> QED BY <2>5, <2>6, <3>1, <4>1
    <3> QED BY <1>1, <2>1, <2>2, <2>3, <2>5, <3>1, <3>2, EasyResumed
  <2> QED BY <2>1, <2>7, <2>8
<1>4. Received \/ pause' = pause
  BY DEF Drained, UnknownConnection, Refused, Undeliverable, KeepTasks
<1> QED BY <1>2, <1>3, <1>4

LEMMA DataEasy ==
  ASSUME DataInv, DataInv', \A s \in Sports : Easy(s), DataStep
  PROVE  \A s \in Sports : Easy(s)'
<1>0. PICK p, n : p = Head(dataChan)[1] /\ n = Head(dataChan)[2]
  OBVIOUS
<1>1. TakeData
  BY DEF DataStep, DataIgnored, DataFromPump, ClientClosed
<1>2. Takes(p, n) /\ n \in Nat
  BY <1>0, <1>1, TakesFirst DEF DataInv
<1>3. CASE DataIgnored
  BY <1>3 DEF DataIgnored, Easy, Connected
<1>4. CASE DataFromPump
  <2>0. PICK d : d = connections[p].client
    OBVIOUS
  <2> DEFINE old == connections[p]
             conn == [old EXCEPT !.pending = @ + n]
             left == Flushed(conn).pending
  <2>1. p \in Sports /\ p \in DOMAIN connections /\ old \in Connection /\ Connected(p) /\ d \in Conns
    <3>1. Connected(p)
      BY <1>0, <1>4 DEF DataFromPump
    <3> QED BY <2>0, <3>1, PortUp, SMTT(30) DEF Connection
  <2>2. conn \in Connection /\ conn.client = d
    <3> HIDE DEF old
    <3>1. conn \in Connection
      BY <1>2, <2>1 DEF Connection
    <3> QED BY <2>0, <2>1, <3>1 DEF Connection, old
  <2> HIDE DEF conn
  <2>3. \/ /\ connections' = [connections EXCEPT ![p] = Flushed(conn)]
           /\ \/ left > HighWater /\ pause' = [pause EXCEPT ![d] = TRUE]
              \/ left <= HighWater /\ pause' = [pause EXCEPT ![d] = @ /\ ~(pause[d] /\ left < LowWater)]
        \/ Teardown(p) /\ pause' = pause
    BY <1>0, <1>4, <2>2 DEF DataFromPump, Resume, conn
  <2>4. pause \in [Conns -> BOOLEAN] /\ StateInv
    BY DEF DataInv, UploadInv, StateInv, ConnectionTypes
  <2>5. CASE Teardown(p) /\ pause' = pause
    <3>1. \A q \in DOMAIN connections' : q \in DOMAIN connections /\ connections'[q] = connections[q]
      BY <2>1, <2>5, Torn
    <3> QED BY <2>5, <3>1 DEF Easy, Connected
  <2>6. CASE /\ connections' = [connections EXCEPT ![p] = Flushed(conn)]
             /\ \/ left > HighWater /\ pause' = [pause EXCEPT ![d] = TRUE]
                \/ left <= HighWater /\ pause' = [pause EXCEPT ![d] = @ /\ ~(pause[d] /\ left < LowWater)]
    <3>1. \A c \in Conns : c # d => pause'[c] = pause[c]
      BY <2>4, <2>6
    <3>2. ~pause'[d] => left <= HighWater
      BY <2>1, <2>4, <2>6
    <3>3. Flushed(conn).client = d
      BY <2>2, FlushedFields
    <3> SUFFICES ASSUME NEW s \in Sports, Connected(s)', NEW c \in Conns,
                        c = connections'[s].client, ~pause'[c]
                 PROVE  connections'[s].pending <= HighWater
      BY DEF Easy
    <3>4. CASE s = p
      BY <2>1, <2>6, <3>2, <3>3, <3>4
    <3>5. CASE s # p
      <4>1. Connected(s) /\ connections'[s] = connections[s]
        BY <2>6, <3>5 DEF Connected
      <4>2. c # d
        BY <2>0, <2>1, <2>4, <3>5, <4>1 DEF StateInv, Tokens, Connected
      <4> QED BY <3>1, <4>1, <4>2 DEF Easy
    <3> QED BY <3>4, <3>5
  <2> QED BY <2>3, <2>5, <2>6
<1>5. CASE ClientClosed
  <2>0. PICK d : d = connections[p].client
    OBVIOUS
  <2> DEFINE old == connections[p]
             conn == [old EXCEPT !.clientClosed = TRUE]
             left == Flushed(conn).pending
  <2>1. p \in Sports /\ p \in DOMAIN connections /\ old \in Connection /\ Connected(p) /\ n = 0
    <3>1. Connected(p) /\ n = 0
      BY <1>0, <1>5 DEF ClientClosed
    <3> QED BY <3>1, PortUp, SMTT(30)
  <2>2. conn \in Connection /\ conn.client = d
    <3> HIDE DEF old
    <3>1. conn \in Connection
      BY <2>1 DEF Connection
    <3> QED BY <2>0, <2>1, <3>1 DEF Connection, old
  <2> HIDE DEF conn
  <2>3. \/ connections' = [connections EXCEPT ![p] = Flushed(conn)] /\ Resume(d, left)
        \/ Teardown(p) /\ (Resume(d, 0) \/ pause' = pause)
    BY <1>0, <1>5, <2>2 DEF ClientClosed, conn
  <2>4. Shrinks
    <3>1. Moving
      BY <1>5 DEF Moving, DataStep
    <3> QED BY <1>2, <2>1, <3>1, ShrinksIf
  <2>5. CASE Teardown(p) /\ pause' = pause
    BY <2>4, <2>5, EasyShrinks
  <2>6. CASE Teardown(p) /\ Resume(d, 0)
    <3>1. ~Connected(p)'
      BY <2>1, <2>6, StaysTorn
    <3>2. 0 \in Int
      OBVIOUS
    <3> QED BY <2>0, <2>1, <2>4, <2>6, <3>1, <3>2, EasyResumed
  <2>7. CASE connections' = [connections EXCEPT ![p] = Flushed(conn)] /\ Resume(d, left)
    <3>1. connections'[p].pending = left
      BY <2>1, <2>7
    <3>2. left \in Int
      <4> DEFINE x == Flushed(conn)
      <4>1. x \in Connection
        BY <2>2, FlushedFields
      <4> HIDE DEF x
      <4>2. x.pending \in Int
        BY <4>1 DEF Connection
      <4> QED BY <4>2 DEF x
    <3> QED BY <2>0, <2>1, <2>4, <2>7, <3>1, <3>2, EasyResumed
  <2> QED BY <2>3, <2>5, <2>6, <2>7
<1> QED BY <1>3, <1>4, <1>5 DEF DataStep

(* The steps that do not touch what is pending, and those of the pumps.    *)
LEMMA EasySame ==
  ASSUME \A s \in Sports : Easy(s),
         \A s \in Sports : Connected(s)' => Connected(s) /\ connections'[s] = connections[s],
         UNCHANGED pause
  PROVE  \A s \in Sports : Easy(s)'
<1> QED BY DEF Easy

LEMMA EasyStep ==
  ASSUME DataInv, DataInv', \A s \in Sports : Easy(s), Next
  PROVE  \A s \in Sports : Easy(s)'
<1>1. CASE connections' = connections /\ pause' = pause
  BY <1>1, EasySame DEF Connected
<1>2. CASE ClientActs
  <2>1. pause' = pause
    BY <1>2 DEF ClientActs, CallShutdown, PumpAct, PumpChecks, PumpNotified, PumpReads, PumpSends,
           ForwarderAct, ForwarderWrites, ForwarderEnds, ForwarderStep,
           UserAct, CallConnect, UserWrites, UserReads, UserShuts, UserDrops, UserStep
  <2> QED BY <1>1, <1>2, <2>1, ClientActsOnly
<1>3. CASE DeviceActs
  BY <1>1, <1>3, DeviceActsOnly
<1>4. CASE VersionReply \/ WriteFails
  BY <1>1, <1>4 DEF VersionReply, WriteFails
<1>5. CASE Exit
  <2>1. DOMAIN <<>> = {}
    OBVIOUS
  <2> QED BY <1>5, <2>1 DEF Exit, Easy, Connected
<1>6. CASE MuxConnect
  <2>0. PICK p, c : p = nextSport /\ c = Head(cmds)
    OBVIOUS
  <2>1. /\ c \in Conns /\ pause' = pause
        /\ connections' = connections \/ connections' = Put(connections, p, NewConnection(c))
    BY <1>6, <2>0 DEF MuxConnect
  <2>2. NewConnection(c).state = "Connecting"
    BY <2>1, NewFields
  <2>3. \A s \in Sports : Connected(s)' => Connected(s) /\ connections'[s] = connections[s]
    BY <2>1, <2>2 DEF Connected, Put
  <2> QED BY <2>1, <2>3, EasySame
<1>7. CASE Accepted
  <2>0. PICK p : p = pkt.sport
    OBVIOUS
  <2>1. /\ p \in DOMAIN connections /\ Heard.state = "Connecting" /\ TakePacket /\ pause' = pause
        /\ \E x : /\ connections' = [connections EXCEPT ![p] = x]
                  /\ x.pending = Heard.pending
    <3> DEFINE conn == [Heard EXCEPT !.txSeq = (@ + 1) % SeqSpace, !.txAck = (@ + 1) % SeqSpace]
               up == [conn EXCEPT !.state = "Connected"]
    <3>1. /\ p \in DOMAIN connections /\ Heard.state = "Connecting" /\ TakePacket /\ pause' = pause
          /\ \/ connections' = [connections EXCEPT ![p] = up]
             \/ connections' = [connections EXCEPT ![p] = conn]
      BY <1>7, <2>0 DEF Accepted
    <3>2. Heard \in Connection
      BY <2>0, <3>1, HeardFields DEF TakePacket, DataInv, UploadInv, StateInv
    <3>3. conn \in Connection /\ conn.pending = Heard.pending
      BY <3>2, AcceptedFields
    <3> HIDE DEF conn
    <3>4. up.pending = Heard.pending
      BY <3>3 DEF Connection
    <3> HIDE DEF up
    <3> QED BY <3>1, <3>3, <3>4
  <2>2. Heard.pending = connections[p].pending /\ connections[p].pending = 0
    <3>1. Heard.pending = connections[p].pending /\ Heard.state = connections[p].state
      BY <2>0, <2>1, HeardFields DEF TakePacket, DataInv, UploadInv, StateInv
    <3> QED BY <2>1, <3>1 DEF DataInv, UploadInv, StateInv, Upload
  <2>3. 0 <= HighWater
    BY Sizes
  <2>4. \A s \in Sports : s # p /\ Connected(s)' => Connected(s) /\ connections'[s] = connections[s]
    BY <2>1 DEF Connected
  <2>5. connections'[p].pending = 0
    BY <2>1, <2>2
  <2> QED BY <2>1, <2>3, <2>4, <2>5 DEF Easy
<1> QED BY <1>2, <1>3, <1>4, <1>5, <1>6, <1>7, DataEasy, PacketEasy, NextIs DEF TaskActs, PacketStep
-----------------------------------------------------------------------------
(* A pump that was not paused when it looked adds one chunk, to a          *)
(* connection below the mark and a channel that is at most full.           *)

Held(s) == connections[s].pending + InChan(dataChan, s)
Mark == HighWater + DataCap * MaxPayload

Chunks ==
  /\ Len(dataChan) <= DataCap
  /\ \A i \in DOMAIN dataChan : dataChan[i][2] <= MaxPayload
  /\ \A c \in Conns : pump[c].chunk <= MaxPayload

Filling(s) ==
  Connected(s) =>
    \A c \in Conns : c = connections[s].client =>
      /\ pump[c].pc = "reading" => Held(s) <= Mark
      /\ Held(s) + pump[c].chunk <= Mark + MaxPayload

LEMMA MarkNat ==
  /\ DataCap \in Nat /\ DataCap * MaxPayload \in Nat /\ Mark \in Nat
  /\ HighWater + (DataCap + 1) * MaxPayload = Mark + MaxPayload
<1>1. DataCap \in Nat /\ MaxPayload \in Nat /\ HighWater \in Nat
  BY SizesAssumption
<1>2. (DataCap + 1) * MaxPayload = DataCap * MaxPayload + MaxPayload
  BY <1>1
<1>3. DataCap * MaxPayload \in Nat
  BY <1>1
<1> DEFINE b == DataCap * MaxPayload
<1> HIDE DEF b
<1>4. b \in Nat /\ Mark = HighWater + b /\ (DataCap + 1) * MaxPayload = b + MaxPayload
  BY <1>2, <1>3 DEF b, Mark
<1> QED BY <1>1, <1>3, <1>4

LEMMA ChannelBounded ==
  ASSUME DataInv, Chunks, NEW s \in Sports
  PROVE  InChan(dataChan, s) <= DataCap * MaxPayload
<1> DEFINE n == Len(dataChan)
           b == DataCap * MaxPayload
           x == InChan(dataChan, s)
<1>1. dataChan \in Seq((0..MaxSport) \X Nat) /\ MaxPayload \in Nat /\ DataCap \in Nat
  BY SizesAssumption DEF DataInv, UploadInv, ChannelTypes
<1>2. x <= n * MaxPayload /\ x \in Nat
  <2>1. x <= n * MaxPayload
    BY <1>1, InChanBounded DEF Chunks
  <2> QED BY <1>1, <2>1, InChanNat
<1>3. n \in Nat /\ n <= DataCap
  BY <1>1 DEF Chunks
<1> HIDE DEF n, x
<1>4. n * MaxPayload <= b /\ n * MaxPayload \in Nat /\ b \in Nat
  BY <1>1, <1>3
<1> DEFINE k == n * MaxPayload
<1> HIDE DEF k, b
<1>5. x <= k /\ k <= b /\ x \in Nat /\ k \in Nat /\ b \in Nat
  BY <1>2, <1>4 DEF k
<1>6. x <= b
  BY <1>5
<1> QED BY <1>6 DEF x, b

LEMMA ChunksIf ==
  ASSUME Chunks, dataChan \in Seq((0..MaxSport) \X Nat),
         dataChan' = dataChan \/ (dataChan # <<>> /\ dataChan' = Tail(dataChan)) \/ dataChan' = <<>>,
         \A c \in Conns : pump'[c].chunk = pump[c].chunk
  PROVE  Chunks'
<1>1. \A c \in Conns : pump'[c].chunk <= MaxPayload
  BY DEF Chunks
<1>2. DataCap \in Nat
  BY MarkNat
<1>3. CASE dataChan' = dataChan
  BY <1>1, <1>3 DEF Chunks
<1>4. CASE dataChan # <<>> /\ dataChan' = Tail(dataChan)
  <2>1. /\ Len(dataChan') <= Len(dataChan) /\ Len(dataChan') \in Nat /\ Len(dataChan) \in Nat
        /\ \A i \in DOMAIN dataChan' : i + 1 \in DOMAIN dataChan /\ dataChan'[i] = dataChan[i + 1]
    BY <1>4
  <2>2. Len(dataChan') <= DataCap
    BY <1>2, <2>1 DEF Chunks
  <2> QED BY <1>1, <2>1, <2>2 DEF Chunks
<1>5. CASE dataChan' = <<>>
  <2>1. Len(<<>>) <= DataCap /\ DOMAIN <<>> = {}
    BY <1>2
  <2> QED BY <1>1, <1>5, <2>1 DEF Chunks
<1> QED BY <1>3, <1>4, <1>5

LEMMA PcOnly ==
  ASSUME ChannelTypes, NEW c \in Conns, NEW q, pump' = [pump EXCEPT ![c].pc = q]
  PROVE  /\ pump'[c].pc = q
         /\ \A d \in Conns : pump'[d].chunk = pump[d].chunk /\ (d # c => pump'[d] = pump[d])
<1>1. pump \in [Conns -> PumpType]
  BY DEF ChannelTypes, PumpType
<1>2. pump' = [pump EXCEPT ![c] = [pump[c] EXCEPT !.pc = q]]
  OBVIOUS
<1>3. pump'[c] = [pump[c] EXCEPT !.pc = q] /\ \A d \in Conns : d # c => pump'[d] = pump[d]
  BY <1>1, <1>2
<1> DEFINE old == pump[c]
<1>4. old \in PumpType
  BY <1>1
<1> HIDE DEF old
<1>5. [old EXCEPT !.pc = q].chunk = old.chunk /\ [old EXCEPT !.pc = q].pc = q
  BY <1>4 DEF PumpType
<1>6. pump'[c].chunk = pump[c].chunk /\ pump'[c].pc = q
  BY <1>3, <1>5 DEF old
<1> QED BY <1>3, <1>6

LEMMA PumpChunks ==
  ASSUME DataInv, Chunks, NEW c \in Conns, PumpAct(c)
  PROVE  Chunks'
<1>1. ChannelTypes /\ dataChan \in Seq((0..MaxSport) \X Nat) /\ pump[c] \in PumpType /\ user[c].out \in Nat
      /\ pump \in [Conns -> PumpType] /\ sportOf[c] \in 0..MaxSport
  BY DEF DataInv, UploadInv, ChannelTypes, PumpType
<1>2. MaxPayload \in Nat
  BY Sizes
<1>3. CASE PumpChecks(c) \/ PumpNotified(c)
  <2>1. dataChan' = dataChan /\ \A d \in Conns : pump'[d].chunk = pump[d].chunk
    <3>1. dataChan' = dataChan /\ \E q : pump' = [pump EXCEPT ![c].pc = q]
      BY <1>3 DEF PumpChecks, PumpNotified
    <3> QED BY <1>1, <3>1, PcOnly
  <2> QED BY <1>1, <2>1, ChunksIf
<1>4. CASE PumpReads(c)
  <2> DEFINE n == Least(user[c].out, MaxPayload)
  <2>1. n <= MaxPayload
    BY <1>1, <1>2 DEF Least
  <2>2. dataChan' = dataChan /\ pump' = [pump EXCEPT ![c] = [pc |-> "sending", chunk |-> n]]
    BY <1>4 DEF PumpReads
  <2> HIDE DEF n
  <2>3. \A d \in Conns : pump'[d].chunk = IF d = c THEN n ELSE pump[d].chunk
    BY <1>1, <2>2
  <2> QED BY <2>1, <2>2, <2>3 DEF Chunks
<1>5. CASE PumpSends(c)
  <2> DEFINE a == pump[c].chunk
             t == <<sportOf[c], a>>
  <2>1. a \in Nat /\ a <= MaxPayload
    BY <1>1 DEF Chunks, PumpType
  <2>2. /\ \/ Len(dataChan) < DataCap /\ dataChan' = Append(dataChan, t)
           \/ dataChan' = dataChan
        /\ \E q : pump' = [pump EXCEPT ![c] = [pc |-> q, chunk |-> 0]]
    BY <1>5 DEF PumpSends
  <2>3. \A d \in Conns : pump'[d].chunk <= MaxPayload
    BY <1>1, <1>2, <2>2 DEF Chunks
  <2>4. t[2] = a /\ t \in (0..MaxSport) \X Nat
    BY <1>1, <2>1
  <2> HIDE DEF t, a
  <2>5. CASE dataChan' = dataChan
    BY <2>3, <2>5 DEF Chunks
  <2>6. CASE Len(dataChan) < DataCap /\ dataChan' = Append(dataChan, t)
    <3>1. Len(dataChan') <= DataCap
      BY <1>1, <2>6, MarkNat
    <3>2. \A i \in DOMAIN dataChan' : (i \in DOMAIN dataChan /\ dataChan'[i] = dataChan[i]) \/ dataChan'[i] = t
      BY <1>1, <2>6
    <3>3. \A i \in DOMAIN dataChan' : dataChan'[i][2] <= MaxPayload
      BY <2>1, <2>4, <3>2 DEF Chunks
    <3> QED BY <2>3, <3>1, <3>3 DEF Chunks
  <2> QED BY <2>2, <2>5, <2>6
<1> QED BY <1>3, <1>4, <1>5 DEF PumpAct

LEMMA ChunksStep ==
  ASSUME DataInv, Chunks, Next
  PROVE  Chunks'
<1>0. dataChan \in Seq((0..MaxSport) \X Nat) /\ ChannelTypes
  BY DEF DataInv, UploadInv, ChannelTypes
<1>1. CASE pump' = pump /\ (dataChan' = dataChan \/ (dataChan # <<>> /\ dataChan' = Tail(dataChan)) \/ dataChan' = <<>>)
  BY <1>0, <1>1, ChunksIf
<1>2. CASE ClientActs
  <2>1. CASE \E c \in Conns : PumpAct(c)
    BY <2>1, PumpChunks
  <2>2. CASE ~\E c \in Conns : PumpAct(c)
    <3>1. pump' = pump /\ dataChan' = dataChan
      BY <1>2, <2>2 DEF ClientActs, CallShutdown,
             ForwarderAct, ForwarderWrites, ForwarderEnds, ForwarderStep,
             UserAct, CallConnect, UserWrites, UserReads, UserShuts, UserDrops, UserStep
    <3> QED BY <1>1, <3>1
  <2> QED BY <2>1, <2>2
<1>3. CASE DeviceActs
  BY <1>1, <1>3, DeviceActsOnly
<1>4. CASE VersionReply \/ WriteFails \/ Exit
  BY <1>1, <1>4 DEF VersionReply, WriteFails, Exit
<1>5. CASE TaskActs /\ ~Accepted
  BY <1>1, <1>5 DEF TaskActs, MuxConnect, DataStep, DataIgnored, DataFromPump, ClientClosed, TakeData, Drained,
         PacketStep, UnknownConnection, Refused, Undeliverable, Received, KeepTasks, TakePacket
<1>6. CASE Accepted
  <2>1. dataChan' = dataChan /\ \A c \in Conns : pump'[c].chunk = pump[c].chunk
    <3>0. PICK d : d = Heard.client
      OBVIOUS
    <3>1. dataChan' = dataChan /\ (pump' = pump \/ pump' = [pump EXCEPT ![d].pc = "check"])
      BY <1>6, <3>0 DEF Accepted, TakePacket
    <3>2. d \in Conns
      <4>1. Heard \in Connection
        BY <1>6, HeardFields DEF Accepted, TakePacket, DataInv, UploadInv, StateInv
      <4> QED BY <3>0, <4>1 DEF Connection
    <3> QED BY <1>0, <3>1, <3>2, PcOnly
  <2> QED BY <1>0, <2>1, ChunksIf
<1> QED BY <1>2, <1>3, <1>4, <1>5, <1>6, NextIs

LEMMA FillingIf ==
  ASSUME DataInv, DataInv', NEW s \in Sports, Filling(s),
         Connected(s)' => Connected(s) /\ connections'[s].client = connections[s].client
                          /\ Held(s)' <= Held(s),
         Connected(s)' => \A c \in Conns : c = connections[s].client => pump'[c] = pump[c]
  PROVE  Filling(s)'
<1> SUFFICES ASSUME Connected(s)', NEW c \in Conns, c = connections'[s].client
             PROVE  /\ pump'[c].pc = "reading" => Held(s)' <= Mark
                    /\ Held(s)' + pump'[c].chunk <= Mark + MaxPayload
  BY DEF Filling, Mark
<1>1. Connected(s) /\ c = connections[s].client /\ Held(s)' <= Held(s) /\ pump'[c] = pump[c]
  OBVIOUS
<1>2. Held(s) \in Nat /\ Held(s)' \in Nat /\ pump[c].chunk \in Nat
  <2>1. connections[s].pending \in Nat /\ InChan(dataChan, s) \in Nat
    BY <1>1, PendingTypes
  <2>2. connections'[s].pending \in Nat /\ InChan(dataChan', s) \in Nat
    BY PendingTypes
  <2>3. pump[c].chunk \in Nat
    BY OwnTypes DEF DataInv, UploadInv
  <2>4. Held(s) \in Nat
    BY <2>1 DEF Held
  <2>5. Held(s)' = connections'[s].pending + InChan(dataChan', s)
    BY DEF Held
  <2>6. Held(s)' \in Nat
    BY <2>2, <2>5
  <2> QED BY <2>3, <2>4, <2>6
<1>3. (pump[c].pc = "reading" => Held(s) <= Mark) /\ Held(s) + pump[c].chunk <= Mark + MaxPayload
  BY <1>1 DEF Filling
<1> DEFINE x == Held(s)
           y == Held(s)'
           k == pump[c].chunk
<1>4. x \in Nat /\ y \in Nat /\ k \in Nat /\ y <= x /\ x + k <= Mark + MaxPayload
  BY <1>1, <1>2, <1>3
<1>5. Mark \in Nat /\ MaxPayload \in Nat
  BY MarkNat, Sizes
<1> HIDE DEF x, y, k
<1>6. y + k <= Mark + MaxPayload /\ (x <= Mark => y <= Mark)
  BY <1>4, <1>5
<1> QED BY <1>1, <1>3, <1>6 DEF x, y, k

LEMMA PumpFilling ==
  ASSUME DataInv, DataInv', Claims, Tidy, Chunks, Chunks', \A q \in Sports : Easy(q),
         NEW c \in Conns, PumpAct(c), NEW s \in Sports, Filling(s)
  PROVE  Filling(s)'
<1> DEFINE a == pump[c].chunk
           b == pump'[c].chunk
           w == connections[s].pending
           i == InChan(dataChan, s)
           j == InChan(dataChan', s)
<1>1. UNCHANGED <<mux, writerUp, connections, toDevice, device, sportOf, pause>>
  BY DEF PumpAct, PumpChecks, PumpNotified, PumpReads, PumpSends, PumpStep, taskVars
<1>2. ChannelTypes /\ dataChan \in Seq((0..MaxSport) \X Nat) /\ dataChan' \in Seq((0..MaxSport) \X Nat)
      /\ pump \in [Conns -> PumpType]
  BY DEF DataInv, UploadInv, ChannelTypes, PumpType
<1>3. a \in Nat /\ b \in Nat /\ sportOf[c] \in 0..MaxSport /\ b <= MaxPayload
  <2>1. b \in Nat
    BY DEF DataInv, UploadInv, ChannelTypes
  <2>2. sportOf[c] \in 0..MaxSport
    BY <1>2 DEF ChannelTypes
  <2>3. a \in Nat
    BY <1>2, OwnTypes
  <2> QED BY <2>1, <2>2, <2>3 DEF Chunks
<1>4. \A d \in Conns : d # c => pump'[d] = pump[d]
  BY <1>2 DEF PumpAct, PumpChecks, PumpNotified, PumpReads, PumpSends, ChannelTypes
<1>5. i \in Nat /\ j \in Nat
  BY <1>2, InChanNat
<1>6. dataChan' = dataChan \/ dataChan' = Append(dataChan, <<sportOf[c], a>>)
  BY DEF PumpAct, PumpChecks, PumpNotified, PumpReads, PumpSends
<1>7. InChan(Append(dataChan, <<sportOf[c], a>>), s) = i + (IF sportOf[c] = s THEN a ELSE 0)
  BY <1>2, <1>3, InChanPut
<1>8. Held(s) = w + i /\ Held(s)' = w + j
  BY <1>1 DEF Held
<1>9. CASE ~Connected(s)
  BY <1>1, <1>9 DEF Filling, Connected
<1>10. CASE Connected(s) /\ connections[s].client # c
  <2>1. sportOf[c] # s
    <3>1. connections[s].client \in Conns
      BY <1>10, LedgerTypes
    <3>2. PICK e : e = connections[s].client
      OBVIOUS
    <3>3. s # 0 /\ sportOf[e] = s /\ e \in Conns /\ e # c
      BY <1>10, <3>1, <3>2, Sizes DEF Claims, Sports
    <3>4. sportOf[c] = sportOf[e] /\ sportOf[c] # 0 => c = e
      BY <3>3 DEF Claims
    <3> QED BY <3>3, <3>4
  <2>2. j = i
    <3>1. dataChan' = Append(dataChan, <<sportOf[c], a>>) => j = i + 0
      BY <1>7, <2>1
    <3>2. dataChan' = dataChan => j = i
      OBVIOUS
    <3> HIDE DEF i, j
    <3> QED BY <1>5, <1>6, <3>1, <3>2
  <2>3. w \in Nat
    BY <1>10, LedgerTypes
  <2>4. Held(s)' <= Held(s)
    <3> HIDE DEF w, i, j
    <3> QED BY <1>5, <1>8, <2>2, <2>3
  <2>5. Connected(s)' => Connected(s) /\ connections'[s].client = connections[s].client
    BY <1>1 DEF Connected
  <2> QED BY <1>4, <1>10, <2>4, <2>5, FillingIf
<1>11. CASE Connected(s) /\ connections[s].client = c
  <2>0. w \in Nat /\ MaxPayload \in Nat /\ Mark \in Nat /\ sportOf[c] = s /\ mux # "exited"
    BY <1>11, LedgerTypes, Sizes, MarkNat DEF Claims, Tidy, Connected
  <2>1. (pump[c].pc = "reading" => w + i <= Mark) /\ w + i + a <= Mark + MaxPayload
    BY <1>8, <1>11 DEF Filling
  <2> SUFFICES (pump'[c].pc = "reading" => w + j <= Mark) /\ w + j + b <= Mark + MaxPayload
    BY <1>1, <1>8, <1>11 DEF Filling, Mark
  <2>2. CASE PumpChecks(c)
    <3>1. dataChan' = dataChan /\ pump' = [pump EXCEPT ![c].pc = IF pause[c] THEN "waiting" ELSE "reading"]
      BY <2>2 DEF PumpChecks
    <3>2. b = a /\ pump'[c].pc = IF pause[c] THEN "waiting" ELSE "reading"
      BY <1>2, <3>1, PcOnly
    <3>3. j = i
      BY <3>1
    <3>4. ~pause[c] => w <= HighWater
      BY <1>11 DEF Easy
    <3>5. i <= DataCap * MaxPayload
      BY ChannelBounded
    <3>6. ~pause[c] => w + i <= Mark
      <4> DEFINE h == DataCap * MaxPayload
      <4>1. h \in Nat /\ Mark = HighWater + h /\ HighWater \in Nat
        BY MarkNat, Sizes DEF Mark
      <4> HIDE DEF h, i, w
      <4>2. i <= h
        BY <3>5 DEF h
      <4> QED BY <1>5, <2>0, <3>4, <4>1, <4>2
    <3>7. pump'[c].pc = "reading" => ~pause[c]
      BY <3>2
    <3> HIDE DEF a, b, w, i, j
    <3> QED BY <2>1, <3>2, <3>3, <3>6, <3>7
  <2>3. CASE PumpNotified(c)
    <3>1. dataChan' = dataChan /\ pump' = [pump EXCEPT ![c].pc = "check"]
      BY <2>3 DEF PumpNotified
    <3>2. b = a /\ pump'[c].pc = "check"
      BY <1>2, <3>1, PcOnly
    <3>3. j = i
      BY <3>1
    <3> HIDE DEF a, b, w, i, j
    <3> QED BY <2>1, <3>2, <3>3
  <2>4. CASE PumpReads(c)
    <3>1. dataChan' = dataChan /\ pump[c].pc = "reading" /\ pump'[c].pc = "sending"
      BY <1>2, <2>4 DEF PumpReads
    <3>2. j = i
      BY <3>1
    <3> HIDE DEF a, b, w, i, j
    <3>3. w + j + b <= Mark + MaxPayload
      BY <1>3, <1>5, <2>0, <2>1, <3>1, <3>2
    <3> QED BY <3>1, <3>3
  <2>5. CASE PumpSends(c)
    <3>1. /\ dataChan' = Append(dataChan, <<sportOf[c], a>>) /\ b = 0
          /\ pump'[c].pc \in {"done", "check"}
      BY <1>2, <2>0, <2>5 DEF PumpSends
    <3>2. j = i + a
      BY <1>7, <2>0, <3>1
    <3>3. b = 0 /\ pump'[c].pc # "reading"
      BY <3>1
    <3> HIDE DEF a, b, w, i, j
    <3>4. w + j + b <= Mark + MaxPayload
      BY <1>3, <1>5, <2>0, <2>1, <3>2, <3>3
    <3> QED BY <3>3, <3>4
  <2> QED BY <2>2, <2>3, <2>4, <2>5 DEF PumpAct
<1> QED BY <1>9, <1>10, <1>11

LEMMA AcceptedFilling ==
  ASSUME DataInv, DataInv', Claims, Accepted, NEW s \in Sports, Filling(s)
  PROVE  Filling(s)'
<1>0. PICK p, c : p = pkt.sport /\ c = Heard.client
  OBVIOUS
<1> DEFINE conn == [Heard EXCEPT !.txSeq = (@ + 1) % SeqSpace, !.txAck = (@ + 1) % SeqSpace]
           up == [conn EXCEPT !.state = "Connected"]
<1>1. /\ TakePacket /\ p \in DOMAIN connections /\ Heard.state = "Connecting" /\ dataChan' = dataChan
      /\ \/ /\ connections' = [connections EXCEPT ![p] = up]
            /\ pump' = [pump EXCEPT ![c].pc = "check"]
         \/ /\ connections' = [connections EXCEPT ![p] = conn]
            /\ pump' = pump
  BY <1>0 DEF Accepted, TakePacket
<1>2. /\ p \in Sports /\ Heard \in Connection /\ c = connections[p].client
      /\ Heard.state = connections[p].state /\ c \in Conns /\ Heard.pending = connections[p].pending
  <2>1. /\ Heard \in Connection /\ Heard.client = connections[p].client /\ Heard.state = connections[p].state
        /\ Heard.pending = connections[p].pending
    BY <1>0, <1>1, HeardFields DEF TakePacket, DataInv, UploadInv, StateInv
  <2> QED BY <1>0, <1>1, <2>1 DEF DataInv, UploadInv, StateInv, ConnectionTypes, Connection
<1>3. /\ conn.client = c /\ conn.state = "Connecting"
      /\ up.client = c /\ up.pending = connections[p].pending
  <2>1. conn \in Connection /\ conn.client = c /\ conn.state = "Connecting" /\ conn.pending = Heard.pending
    BY <1>0, <1>1, <1>2, AcceptedFields
  <2> HIDE DEF conn
  <2> QED BY <1>2, <2>1 DEF Connection
<1> HIDE DEF conn, up
<1>4. Connecting(p) /\ ~Connected(p) /\ Unclaimed(p) /\ connections[p].pending = 0
  <2>1. Connecting(p) /\ ~Connected(p)
    BY <1>1, <1>2 DEF Connecting, Connected
  <2>2. connections[p].pending = 0
    BY <1>1, <1>2 DEF DataInv, UploadInv, StateInv, Upload
  <2> QED BY <1>2, <2>1, <2>2 DEF Claims
<1>5. Idle(c) /\ \A q \in DOMAIN connections : q # p => connections[q].client # c
  <2>1. calls[c] = "calling"
    BY <1>1, <1>2 DEF DataInv, UploadInv, StateInv, Tokens
  <2> QED BY <1>1, <1>2, <2>1 DEF DataInv, UploadInv, StateInv, Tokens, Up, Claims
<1>6. ChannelTypes
  BY DEF DataInv, UploadInv
<1>7. CASE s # p
  <2>1. Connected(s)' => Connected(s) /\ connections'[s] = connections[s]
    BY <1>1, <1>7 DEF Connected
  <2>2. Connected(s)' => Held(s)' <= Held(s)
    <3> SUFFICES ASSUME Connected(s)' PROVE Held(s)' <= Held(s)
      OBVIOUS
    <3>1. Held(s)' = Held(s)
      BY <1>1, <2>1 DEF Held
    <3>2. Held(s) \in Nat
      BY <2>1, PendingTypes DEF Held
    <3> QED BY <3>1, <3>2
  <2>3. Connected(s)' => \A d \in Conns : d = connections[s].client => pump'[d] = pump[d]
    <3> SUFFICES ASSUME Connected(s)', NEW d \in Conns, d = connections[s].client PROVE pump'[d] = pump[d]
      OBVIOUS
    <3>1. d # c
      BY <1>5, <1>7, <2>1 DEF Connected
    <3> QED BY <1>1, <1>2, <1>6, <3>1, PcOnly
  <2> QED BY <2>1, <2>2, <2>3, FillingIf
<1>8. CASE s = p
  <2> SUFFICES ASSUME Connected(p)', NEW d \in Conns, d = connections'[p].client
               PROVE  /\ pump'[d].pc = "reading" => Held(p)' <= Mark
                      /\ Held(p)' + pump'[d].chunk <= Mark + MaxPayload
    BY <1>8 DEF Filling, Mark
  <2>1. connections' = [connections EXCEPT ![p] = up] /\ pump' = [pump EXCEPT ![c].pc = "check"]
    <3>1. CASE connections' = [connections EXCEPT ![p] = conn]
      BY <1>1, <1>3, <3>1 DEF Connected
    <3> QED BY <1>1, <3>1
  <2>2. connections'[p] = up /\ d = c
    BY <1>1, <1>3, <2>1
  <2>3. pump'[d].pc = "check" /\ pump'[d].chunk = 0
    <3>1. pump'[c].pc = "check" /\ pump'[c].chunk = pump[c].chunk
      BY <1>2, <1>6, <2>1, PcOnly
    <3> QED BY <1>5, <2>2, <3>1 DEF Idle
  <2>4. InChan(dataChan, p) = 0
    BY <1>4, InChanNat DEF Unclaimed, DataInv, UploadInv, ChannelTypes
  <2>5. Held(p)' = 0 + 0
    BY <1>1, <1>3, <1>4, <2>2, <2>4 DEF Held
  <2> QED BY <2>3, <2>5, MarkNat, Sizes
<1> QED BY <1>7, <1>8

LEMMA FillingSame ==
  ASSUME DataInv, DataInv', NEW s \in Sports, Filling(s),
         Connected(s)' => Connected(s) /\ connections'[s] = connections[s],
         UNCHANGED <<dataChan, pump>>
  PROVE  Filling(s)'
<1>1. Connected(s)' => Connected(s) /\ connections'[s].client = connections[s].client
                       /\ Held(s)' <= Held(s)
  <2> SUFFICES ASSUME Connected(s)' PROVE Held(s)' <= Held(s)
    OBVIOUS
  <2>1. Held(s)' = Held(s)
    BY DEF Held
  <2>2. Held(s) \in Nat
    BY PendingTypes DEF Held
  <2> QED BY <2>1, <2>2
<1> QED BY <1>1, FillingIf

LEMMA FillingStep ==
  ASSUME DataInv, DataInv', Claims, Tidy, Chunks, Chunks', \A q \in Sports : Easy(q), Next,
         NEW s \in Sports, Filling(s)
  PROVE  Filling(s)'
<1>1. CASE UNCHANGED <<connections, dataChan, pump>>
  BY <1>1, FillingSame DEF Connected
<1>2. CASE ClientActs
  <2>1. CASE \E c \in Conns : PumpAct(c)
    BY <2>1, PumpFilling
  <2>2. CASE ~\E c \in Conns : PumpAct(c)
    <3>1. pump' = pump /\ dataChan' = dataChan
      BY <1>2, <2>2 DEF ClientActs, CallShutdown,
             ForwarderAct, ForwarderWrites, ForwarderEnds, ForwarderStep,
             UserAct, CallConnect, UserWrites, UserReads, UserShuts, UserDrops, UserStep
    <3> QED BY <1>1, <1>2, <3>1, ClientActsOnly
  <2> QED BY <2>1, <2>2
<1>3. CASE DeviceActs
  BY <1>1, <1>3, DeviceActsOnly
<1>4. CASE VersionReply \/ WriteFails
  BY <1>1, <1>4 DEF VersionReply, WriteFails
<1>5. CASE Exit
  <2>1. DOMAIN <<>> = {}
    OBVIOUS
  <2> QED BY <1>5, <2>1 DEF Exit, Filling, Connected
<1>6. CASE MuxConnect
  <2>0. PICK p, c : p = nextSport /\ c = Head(cmds)
    OBVIOUS
  <2>1. /\ c \in Conns /\ UNCHANGED <<dataChan, pump>>
        /\ connections' = connections \/ connections' = Put(connections, p, NewConnection(c))
    BY <1>6, <2>0 DEF MuxConnect
  <2>2. NewConnection(c).state = "Connecting"
    BY <2>1, NewFields
  <2>3. Connected(s)' => Connected(s) /\ connections'[s] = connections[s]
    BY <2>1, <2>2 DEF Connected, Put
  <2> QED BY <2>1, <2>3, FillingSame
<1>7. CASE Accepted
  BY <1>7, AcceptedFilling
<1>8. CASE Moving
  <2>1. pump' = pump
    BY <1>8 DEF Moving, DataStep, DataIgnored, DataFromPump, ClientClosed, TakeData, Drained,
           UnknownConnection, Refused, Undeliverable, Received, KeepTasks
  <2>2. Moves(s)
    BY <1>8, TaskMoves
  <2>3. Connected(s)' => Connected(s) /\ connections'[s].client = connections[s].client
                         /\ Held(s)' <= Held(s)
    BY <2>2 DEF Moves, Held
  <2> QED BY <2>1, <2>3, FillingIf
<1> QED BY <1>2, <1>3, <1>4, <1>5, <1>6, <1>7, <1>8, NextIs DEF TaskActs, Moving, PacketStep
-----------------------------------------------------------------------------
FillInv == LedgerInv /\ Chunks /\ \A s \in Sports : Easy(s) /\ Filling(s)

LEMMA PendingIfFillInv == FillInv => PendingBounded
<1> SUFFICES ASSUME FillInv, NEW s \in Sports, Connected(s)
             PROVE  connections[s].pending + InChan(dataChan, s) + pump[connections[s].client].chunk
                      <= HighWater + (DataCap + 1) * MaxPayload
  BY DEF PendingBounded
<1>0. PICK c : c = connections[s].client
  OBVIOUS
<1>1. DataInv
  BY DEF FillInv, LedgerInv
<1>2. c \in Conns /\ connections[s].pending \in Nat /\ InChan(dataChan, s) \in Nat
  BY <1>0, <1>1, LedgerTypes
<1>3. pump[c].chunk \in Nat
  BY <1>1, <1>2, OwnTypes DEF DataInv, UploadInv
<1>4. Held(s) + pump[c].chunk <= Mark + MaxPayload
  BY <1>0, <1>2 DEF FillInv, Filling
<1> DEFINE k == pump[c].chunk
           w == connections[s].pending
           i == InChan(dataChan, s)
           m == HighWater + (DataCap + 1) * MaxPayload
<1>5. w + i + k <= Mark + MaxPayload
  BY <1>4 DEF Held
<1>6. m = Mark + MaxPayload /\ Mark \in Nat /\ MaxPayload \in Nat
  BY MarkNat, Sizes
<1>7. w \in Nat /\ i \in Nat /\ k \in Nat
  BY <1>2, <1>3
<1> HIDE DEF k, w, i, m
<1>8. w + i + k <= m
  BY <1>5, <1>6, <1>7
<1> QED BY <1>0, <1>8 DEF k, w, i, m

LEMMA FillInvInit ==
  ASSUME PortsSuffice, Init
  PROVE  FillInv
<1>1. LedgerInv
  BY LedgerInvInit
<1>2. Chunks
  <2>1. Len(<<>>) = 0 /\ DOMAIN <<>> = {}
    OBVIOUS
  <2>2. 0 <= DataCap /\ 0 <= MaxPayload
    BY MarkNat, Sizes
  <2> QED BY <2>1, <2>2 DEF Init, Chunks
<1>3. \A s \in Sports : ~Connected(s)
  <2>1. DOMAIN <<>> = {}
    OBVIOUS
  <2> QED BY <2>1 DEF Init, Connected
<1> QED BY <1>1, <1>2, <1>3 DEF FillInv, Easy, Filling

LEMMA FillInvAlways ==
  ASSUME PortsSuffice
  PROVE  Spec => []FillInv
<1>1. DataInv /\ DataInv' /\ LedgerInv' /\ FillInv /\ [Next /\ UNCHANGED load]_<<vars, load>> => FillInv'
  <2> SUFFICES ASSUME DataInv, DataInv', LedgerInv', FillInv, Next \/ UNCHANGED vars PROVE FillInv'
    BY DEF vars
  <2>0. Claims /\ Tidy /\ Chunks /\ \A s \in Sports : Easy(s) /\ Filling(s)
    BY DEF FillInv, LedgerInv
  <2>1. CASE UNCHANGED vars
    <3>1. UNCHANGED <<connections, dataChan, pump, pause>>
      BY <2>1 DEF vars
    <3> QED BY <2>0, <3>1 DEF FillInv, Chunks, Easy, Filling, Connected, Held, Mark
  <2>2. CASE Next
    <3>1. Chunks' /\ \A s \in Sports : Easy(s)'
      BY <2>0, <2>2, ChunksStep, EasyStep
    <3>2. ASSUME NEW s \in Sports PROVE Filling(s)'
      BY <2>0, <2>2, <3>1, FillingStep
    <3> QED BY <3>1, <3>2 DEF FillInv
  <2> QED BY <2>1, <2>2
<1>2. Init => FillInv
  BY FillInvInit
<1>3. Spec => [](DataInv /\ LedgerInv)
  BY LedgerInvAlways
<1> QED BY <1>1, <1>2, <1>3, PTL DEF Spec
-----------------------------------------------------------------------------
(* What the device does for one port, with the frames G that it sends.     *)

FirstIs(p, flags) ==
  /\ toDevice # <<>> /\ toDevice' = Tail(toDevice)
  /\ Head(toDevice).sport = p /\ Head(toDevice).flags = flags

Says(G, flags, len) == \A i \in DOMAIN G : G[i].flags = flags /\ G[i].len = len

RoomTold(G, p) == \A i \in DOMAIN G : G[i].win = DeviceWindow - device[p].held

Opens(p, G) ==
  /\ FirstIs(p, "SYN") /\ ~device[p].open
  /\ device'[p].open /\ device'[p].rcvd = 0 /\ device'[p].held = 0 /\ device'[p].sent = 0
  /\ device'[p].ack = 0 /\ device'[p].win = 0
  /\ Says(G, "SYN|ACK", 0) /\ \A i \in DOMAIN G : G[i].win = DeviceWindow

Declines(p, G) ==
  FirstIs(p, "SYN") /\ device'[p] = device[p] /\ Says(G, "RST", 0) /\ RoomTold(G, p)

(* All but what is named stays. *)
Stores(p, G) ==
  LET f == Head(toDevice)
  IN  /\ FirstIs(p, "ACK") /\ device[p].open /\ G = <<>>
      /\ device'[p].open /\ device'[p].rcvd = device[p].rcvd + f.len
      /\ device'[p].held = device[p].held + f.len /\ device'[p].sent = device[p].sent
      /\ device'[p].ack = f.ack /\ device'[p].win = f.win

SameButOpen(p) ==
  /\ device'[p].rcvd = device[p].rcvd /\ device'[p].held = device[p].held
  /\ device'[p].sent = device[p].sent /\ device'[p].ack = device[p].ack
  /\ device'[p].win = device[p].win

Shuts(p, G) == FirstIs(p, "RST") /\ G = <<>> /\ ~device'[p].open /\ SameButOpen(p)

Ignores(p, G) == FirstIs(p, "ACK") /\ ~device[p].open /\ G = <<>> /\ device'[p] = device[p]

Consumes(p, G) ==
  /\ toDevice' = toDevice /\ device[p].open /\ G = <<>>
  /\ device'[p].open /\ device'[p].rcvd = device[p].rcvd /\ device'[p].held = 0
  /\ device'[p].sent = device[p].sent /\ device'[p].ack = device[p].ack
  /\ device'[p].win = device[p].win

Transmits(p, G) ==
  /\ toDevice' = toDevice /\ device[p].open /\ Len(G) = 1 /\ mux = "running"
  /\ \E n \in Nat :
       /\ n > 0 => ((1 + device[p].sent - device[p].ack) % SeqSpace) + n <= device[p].win
       /\ Says(G, "ACK", n)
       /\ device'[p].open /\ device'[p].rcvd = device[p].rcvd /\ device'[p].held = device[p].held
       /\ device'[p].sent = device[p].sent + n /\ device'[p].ack = device[p].ack
       /\ device'[p].win = device[p].win
  /\ RoomTold(G, p)

HangsUp(p, G) ==
  /\ toDevice' = toDevice /\ device[p].open /\ ~device'[p].open /\ SameButOpen(p)
  /\ Says(G, "RST", 0) /\ RoomTold(G, p)

Turn(p, G) ==
  /\ \A q \in Sports : q # p => device'[q] = device[q]
  /\ fromDevice' = fromDevice \o G /\ \A i \in DOMAIN G : i = 1 /\ G[i].sport = p
  /\ \/ Opens(p, G) \/ Declines(p, G) \/ Stores(p, G) \/ Shuts(p, G) \/ Ignores(p, G)
     \/ Consumes(p, G) \/ Transmits(p, G) \/ HangsUp(p, G)

LEMMA DeviceFieldsMore ==
  ASSUME NEW s, NEW d, NEW flags, NEW len
  PROVE  /\ DeviceFrame(s, d, flags, len).len = len
         /\ [DeviceFrame(s, d, flags, len) EXCEPT !.seq = 0].len = len
         /\ [DeviceFrame(s, d, flags, len) EXCEPT !.seq = 0].flags = flags
         /\ [DeviceFrame(s, d, flags, len) EXCEPT !.seq = 0].win = DeviceWindow - d.held
<1> QED BY DEF DeviceFrame

(* What is handed to the host is one frame, or nothing once the task is gone. *)
LEMMA Handed ==
  ASSUME DataInv, NEW g \in Incoming, ToHost(g)
  PROVE  \E G \in Seq(Incoming) : /\ fromDevice' = fromDevice \o G
                                  /\ \A i \in DOMAIN G : i = 1 /\ G[i] = g
                                  /\ mux # "exited" => Len(G) = 1
<1>1. fromDevice \in Seq(Incoming)
  BY DEF DataInv, PipeTypes
<1>2. CASE mux = "exited"
  <2>1. fromDevice' = fromDevice \o <<>> /\ <<>> \in Seq(Incoming) /\ DOMAIN <<>> = {}
    BY <1>1, <1>2 DEF ToHost
  <2> QED BY <1>2, <2>1
<1>3. CASE mux # "exited"
  <2>1. fromDevice' = fromDevice \o <<g>> /\ <<g>> \in Seq(Incoming) /\ Len(<<g>>) = 1
        /\ \A i \in DOMAIN <<g>> : i = 1 /\ <<g>>[i] = g
    BY <1>1, <1>3 DEF ToHost
  <2> QED BY <2>1
<1> QED BY <1>2, <1>3

LEMMA HandedNothing ==
  ASSUME DataInv, fromDevice' = fromDevice
  PROVE  <<>> \in Seq(Incoming) /\ fromDevice' = fromDevice \o <<>> /\ DOMAIN <<>> = {}
<1>1. fromDevice \in Seq(Incoming)
  BY DEF DataInv, PipeTypes
<1> QED BY <1>1

LEMMA TakesTurn ==
  ASSUME DataInv, DeviceTakes
  PROVE  \E p \in Sports : \E G \in Seq(Incoming) : Turn(p, G)
<1>0. PICK f, p : f = Head(toDevice) /\ p = f.sport
  OBVIOUS
<1> DEFINE d == device[p]
           new == [Closed EXCEPT !.open = TRUE, !.told = View(Closed)]
           synAck == [DeviceFrame(p, new, "SYN|ACK", 0) EXCEPT !.seq = 0]
           rst == DeviceFrame(p, d, "RST", 0)
<1>1. /\ toDevice # <<>> /\ toDevice' = Tail(toDevice) /\ Head(toDevice).sport = p
  BY <1>0 DEF DeviceTakes
<1>2. f \in Outgoing /\ p \in Sports /\ f.len \in Nat
  <2>1. toDevice \in Seq(Outgoing)
    BY DEF DataInv, PipeTypes
  <2>2. f \in Outgoing
    BY <1>0, <1>1, <2>1
  <2> QED BY <1>0, <2>2 DEF Outgoing
<1>3. device \in [Sports -> DeviceEnd] /\ d \in DeviceEnd
  BY <1>2 DEF DataInv, PipeTypes
<1>5. /\ new.open /\ new.rcvd = 0 /\ new.held = 0 /\ new.sent = 0 /\ new.ack = 0 /\ new.win = 0
  BY DEF Closed
<1>7. rst \in Incoming /\ rst.sport = p /\ rst.flags = "RST" /\ rst.len = 0 /\ rst.win = DeviceWindow - device[p].held
  <2>1. 0 \in Nat /\ "RST" \in Flags
    BY DEF Flags
  <2>2. rst \in Incoming
    BY <1>2, <1>3, <2>1, FramesIncoming
  <2> QED BY <2>2, DeviceFields, DeviceFieldsMore
<1>8. /\ synAck \in Incoming /\ synAck.sport = p /\ synAck.flags = "SYN|ACK" /\ synAck.len = 0
      /\ synAck.win = DeviceWindow
  <2>1. 0 \in Nat /\ "SYN|ACK" \in Flags
    BY DEF Flags
  <2>2. synAck.sport = p /\ synAck.flags = "SYN|ACK" /\ synAck.len = 0 /\ synAck.win = DeviceWindow - new.held
    <3> HIDE DEF new
    <3> QED BY DeviceFields, DeviceFieldsMore
  <2>3. new \in DeviceEnd
    <3>1. Closed \in DeviceEnd
      BY Sizes DEF DeviceEnd, Closed, Numbers
    <3>2. View(Closed) \in Nat \X Int
      BY <1>2, <2>1, <3>1, FramesIncoming
    <3> DEFINE v == View(Closed)
    <3> HIDE DEF v
    <3>3. v \in Nat \X Int
      BY <3>2 DEF v
    <3>4. [Closed EXCEPT !.open = TRUE, !.told = v] \in DeviceEnd
      BY <3>1, <3>3 DEF DeviceEnd
    <3> QED BY <3>4 DEF v
  <2>4. synAck \in Incoming
    BY <1>2, <2>1, <2>3, FramesIncoming
  <2>5. DeviceWindow - 0 = DeviceWindow
    BY Sizes
  <2> QED BY <2>2, <2>4, <2>5, <1>5
<1>9. \/ f.flags = "SYN" /\ ~d.open /\ device' = [device EXCEPT ![p] = new] /\ ToHost(synAck)
      \/ f.flags = "SYN" /\ device' = device /\ ToHost(rst)
      \/ /\ f.flags = "ACK" /\ d.open /\ fromDevice' = fromDevice
         /\ device' = [device EXCEPT ![p] =
                 [d EXCEPT !.rcvd = @ + f.len, !.held = @ + f.len, !.ack = f.ack, !.win = f.win]]
      \/ f.flags = "RST" /\ device' = [device EXCEPT ![p].open = FALSE] /\ fromDevice' = fromDevice
      \/ f.flags = "ACK" /\ ~d.open /\ device' = device /\ fromDevice' = fromDevice
  BY <1>0 DEF DeviceTakes
<1> HIDE DEF synAck, rst, new
<1>10. CASE f.flags = "SYN" /\ ~d.open /\ device' = [device EXCEPT ![p] = new] /\ ToHost(synAck)
  <2>1. device'[p] = new /\ \A q \in Sports : q # p => device'[q] = device[q]
    BY <1>2, <1>3, <1>10
  <2>2. PICK G \in Seq(Incoming) : /\ fromDevice' = fromDevice \o G
                                   /\ \A i \in DOMAIN G : i = 1 /\ G[i] = synAck
    BY <1>8, <1>10, Handed
  <2>3. Opens(p, G)
    BY <1>0, <1>1, <1>5, <1>8, <1>10, <2>1, <2>2 DEF Opens, FirstIs, Says
  <2> QED BY <1>2, <1>8, <2>1, <2>2, <2>3 DEF Turn
<1>11. CASE f.flags = "SYN" /\ device' = device /\ ToHost(rst)
  <2>2. PICK G \in Seq(Incoming) : /\ fromDevice' = fromDevice \o G
                                   /\ \A i \in DOMAIN G : i = 1 /\ G[i] = rst
    BY <1>7, <1>11, Handed
  <2>3. Declines(p, G)
    BY <1>0, <1>1, <1>7, <1>11, <2>2 DEF Declines, FirstIs, Says, RoomTold
  <2> QED BY <1>2, <1>7, <1>11, <2>2, <2>3 DEF Turn
<1>12. CASE /\ f.flags = "ACK" /\ d.open /\ fromDevice' = fromDevice
            /\ device' = [device EXCEPT ![p] =
                 [d EXCEPT !.rcvd = @ + f.len, !.held = @ + f.len, !.ack = f.ack, !.win = f.win]]
  <2>1. /\ device'[p].rcvd = d.rcvd + f.len /\ device'[p].held = d.held + f.len
        /\ device'[p].open /\ device'[p].sent = d.sent /\ device'[p].ack = f.ack /\ device'[p].win = f.win
        /\ \A q \in Sports : q # p => device'[q] = device[q]
    BY <1>2, <1>3, <1>12 DEF DeviceEnd
  <2>2. Stores(p, <<>>)
    BY <1>0, <1>1, <1>12, <2>1 DEF Stores, FirstIs
  <2> QED BY <1>2, <1>12, <2>1, <2>2, HandedNothing DEF Turn
<1>13. CASE f.flags = "RST" /\ device' = [device EXCEPT ![p].open = FALSE] /\ fromDevice' = fromDevice
  <2>1. /\ SameButOpen(p) /\ ~device'[p].open
        /\ \A q \in Sports : q # p => device'[q] = device[q]
    BY <1>2, <1>3, <1>13 DEF DeviceEnd, SameButOpen
  <2>2. Shuts(p, <<>>)
    BY <1>0, <1>1, <1>13, <2>1 DEF Shuts, FirstIs
  <2> QED BY <1>2, <1>13, <2>1, <2>2, HandedNothing DEF Turn
<1>14. CASE f.flags = "ACK" /\ ~d.open /\ device' = device /\ fromDevice' = fromDevice
  <2>2. Ignores(p, <<>>)
    BY <1>0, <1>1, <1>14 DEF Ignores, FirstIs
  <2> QED BY <1>2, <1>14, <2>2, HandedNothing DEF Turn
<1> QED BY <1>9, <1>10, <1>11, <1>12, <1>13, <1>14

LEMMA DeviceTurnIs ==
  ASSUME DataInv, DeviceActs
  PROVE  \E p \in Sports : \E G \in Seq(Incoming) : Turn(p, G)
<1>1. CASE DeviceTakes
  BY <1>1, TakesTurn
<1>0. device \in [Sports -> DeviceEnd]
  BY DEF DataInv, PipeTypes
<1>2. ASSUME NEW p \in Sports, DeviceConsumes(p) PROVE \E G \in Seq(Incoming) : Turn(p, G)
  <2>1. device[p] \in DeviceEnd /\ device[p].open /\ device' = [device EXCEPT ![p].held = 0]
        /\ toDevice' = toDevice /\ fromDevice' = fromDevice
    BY <1>0, <1>2 DEF DeviceConsumes
  <2>2. /\ device'[p] = [device[p] EXCEPT !.held = 0]
        /\ \A q \in Sports : q # p => device'[q] = device[q]
    BY <1>0, <2>1
  <2>3. Consumes(p, <<>>)
    BY <2>1, <2>2 DEF Consumes, DeviceEnd
  <2> QED BY <2>1, <2>2, <2>3, HandedNothing DEF Turn
<1>3. ASSUME NEW p \in Sports, DeviceResets(p) PROVE \E G \in Seq(Incoming) : Turn(p, G)
  <2> DEFINE g == DeviceFrame(p, device[p], "RST", 0)
  <2>1. device[p] \in DeviceEnd /\ device[p].open /\ device' = [device EXCEPT ![p].open = FALSE]
        /\ toDevice' = toDevice /\ ToHost(g)
    BY <1>0, <1>3 DEF DeviceResets
  <2>2. /\ device'[p] = [device[p] EXCEPT !.open = FALSE]
        /\ \A q \in Sports : q # p => device'[q] = device[q]
    BY <1>0, <2>1
  <2>3. ~device'[p].open /\ SameButOpen(p)
    BY <2>1, <2>2 DEF SameButOpen, DeviceEnd
  <2>4. g \in Incoming
    <3>1. 0 \in Nat /\ "RST" \in Flags
      BY DEF Flags
    <3> QED BY <2>1, <3>1, FramesIncoming
  <2>5. g.sport = p /\ g.flags = "RST" /\ g.len = 0 /\ g.win = DeviceWindow - device[p].held
    BY DeviceFields, DeviceFieldsMore
  <2> HIDE DEF g
  <2>6. PICK G \in Seq(Incoming) : /\ fromDevice' = fromDevice \o G
                                   /\ \A i \in DOMAIN G : i = 1 /\ G[i] = g
    BY <2>1, <2>4, Handed
  <2>7. HangsUp(p, G)
    BY <2>1, <2>3, <2>5, <2>6 DEF HangsUp, Says, RoomTold
  <2> QED BY <2>2, <2>5, <2>6, <2>7 DEF Turn
<1>4. ASSUME NEW p \in Sports, NEW n \in 0..MaxPayload, DeviceSends(p, n)
      PROVE  \E G \in Seq(Incoming) : Turn(p, G)
  <2> DEFINE g == DeviceFrame(p, device[p], "ACK", n)
             v == View(device[p])
  <2>1. /\ device[p] \in DeviceEnd /\ device[p].open /\ toDevice' = toDevice /\ ToHost(g)
        /\ device' = [device EXCEPT ![p].sent = @ + n, ![p].told = v] /\ mux = "running"
        /\ n > 0 => ((1 + device[p].sent - device[p].ack) % SeqSpace) + n <= device[p].win
    BY <1>0, <1>4 DEF DeviceSends
  <2> HIDE DEF v
  <2>2. /\ device'[p] = [device[p] EXCEPT !.sent = @ + n, !.told = v]
        /\ \A q \in Sports : q # p => device'[q] = device[q]
    BY <1>0, <2>1
  <2>0. n \in Nat
    BY Sizes
  <2>3. /\ device'[p].open /\ device'[p].rcvd = device[p].rcvd /\ device'[p].held = device[p].held
        /\ device'[p].sent = device[p].sent + n /\ device'[p].ack = device[p].ack
        /\ device'[p].win = device[p].win
    <3> DEFINE d == device[p]
    <3>1. d \in DeviceEnd /\ d.open /\ device'[p] = [d EXCEPT !.sent = @ + n, !.told = v]
      BY <2>1, <2>2
    <3> HIDE DEF d
    <3>2. DOMAIN d = {"open", "rcvd", "held", "sent", "ack", "win", "told"}
      BY <3>1 DEF DeviceEnd
    <3>3. /\ device'[p].open = d.open /\ device'[p].rcvd = d.rcvd /\ device'[p].held = d.held
          /\ device'[p].sent = d.sent + n /\ device'[p].ack = d.ack /\ device'[p].win = d.win
      BY <3>1, <3>2
    <3> QED BY <3>1, <3>3 DEF d
  <2>4. g \in Incoming
    <3>1. "ACK" \in Flags
      BY DEF Flags
    <3> QED BY <2>0, <2>1, <3>1, FramesIncoming
  <2>5. g.sport = p /\ g.flags = "ACK" /\ g.len = n /\ g.win = DeviceWindow - device[p].held
    BY DeviceFields, DeviceFieldsMore
  <2> HIDE DEF g
  <2>6. PICK G \in Seq(Incoming) : /\ fromDevice' = fromDevice \o G /\ Len(G) = 1
                                   /\ \A i \in DOMAIN G : i = 1 /\ G[i] = g
    BY <2>1, <2>4, Handed
  <2>7. Transmits(p, G)
    BY <2>0, <2>1, <2>3, <2>5, <2>6 DEF Transmits, Says, RoomTold
  <2> QED BY <2>2, <2>5, <2>6, <2>7 DEF Turn
<1> QED BY <1>1, <1>2, <1>3, <1>4 DEF DeviceActs
-----------------------------------------------------------------------------
(* What the mux task does for one port, with the frames Q that it sends.   *)

Offer(conn) == (Window(conn) \div Grain) * Grain

(* Acknowledgements, with the connection's number and room. *)
Said(Q, s, conn) ==
  /\ Q \in Seq(Outgoing)
  /\ \A i \in DOMAIN Q : /\ Q[i].sport = s /\ Q[i].flags = "ACK"
                         /\ Q[i].ack = conn.txAck /\ Q[i].win = Offer(conn)

(* A reset is the last frame, and the connection is gone then. *)
Speaks(p, Q) ==
  /\ Q \in Seq(Outgoing) /\ toDevice' = toDevice \o Q
  /\ \A i \in DOMAIN Q : Q[i].sport = p
  /\ \/ p \in DOMAIN connections' /\ Said(Q, p, connections'[p])
     \/ /\ p \notin DOMAIN connections'
        /\ \A i \in DOMAIN Q : \/ Q[i].flags = "ACK"
                               \/ Q[i].flags = "RST" /\ i = Len(Q) /\ Q[i].len = 0
        /\ p \in DOMAIN connections \/ \A i \in DOMAIN Q : Q[i].len = 0

(* The end of p's stream is the first message, and is taken. *)
NoneFirst(p) ==
  /\ dataChan # <<>> /\ Head(dataChan)[1] = p /\ Head(dataChan)[2] = 0
  /\ dataChan' = Tail(dataChan)

(* Why a connection goes while frames can be sent. *)
Lets(p, Q) ==
  Connected(p) /\ p \notin DOMAIN connections' /\ writerUp =>
    \/ /\ connections[p].pending = Carried(Q, p, Len(Q))
       /\ connections[p].clientClosed \/ NoneFirst(p)
    \/ fromDevice # <<>> /\ pkt.sport = p /\ pkt.flags # "ACK"
    \/ forwarder[connections[p].client].pc = "done"

Learns(p) ==
  p \in DOMAIN connections' =>
    /\ connections'[p].clientClosed => connections[p].clientClosed \/ NoneFirst(p)
    /\ \/ connections'[p].rxWin = connections[p].rxWin
       \/ fromDevice # <<>> /\ connections'[p].rxWin = pkt.win

(* A connection that is not up sends nothing, unless it goes. *)
Allowed(p, Q) == Q = <<>> \/ Connected(p) \/ p \notin DOMAIN connections'

Handles(p, Q) == Speaks(p, Q) /\ Stays(p) /\ Lets(p, Q) /\ Learns(p) /\ Allowed(p, Q)

LEMMA SaidNothing == ASSUME NEW s, NEW conn PROVE Said(<<>>, s, conn)
<1> QED BY DEF Said

LEMMA FlushedMore ==
  ASSUME NEW conn \in Connection
  PROVE  /\ Flushed(conn).txAck = conn.txAck /\ Flushed(conn).rxBuffered = conn.rxBuffered
         /\ Flushed(conn).clientClosed = conn.clientClosed /\ Offer(Flushed(conn)) = Offer(conn)
<1> DEFINE n == Sendable(conn)
<1> HIDE DEF n
<1>1. Flushed(conn) = [conn EXCEPT !.pending = @ - n, !.txSeq = (@ + n) % SeqSpace]
  BY DEF Flushed, n
<1>2. /\ Flushed(conn).txAck = conn.txAck /\ Flushed(conn).rxBuffered = conn.rxBuffered
      /\ Flushed(conn).clientClosed = conn.clientClosed
  BY <1>1 DEF Connection
<1> QED BY <1>2 DEF Offer, Window

LEMMA FrameSays ==
  ASSUME NEW s, NEW conn, NEW flags, NEW len
  PROVE  /\ Frame(s, conn, flags, len).sport = s /\ Frame(s, conn, flags, len).flags = flags
         /\ Frame(s, conn, flags, len).len = len
         /\ Frame(s, conn, flags, len).ack = conn.txAck
         /\ Frame(s, conn, flags, len).win = Offer(conn)
<1> QED BY DEF Frame, Offer

LEMMA SaidOne ==
  ASSUME NEW s \in Sports, NEW conn \in Connection
  PROVE  Said(<<Frame(s, conn, "ACK", 0)>>, s, conn)
<1> DEFINE f == Frame(s, conn, "ACK", 0)
<1>1. f.sport = s /\ f.flags = "ACK" /\ f.ack = conn.txAck /\ f.win = Offer(conn)
  BY FrameSays
<1>2. f \in Outgoing
  <2>1. "ACK" \in Flags /\ 0 \in Nat
    BY DEF Flags
  <2> QED BY <2>1, FrameIsOutgoing
<1> HIDE DEF f
<1>3. Said(<<f>>, s, conn)
  BY <1>1, <1>2 DEF Said
<1> QED BY <1>3 DEF f

LEMMA SaidFlush ==
  ASSUME NEW s \in Sports, NEW conn \in Connection
  PROVE  Said(FlushFrames(s, conn), s, Flushed(conn))
<1> DEFINE Q == FlushFrames(s, conn)
           seq(i) == (conn.txSeq + (i - 1) * MaxPayload) % SeqSpace
           from(i) == [conn EXCEPT !.txSeq = seq(i)]
           len(i) == Least(MaxPayload, Sendable(conn) - (i - 1) * MaxPayload)
<1>1. Q \in Seq(Outgoing) /\ \A i \in DOMAIN Q : Q[i].sport = s /\ Q[i].flags = "ACK"
  BY FlushEmits DEF Emits
<1>2. \A i \in DOMAIN Q : Q[i] = Frame(s, from(i), "ACK", len(i))
  BY DEF FlushFrames
<1> HIDE DEF Q, seq, len
<1>3. \A i \in DOMAIN Q : from(i).txAck = conn.txAck /\ from(i).rxBuffered = conn.rxBuffered
  BY DEF Connection
<1> HIDE DEF from
<1>4. \A i \in DOMAIN Q : Q[i].ack = conn.txAck /\ Q[i].win = Offer(conn)
  <2> TAKE i \in DOMAIN Q
  <2>1. Q[i].ack = from(i).txAck /\ Q[i].win = Offer(from(i))
    BY <1>2, FrameSays
  <2>2. Offer(from(i)) = Offer(conn)
    BY <1>3 DEF Offer, Window
  <2> QED BY <1>3, <2>1, <2>2
<1>5. Said(Q, s, Flushed(conn))
  BY <1>1, <1>4, FlushedMore DEF Said
<1> QED BY <1>5 DEF Q

LEMMA Joined ==
  ASSUME NEW S, NEW P \in Seq(S), NEW Q \in Seq(S)
  PROVE  \A i \in DOMAIN (P \o Q) :
           (i \in DOMAIN P /\ (P \o Q)[i] = P[i]) \/ (i - Len(P) \in DOMAIN Q /\ (P \o Q)[i] = Q[i - Len(P)])
<1>1. DOMAIN (P \o Q) = 1..(Len(P) + Len(Q)) /\ Len(P) \in Nat /\ Len(Q) \in Nat
      /\ DOMAIN P = 1..Len(P) /\ DOMAIN Q = 1..Len(Q)
  OBVIOUS
<1>2. \A i \in 1..Len(P) : i \in DOMAIN P /\ (P \o Q)[i] = P[i]
  OBVIOUS
<1>3. \A i \in (Len(P) + 1)..(Len(P) + Len(Q)) : i - Len(P) \in DOMAIN Q /\ (P \o Q)[i] = Q[i - Len(P)]
  OBVIOUS
<1>4. \A i \in DOMAIN (P \o Q) : i \in 1..Len(P) \/ i \in (Len(P) + 1)..(Len(P) + Len(Q))
  <2> DEFINE m == Len(P)
             k == Len(Q)
             D == DOMAIN (P \o Q)
  <2>1. D = 1..(m + k) /\ m \in Nat /\ k \in Nat
    BY <1>1
  <2> HIDE DEF m, k, D
  <2>2. \A i \in 1..(m + k) : i \in 1..m \/ i \in (m + 1)..(m + k)
    BY <2>1
  <2> QED BY <2>1, <2>2 DEF m, k, D
<1> QED BY <1>2, <1>3, <1>4

LEMMA SaidBoth ==
  ASSUME NEW P, NEW Q, NEW s, NEW conn, NEW next, Said(P, s, conn), Said(Q, s, next),
         next.txAck = conn.txAck, Offer(next) = Offer(conn)
  PROVE  Said(P \o Q, s, next)
<1>1. P \in Seq(Outgoing) /\ Q \in Seq(Outgoing)
  BY DEF Said
<1>2. P \o Q \in Seq(Outgoing)
  BY <1>1
<1>3. \A i \in DOMAIN (P \o Q) :
           (i \in DOMAIN P /\ (P \o Q)[i] = P[i]) \/ (i - Len(P) \in DOMAIN Q /\ (P \o Q)[i] = Q[i - Len(P)])
  BY <1>1, Joined
<1> DEFINE R == P \o Q
<1> HIDE DEF R
<1>4. ASSUME NEW i \in DOMAIN R
      PROVE  /\ R[i].sport = s /\ R[i].flags = "ACK"
             /\ R[i].ack = next.txAck /\ R[i].win = Offer(next)
  <2>1. CASE i \in DOMAIN P /\ R[i] = P[i]
    BY <2>1 DEF Said
  <2>2. CASE i - Len(P) \in DOMAIN Q /\ R[i] = Q[i - Len(P)]
    BY <2>2 DEF Said
  <2> QED BY <1>3, <1>4, <2>1, <2>2 DEF R
<1>5. Said(R, s, next)
  BY <1>2, <1>4 DEF Said, R
<1> QED BY <1>5 DEF R

(* Frames and the reset that ends them. *)
EndsWith(Q, s) ==
  /\ Q \in Seq(Outgoing)
  /\ \A i \in DOMAIN Q : /\ Q[i].sport = s
                         /\ \/ Q[i].flags = "ACK"
                            \/ Q[i].flags = "RST" /\ i = Len(Q) /\ Q[i].len = 0

LEMMA ResetLastPut ==
  ASSUME NEW P, NEW s \in Sports, NEW conn \in Connection, NEW next, Said(P, s, next)
  PROVE  /\ EndsWith(P \o <<Frame(s, conn, "RST", 0)>>, s)
         /\ Carried(P \o <<Frame(s, conn, "RST", 0)>>, s, Len(P \o <<Frame(s, conn, "RST", 0)>>))
              = Carried(P, s, Len(P))
<1> DEFINE f == Frame(s, conn, "RST", 0)
<1>1. f.sport = s /\ f.flags = "RST" /\ f.len = 0
  BY FrameSays
<1>2. f \in Outgoing
  <2>1. "RST" \in Flags /\ 0 \in Nat
    BY DEF Flags
  <2> QED BY <2>1, FrameIsOutgoing
<1> HIDE DEF f
<1>3. P \in Seq(Outgoing) /\ <<f>> \in Seq(Outgoing) /\ Len(P) \in Nat
  BY <1>2 DEF Said
<1> DEFINE R == P \o <<f>>
<1>4. R \in Seq(Outgoing) /\ Len(R) = Len(P) + 1
      /\ \A i \in DOMAIN R : (i \in DOMAIN P /\ R[i] = P[i]) \/ (i = Len(R) /\ R[i] = f)
  BY <1>2, <1>3
<1>5. Carried(R, s, Len(P) + 1) = Carried(P, s, Len(P)) + Carried(<<f>>, s, 1)
  <2> DEFINE g == <<f>>
  <2>1. 1 <= Len(g) /\ 1 \in Nat /\ g \in Seq(Outgoing)
    BY <1>3
  <2> HIDE DEF g
  <2>2. \A k \in Nat : k <= Len(g) =>
          Carried(P \o g, s, Len(P) + k) = Carried(P, s, Len(P)) + Carried(g, s, k)
    BY <1>3, <2>1, CarriedJoined
  <2>3. Carried(P \o g, s, Len(P) + 1) = Carried(P, s, Len(P)) + Carried(g, s, 1)
    BY <2>1, <2>2
  <2> QED BY <2>3 DEF g
<1>6. Carried(<<f>>, s, 1) = 0 /\ Carried(P, s, Len(P)) \in Nat
  <2>1. f.len \in Nat
    BY <1>1
  <2> QED BY <1>1, <1>3, <2>1, CarriedOne, CarriedAll
<1> DEFINE a == Carried(P, s, Len(P))
           b == Carried(<<f>>, s, 1)
           n == Carried(R, s, Len(P) + 1)
<1> HIDE DEF R
<1>7. EndsWith(R, s)
  BY <1>1, <1>4 DEF EndsWith, Said
<1>8. Carried(R, s, Len(R)) = Carried(P, s, Len(P))
  <2>1. n = a + b /\ b = 0 /\ a \in Nat
    BY <1>5, <1>6
  <2> HIDE DEF a, b, n
  <2>2. n = a
    BY <2>1
  <2> QED BY <1>4, <2>2 DEF a, n
<1> QED BY <1>7, <1>8 DEF R, f

LEMMA SpeaksStill ==
  ASSUME DataInv, toDevice' = toDevice, NEW p, Stays(p)
  PROVE  Speaks(p, <<>>)
<1>1. toDevice' = toDevice \o <<>> /\ <<>> \in Seq(Outgoing) /\ DOMAIN <<>> = {}
  BY PutNothing DEF DataInv
<1> QED BY <1>1, SaidNothing DEF Speaks

LEMMA IgnoredHandles ==
  ASSUME DataInv, connections' = connections, toDevice' = toDevice, NEW p
  PROVE  Handles(p, <<>>)
<1>1. Stays(p)
  BY StaysAll
<1> QED BY <1>1, SpeaksStill DEF Handles, Lets, Learns, Connected, Allowed
-----------------------------------------------------------------------------
(* The messages of the pumps.                                              *)

LEMMA SpeaksOn ==
  ASSUME NEW p, NEW Q, NEW conn, toDevice' = toDevice \o Q, p \in DOMAIN connections',
         connections'[p] = conn, Said(Q, p, conn)
  PROVE  Speaks(p, Q)
<1> QED BY DEF Speaks, Said

LEMMA SpeaksLast ==
  ASSUME NEW p \in DOMAIN connections, NEW Q, toDevice' = toDevice \o Q, Teardown(p), EndsWith(Q, p)
  PROVE  Speaks(p, Q)
<1>1. p \notin DOMAIN connections'
  BY Torn
<1> QED BY <1>1 DEF Speaks, EndsWith

LEMMA FromPumpHandles ==
  ASSUME DataInv, DataFromPump
  PROVE  \E p \in Sports : \E Q \in Seq(Outgoing) : Handles(p, Q)
<1>0. PICK p : p = Head(dataChan)[1]
  OBVIOUS
<1> DEFINE n == Head(dataChan)[2]
           old == connections[p]
           conn == [old EXCEPT !.pending = @ + n]
           next == Flushed(conn)
           F == FlushFrames(p, conn)
<1>1. /\ TakeData /\ Connected(p)
      /\ \/ toDevice' = toDevice \o F /\ connections' = [connections EXCEPT ![p] = next]
         \/ ~writerUp /\ Teardown(p) /\ toDevice' = toDevice
  BY <1>0 DEF DataFromPump
<1>2. p \in Sports /\ p \in DOMAIN connections /\ old \in Connection
  BY <1>1, PortUp
<1>3. n \in Nat
  BY <1>1, TakesFirst DEF DataInv
<1>4. conn \in Connection /\ conn.client = old.client /\ conn.state = old.state
      /\ conn.clientClosed = old.clientClosed /\ conn.rxWin = old.rxWin
  <2> HIDE DEF n, old
  <2>1. conn \in Connection /\ conn.client = old.client /\ conn.state = old.state
    BY <1>2, <1>3, ShiftedFields
  <2>2. conn.clientClosed = old.clientClosed /\ conn.rxWin = old.rxWin
    BY <1>2 DEF Connection
  <2> QED BY <2>1, <2>2
<1> HIDE DEF conn
<1>5. /\ next.client = old.client /\ next.state = old.state /\ next.clientClosed = old.clientClosed
      /\ next.rxWin = old.rxWin
  BY <1>4, FlushedFields, FlushedMore
<1>6. Said(F, p, next)
  BY <1>2, <1>4, SaidFlush
<1> HIDE DEF F, next
<1>7. CASE toDevice' = toDevice \o F /\ connections' = [connections EXCEPT ![p] = next]
  <2>1. Stays(p) /\ connections'[p] = next /\ p \in DOMAIN connections'
    BY <1>2, <1>5, <1>7, StaysSame
  <2>2. Speaks(p, F)
    BY <1>6, <1>7, <2>1, SpeaksOn
  <2>3. Lets(p, F) /\ Learns(p)
    BY <1>5, <2>1 DEF Lets, Learns
  <2> QED BY <1>1, <1>2, <1>6, <2>1, <2>2, <2>3 DEF Handles, Allowed, Said
<1>8. CASE ~writerUp /\ Teardown(p) /\ toDevice' = toDevice
  <2>1. Stays(p) /\ p \notin DOMAIN connections'
    BY <1>2, <1>8, StaysTorn, Torn
  <2>2. Speaks(p, <<>>) /\ <<>> \in Seq(Outgoing)
    BY <1>8, <2>1, SpeaksStill
  <2>3. Lets(p, <<>>) /\ Learns(p)
    BY <1>8, <2>1 DEF Lets, Learns
  <2> QED BY <1>1, <1>2, <2>1, <2>2, <2>3 DEF Handles, Allowed
<1> QED BY <1>1, <1>7, <1>8

LEMMA ClosedHandles ==
  ASSUME DataInv, ClientClosed
  PROVE  \E p \in Sports : \E Q \in Seq(Outgoing) : Handles(p, Q)
<1>0. PICK p : p = Head(dataChan)[1]
  OBVIOUS
<1> DEFINE n == Head(dataChan)[2]
           old == connections[p]
           conn == [old EXCEPT !.clientClosed = TRUE]
           next == Flushed(conn)
           F == FlushFrames(p, conn)
           Q == F \o <<Frame(p, next, "RST", 0)>>
<1>1. /\ TakeData /\ writerUp' = writerUp /\ Connected(p) /\ n = 0
      /\ dataChan # <<>> /\ dataChan' = Tail(dataChan)
      /\ \/ toDevice' = toDevice \o F /\ connections' = [connections EXCEPT ![p] = next]
         \/ Teardown(p) /\ ~writerUp /\ toDevice' = toDevice
         \/ /\ Teardown(p) /\ next.pending = 0
            /\ toDevice' = toDevice \o F \o <<Frame(p, next, "RST", 0)>>
  BY <1>0 DEF ClientClosed, TakeData
<1>2. p \in Sports /\ p \in DOMAIN connections /\ old \in Connection
  BY <1>1, PortUp, SMTT(30)
<1>3. NoneFirst(p)
  BY <1>0, <1>1 DEF NoneFirst
<1>4. conn \in Connection /\ conn.client = old.client /\ conn.state = old.state
      /\ conn.pending = old.pending /\ conn.rxWin = old.rxWin
  <2> HIDE DEF old
  <2> QED BY <1>2 DEF Connection
<1> HIDE DEF conn
<1>5. /\ next.client = old.client /\ next.state = old.state /\ next.rxWin = old.rxWin
      /\ next \in Connection /\ next.pending = conn.pending - Sendable(conn)
  BY <1>4, FlushedFields
<1>6. Said(F, p, next) /\ Carried(F, p, Len(F)) = Sendable(conn) /\ F \in Seq(Outgoing)
  BY <1>2, <1>4, SaidFlush, FlushEmits DEF Said
<1>7. next.pending = 0 => Carried(F, p, Len(F)) = old.pending
  <2>1. Sendable(conn) \in Nat /\ conn.pending \in Nat
    BY <1>4, SendableFacts DEF Connection
  <2> DEFINE k == Sendable(conn)
             w == conn.pending
  <2>2. k \in Nat /\ w \in Nat /\ next.pending = w - k /\ old.pending = w /\ Carried(F, p, Len(F)) = k
    BY <1>4, <1>5, <1>6, <2>1
  <2> HIDE DEF k, w, F, old, next
  <2> QED BY <2>2
<1> HIDE DEF F, next
<1>8. EndsWith(Q, p) /\ Carried(Q, p, Len(Q)) = Carried(F, p, Len(F))
  BY <1>2, <1>5, <1>6, ResetLastPut
<1>9. toDevice \o F \o <<Frame(p, next, "RST", 0)>> = toDevice \o Q
  <2>1. Frame(p, next, "RST", 0) \in Outgoing
    <3>1. "RST" \in Flags /\ 0 \in Nat
      BY DEF Flags
    <3> QED BY <1>2, <1>5, <3>1, FrameIsOutgoing
  <2> DEFINE r == <<Frame(p, next, "RST", 0)>>
  <2>2. r \in Seq(Outgoing) /\ toDevice \in Seq(Outgoing)
    BY <2>1 DEF DataInv, PipeTypes
  <2> HIDE DEF r
  <2>3. (toDevice \o F) \o r = toDevice \o (F \o r)
    BY <1>6, <2>2, PutTwice
  <2> QED BY <2>3 DEF r
<1>10. CASE toDevice' = toDevice \o F /\ connections' = [connections EXCEPT ![p] = next]
  <2>1. Stays(p) /\ connections'[p] = next /\ p \in DOMAIN connections'
    BY <1>2, <1>5, <1>10, StaysSame
  <2>2. Speaks(p, F)
    BY <1>6, <1>10, <2>1, SpeaksOn
  <2>3. Lets(p, F) /\ Learns(p)
    BY <1>3, <1>5, <2>1 DEF Lets, Learns
  <2> QED BY <1>1, <1>2, <1>6, <2>1, <2>2, <2>3 DEF Handles, Allowed
<1>11. CASE ~writerUp /\ Teardown(p) /\ toDevice' = toDevice
  <2>1. Stays(p) /\ p \notin DOMAIN connections'
    BY <1>2, <1>11, StaysTorn, Torn
  <2>2. Speaks(p, <<>>) /\ <<>> \in Seq(Outgoing)
    BY <1>11, <2>1, SpeaksStill
  <2>3. Lets(p, <<>>) /\ Learns(p)
    BY <1>11, <2>1 DEF Lets, Learns
  <2> QED BY <1>1, <1>2, <2>1, <2>2, <2>3 DEF Handles, Allowed
<1>12. CASE /\ Teardown(p) /\ next.pending = 0
            /\ toDevice' = toDevice \o F \o <<Frame(p, next, "RST", 0)>>
  <2> HIDE DEF Q
  <2>1. Stays(p) /\ p \notin DOMAIN connections' /\ toDevice' = toDevice \o Q
    BY <1>2, <1>9, <1>12, StaysTorn, Torn
  <2>2. Speaks(p, Q)
    BY <1>2, <1>8, <1>12, <2>1, SpeaksLast
  <2>3. Lets(p, Q) /\ Learns(p)
    BY <1>3, <1>7, <1>8, <1>12, <2>1 DEF Lets, Learns
  <2> QED BY <1>1, <1>2, <1>8, <2>1, <2>2, <2>3 DEF Handles, Allowed, EndsWith
<1> QED BY <1>1, <1>10, <1>11, <1>12

LEMMA DrainedHandles ==
  ASSUME DataInv, Drained
  PROVE  \E p \in Sports : \E Q \in Seq(Outgoing) : Handles(p, Q)
<1>0. PICK p : p = Head(drainChan)[1]
  OBVIOUS
<1> DEFINE old == connections[p]
           held == Less(old.rxBuffered, Head(drainChan)[2])
           conn == [old EXCEPT !.rxBuffered = held]
           f == Frame(p, conn, "ACK", 0)
<1>1. drainChan # <<>>
  BY DEF Drained
<1>2. 1 \in Sports /\ <<>> \in Seq(Outgoing)
  BY Sizes DEF Sports
<1>3. CASE p \notin DOMAIN connections
  <2>1. connections' = connections /\ toDevice' = toDevice
    BY <1>0, <1>3 DEF Drained
  <2> QED BY <1>2, <2>1, IgnoredHandles
<1>4. CASE p \in DOMAIN connections
  <2>1. /\ connections' = [connections EXCEPT ![p] = conn]
        /\ toDevice' = toDevice \/ (conn.state = "Connected" /\ toDevice' = Append(toDevice, f))
    BY <1>0, <1>4 DEF Drained
  <2>2. p \in Sports /\ old \in Connection
    BY <1>4 DEF DataInv, UploadInv, StateInv, ConnectionTypes
  <2>3. held \in Nat
    <3>1. Head(drainChan)[2] \in Nat
      BY <1>1 DEF DataInv, UploadInv, ChannelTypes
    <3> QED BY <2>2, <3>1 DEF Less, Connection
  <2>4. /\ conn \in Connection /\ conn.state = old.state /\ conn.client = old.client
        /\ conn.clientClosed = old.clientClosed /\ conn.rxWin = old.rxWin
    <3> HIDE DEF held, old
    <3>1. conn \in Connection /\ conn.state = old.state /\ conn.client = old.client
      BY <2>2, <2>3, ShiftedFields
    <3>2. conn.clientClosed = old.clientClosed /\ conn.rxWin = old.rxWin
      BY <2>2 DEF Connection
    <3> QED BY <3>1, <3>2
  <2> HIDE DEF conn
  <2>5. Stays(p) /\ connections'[p] = conn /\ p \in DOMAIN connections'
    BY <1>4, <2>1, <2>4, StaysSame
  <2>6. Learns(p) /\ \A Q : Lets(p, Q)
    BY <2>4, <2>5 DEF Learns, Lets
  <2>7. CASE toDevice' = toDevice
    <3>1. Speaks(p, <<>>)
      BY <2>5, <2>7, SpeaksStill
    <3> QED BY <1>2, <2>2, <2>5, <2>6, <3>1 DEF Handles, Allowed
  <2>8. CASE conn.state = "Connected" /\ toDevice' = Append(toDevice, f)
    <3> DEFINE Q == <<f>>
    <3>0. Connected(p)
      BY <1>4, <2>4, <2>8 DEF Connected
    <3>1. Said(Q, p, conn)
      BY <2>2, <2>4, SaidOne
    <3>2. f \in Outgoing
      <4>1. "ACK" \in Flags /\ 0 \in Nat
        BY DEF Flags
      <4> QED BY <2>2, <2>4, <4>1, FrameIsOutgoing
    <3> HIDE DEF f
    <3>3. toDevice' = toDevice \o Q
      BY <2>8, <3>2, OneFrame
    <3> HIDE DEF Q
    <3>4. Speaks(p, Q)
      BY <2>5, <3>1, <3>3, SpeaksOn
    <3> QED BY <2>2, <2>5, <2>6, <3>0, <3>1, <3>4 DEF Handles, Allowed, Said
  <2> QED BY <2>1, <2>7, <2>8
<1> QED BY <1>3, <1>4
-----------------------------------------------------------------------------
(* The packets.                                                            *)

LEMMA UnknownHandles ==
  ASSUME DataInv, UnknownConnection
  PROVE  \E p \in Sports : \E Q \in Seq(Outgoing) : Handles(p, Q)
<1> DEFINE p == pkt.sport
           anon == [txSeq |-> 0, txAck |-> pkt.seq, rxBuffered |-> 0]
           f == Frame(p, anon, "RST", 0)
<1>1. /\ TakePacket /\ p \notin DOMAIN connections /\ connections' = connections
      /\ toDevice' = toDevice \/ toDevice' = Append(toDevice, f)
  BY DEF UnknownConnection
<1>2. p \in Sports /\ pkt \in Incoming
  BY <1>1, PacketIn
<1>3. f \in Outgoing /\ f.sport = p /\ f.flags = "RST" /\ f.len = 0
  <2>1. f.sport = p /\ f.flags = "RST" /\ f.len = 0
    BY FrameSays
  <2>2. Window(anon) \in 0..RxWindow /\ (Window(anon) \div Grain) * Grain \in 0..RxWindow
    <3>1. anon.rxBuffered \in Nat
      OBVIOUS
    <3> QED BY <3>1, OfferRange
  <2>3. pkt.seq \in Numbers /\ 0 \in Numbers
    BY <1>2, Sizes DEF Incoming, Numbers
  <2> DEFINE w == (Window(anon) \div Grain) * Grain
  <2>4. w \in 0..RxWindow /\ f = [sport |-> p, flags |-> "RST", seq |-> 0, ack |-> pkt.seq, win |-> w, len |-> 0]
    BY <2>2 DEF Frame
  <2> HIDE DEF w, f, p
  <2>5. f \in Outgoing
    BY <1>2, <2>3, <2>4 DEF Outgoing, Flags
  <2> QED BY <2>1, <2>5
<1> HIDE DEF f
<1>4. CASE toDevice' = toDevice
  <2>1. <<>> \in Seq(Outgoing)
    OBVIOUS
  <2> QED BY <1>1, <1>2, <1>4, <2>1, IgnoredHandles
<1>5. CASE toDevice' = Append(toDevice, f)
  <2> DEFINE Q == <<f>>
  <2>1. toDevice' = toDevice \o Q /\ Q \in Seq(Outgoing) /\ Len(Q) = 1
        /\ \A i \in DOMAIN Q : i = 1 /\ Q[i] = f
    BY <1>3, <1>5, OneFrame
  <2> HIDE DEF Q
  <2>2. Speaks(p, Q)
    BY <1>1, <1>3, <2>1 DEF Speaks
  <2>3. Stays(p)
    BY <1>1, StaysAll
  <2>4. Lets(p, Q) /\ Learns(p)
    BY <1>1 DEF Lets, Learns, Connected
  <2> QED BY <1>1, <1>2, <2>1, <2>2, <2>3, <2>4 DEF Handles, Allowed
<1> QED BY <1>1, <1>4, <1>5

LEMMA RefusedHandles ==
  ASSUME DataInv, Refused
  PROVE  \E p \in Sports : \E Q \in Seq(Outgoing) : Handles(p, Q)
<1> DEFINE p == pkt.sport
<1>1. /\ TakePacket /\ p \in DOMAIN connections /\ Teardown(p) /\ toDevice' = toDevice
      /\ IF Heard.state = "Connecting" THEN pkt.flags # "SYN|ACK" ELSE pkt.flags # "ACK"
  BY DEF Refused
<1>2. p \in Sports /\ fromDevice # <<>> /\ Heard.state = connections[p].state
  BY <1>1, PacketIn, HeardIs
<1>3. Stays(p) /\ p \notin DOMAIN connections'
  BY <1>1, StaysTorn, Torn
<1>4. Speaks(p, <<>>) /\ <<>> \in Seq(Outgoing)
  BY <1>1, <1>3, SpeaksStill
<1>5. Lets(p, <<>>) /\ Learns(p)
  BY <1>1, <1>2, <1>3 DEF Lets, Learns, Connected
<1> QED BY <1>2, <1>3, <1>4, <1>5 DEF Handles, Allowed

LEMMA UndeliverableHandles ==
  ASSUME DataInv, Undeliverable
  PROVE  \E p \in Sports : \E Q \in Seq(Outgoing) : Handles(p, Q)
<1> DEFINE p == pkt.sport
           f == Frame(p, Heard, "RST", 0)
<1>1. /\ TakePacket /\ Connected(p) /\ Teardown(p) /\ forwarder[Heard.client].pc = "done"
      /\ toDevice' = toDevice \/ toDevice' = Append(toDevice, f)
  BY DEF Undeliverable
<1>2. p \in Sports /\ p \in DOMAIN connections /\ Heard \in Connection /\ Heard.client = connections[p].client
  BY <1>1, PacketIn, HeardIs, PortUp
<1>3. Stays(p) /\ p \notin DOMAIN connections'
  BY <1>1, <1>2, StaysTorn, Torn
<1>4. Learns(p) /\ \A Q : Lets(p, Q)
  BY <1>1, <1>2, <1>3 DEF Lets, Learns
<1>5. CASE toDevice' = toDevice
  <2>1. Speaks(p, <<>>) /\ <<>> \in Seq(Outgoing)
    BY <1>3, <1>5, SpeaksStill
  <2> QED BY <1>2, <1>3, <1>4, <2>1 DEF Handles, Allowed
<1>6. CASE toDevice' = Append(toDevice, f)
  <2>1. f \in Outgoing
    <3>1. "RST" \in Flags /\ 0 \in Nat
      BY DEF Flags
    <3> QED BY <1>2, <3>1, FrameIsOutgoing
  <2>2. f.sport = p /\ f.flags = "RST" /\ f.len = 0
    BY FrameSays
  <2> HIDE DEF f
  <2> DEFINE Q == <<f>>
  <2>3. toDevice' = toDevice \o Q /\ Q \in Seq(Outgoing) /\ Len(Q) = 1
        /\ \A i \in DOMAIN Q : i = 1 /\ Q[i] = f
    BY <1>6, <2>1, OneFrame
  <2> HIDE DEF Q
  <2>4. EndsWith(Q, p)
    BY <2>2, <2>3 DEF EndsWith
  <2>5. Speaks(p, Q)
    BY <1>1, <1>2, <2>3, <2>4, SpeaksLast
  <2> QED BY <1>2, <1>3, <1>4, <2>3, <2>5 DEF Handles, Allowed
<1> QED BY <1>1, <1>5, <1>6

LEMMA ReceivedHandles ==
  ASSUME DataInv, Received
  PROVE  \E p \in Sports : \E Q \in Seq(Outgoing) : Handles(p, Q)
<1>0. PICK p : p = pkt.sport
  OBVIOUS
<1> DEFINE old == connections[p]
           conn == [Heard EXCEPT !.rxBuffered = @ + pkt.len, !.txAck = (@ + pkt.len) % SeqSpace]
           acks == IF pkt.len > 0 THEN <<Frame(p, conn, "ACK", 0)>> ELSE <<>>
           F == FlushFrames(p, conn)
           next == Flushed(conn)
           rst == <<Frame(p, next, "RST", 0)>>
           done == conn.clientClosed /\ next.pending = 0
           lost == IF pkt.len > 0 THEN 0 ELSE Least(MaxPayload, Sendable(conn))
           stuck == [conn EXCEPT !.pending = @ - lost]
<1>1. /\ TakePacket /\ Connected(p) /\ fromDevice # <<>>
      /\ \/ writerUp /\ done /\ Teardown(p) /\ toDevice' = toDevice \o acks \o F \o rst
         \/ /\ writerUp /\ ~done /\ toDevice' = toDevice \o acks \o F \o <<>>
            /\ connections' = [connections EXCEPT ![p] = next]
         \/ /\ ~writerUp /\ toDevice' = toDevice
            /\ connections' = [connections EXCEPT ![p] = stuck]
  BY <1>0 DEF Received, TakePacket
<1>2. p \in Sports /\ pkt \in Incoming /\ pkt.len \in Nat
  <2>1. pkt \in Incoming /\ pkt.sport \in Sports
    BY <1>1, PacketIn
  <2> QED BY <1>0, <2>1 DEF Incoming
<1>3. /\ p \in DOMAIN connections /\ old \in Connection
      /\ Heard \in Connection /\ Heard.state = old.state /\ Heard.client = old.client
      /\ Heard.pending = old.pending /\ Heard.rxWin = pkt.win /\ Heard.clientClosed = old.clientClosed
  <2>1. p \in DOMAIN connections /\ old \in Connection
    BY <1>1, PortUp
  <2>2. /\ Heard \in Connection /\ Heard.state = old.state /\ Heard.client = old.client /\ Heard.rxWin = pkt.win
    BY <1>0, <1>1, <2>1, HeardIs
  <2>3. Heard.pending = old.pending /\ Heard.clientClosed = old.clientClosed
    BY <1>0, <2>1 DEF Heard, Connection
  <2> QED BY <2>1, <2>2, <2>3
<1>4. /\ conn \in Connection /\ conn.state = old.state /\ conn.client = old.client
      /\ conn.pending = old.pending /\ conn.rxWin = pkt.win /\ conn.clientClosed = old.clientClosed
  <2>1. /\ conn \in Connection /\ conn.state = old.state /\ conn.client = old.client
        /\ conn.pending = old.pending
    BY <1>2, <1>3, ReceivedFields
  <2> DEFINE H == Heard
             ack == (H.txAck + pkt.len) % SeqSpace
             held == H.rxBuffered + pkt.len
  <2>2. conn = [H EXCEPT !.rxBuffered = held, !.txAck = ack] /\ H \in Connection
    BY <1>3
  <2> HIDE DEF H, ack, held, conn
  <2>3. conn.rxWin = H.rxWin /\ conn.clientClosed = H.clientClosed
    BY <2>2 DEF Connection
  <2> QED BY <1>3, <2>1, <2>3 DEF H
<1>5. stuck.state = old.state /\ stuck.client = old.client /\ stuck.rxWin = pkt.win
      /\ stuck.clientClosed = old.clientClosed
  <2> HIDE DEF conn, lost, old
  <2> QED BY <1>4 DEF Connection
<1>6. /\ next.state = old.state /\ next.client = old.client /\ next.rxWin = pkt.win
      /\ next.clientClosed = old.clientClosed /\ next \in Connection
      /\ next.pending = old.pending - Sendable(conn)
      /\ next.txAck = conn.txAck /\ Offer(next) = Offer(conn)
  BY <1>4, FlushedFields, FlushedMore
<1>7. Said(F, p, next) /\ F \in Seq(Outgoing) /\ Carried(F, p, Len(F)) = Sendable(conn)
  BY <1>2, <1>4, SaidFlush, FlushEmits DEF Said
<1>8. Said(acks, p, conn) /\ acks \in Seq(Outgoing) /\ Carried(acks, p, Len(acks)) = 0
  <2>1. CASE pkt.len > 0
    <3>1. Carried(acks, p, Len(acks)) = 0
      BY <1>2, <1>4, <2>1, ControlEmits
    <3>2. acks = <<Frame(p, conn, "ACK", 0)>>
      BY <2>1
    <3> HIDE DEF acks, conn
    <3>3. Said(acks, p, conn)
      BY <1>2, <1>4, <3>2, SaidOne
    <3> QED BY <3>1, <3>3 DEF Said
  <2>2. CASE ~(pkt.len > 0)
    BY <1>4, <2>2, SaidNothing, NothingEmits DEF Said
  <2> QED BY <2>1, <2>2
<1> DEFINE G == acks \o F
           k == Sendable(conn)
           Q == G \o rst
<1>9. k \in Nat /\ old.pending \in Nat
  BY <1>3, <1>4, SendableFacts DEF Connection
<1>10. Said(G, p, next) /\ G \in Seq(Outgoing)
  <2> HIDE DEF acks, F, next, conn
  <2>1. Said(G, p, next)
    BY <1>6, <1>7, <1>8, SaidBoth
  <2> QED BY <2>1 DEF Said
<1>11. Carried(G, p, Len(G)) = k
  <2> HIDE DEF acks, F, k
  <2>1. Len(F) \in Nat /\ Len(F) <= Len(F) /\ Len(G) = Len(acks) + Len(F)
    BY <1>7, <1>8
  <2>2. Carried(acks \o F, p, Len(acks) + Len(F)) = Carried(acks, p, Len(acks)) + Carried(F, p, Len(F))
    BY <1>7, <1>8, <2>1, CarriedJoined
  <2>3. Carried(F, p, Len(F)) = k
    BY <1>7 DEF k
  <2>4. Carried(G, p, Len(G)) = 0 + k
    BY <1>8, <2>1, <2>2, <2>3
  <2> QED BY <1>9, <2>4
<1>12. rst \in Seq(Outgoing)
  <2>1. "RST" \in Flags /\ 0 \in Nat
    BY DEF Flags
  <2>2. Frame(p, next, "RST", 0) \in Outgoing
    BY <1>2, <1>6, <2>1, FrameIsOutgoing
  <2> QED BY <2>2
<1>13. /\ toDevice \o acks \o F \o rst = toDevice \o Q
       /\ toDevice \o acks \o F \o <<>> = toDevice \o G
  <2> HIDE DEF acks, F, rst
  <2>1. toDevice \in Seq(Outgoing)
    BY DEF DataInv, PipeTypes
  <2>2. (toDevice \o acks) \o F = toDevice \o G
    BY <1>7, <1>8, <2>1, PutTwice
  <2> HIDE DEF G
  <2>3. (toDevice \o G) \o rst = toDevice \o (G \o rst)
    BY <1>10, <1>12, <2>1, PutTwice
  <2>4. toDevice \o G \in Seq(Outgoing)
    BY <1>10, <2>1
  <2>5. (toDevice \o G) \o <<>> = toDevice \o G
    BY <2>4
  <2> QED BY <2>2, <2>3, <2>5
<1>14. EndsWith(Q, p) /\ Carried(Q, p, Len(Q)) = Carried(G, p, Len(G))
  <2> HIDE DEF G, next
  <2> QED BY <1>2, <1>6, <1>10, ResetLastPut
<1> HIDE DEF conn, stuck, lost, acks, F, G, next, Q, rst, k
<1>15. CASE writerUp /\ done /\ Teardown(p) /\ toDevice' = toDevice \o acks \o F \o rst
  <2>1. Stays(p) /\ p \notin DOMAIN connections'
    BY <1>3, <1>15, StaysTorn, Torn
  <2>2. Speaks(p, Q)
    BY <1>3, <1>13, <1>14, <1>15, SpeaksLast
  <2>3. old.pending = Carried(Q, p, Len(Q))
    <3>1. old.pending - k = 0
      BY <1>6, <1>15 DEF k
    <3> DEFINE w == old.pending
    <3>2. w \in Nat /\ w - k = 0
      BY <1>9, <3>1
    <3> HIDE DEF w
    <3>3. w = k
      BY <1>9, <3>2
    <3> QED BY <1>11, <1>14, <3>3 DEF w
  <2>4. Lets(p, Q) /\ Learns(p)
    BY <1>4, <1>15, <2>1, <2>3 DEF Lets, Learns
  <2> QED BY <1>1, <1>2, <1>14, <2>1, <2>2, <2>4 DEF Handles, Allowed, EndsWith
<1>16. CASE /\ writerUp /\ ~done /\ toDevice' = toDevice \o acks \o F \o <<>>
            /\ connections' = [connections EXCEPT ![p] = next]
  <2>1. Stays(p) /\ connections'[p] = next /\ p \in DOMAIN connections'
    BY <1>3, <1>6, <1>16, StaysSame
  <2>2. Speaks(p, G)
    BY <1>10, <1>13, <1>16, <2>1, SpeaksOn
  <2>3. Lets(p, G) /\ Learns(p)
    BY <1>1, <1>6, <2>1 DEF Lets, Learns
  <2> QED BY <1>1, <1>2, <1>10, <2>1, <2>2, <2>3 DEF Handles, Allowed
<1>17. CASE ~writerUp /\ toDevice' = toDevice /\ connections' = [connections EXCEPT ![p] = stuck]
  <2>1. Stays(p) /\ connections'[p] = stuck /\ p \in DOMAIN connections'
    BY <1>3, <1>5, <1>17, StaysSame
  <2>2. Speaks(p, <<>>) /\ <<>> \in Seq(Outgoing)
    BY <1>17, <2>1, SpeaksStill
  <2>3. Lets(p, <<>>) /\ Learns(p)
    BY <1>1, <1>5, <2>1 DEF Lets, Learns
  <2> QED BY <1>1, <1>2, <2>1, <2>2, <2>3 DEF Handles, Allowed
<1> QED BY <1>1, <1>15, <1>16, <1>17

LEMMA MovingHandles ==
  ASSUME DataInv, Moving
  PROVE  \E p \in Sports : \E Q \in Seq(Outgoing) : Handles(p, Q)
<1>1. CASE DataIgnored
  <2>1. 1 \in Sports /\ <<>> \in Seq(Outgoing)
    BY Sizes DEF Sports
  <2>2. connections' = connections /\ toDevice' = toDevice
    BY <1>1 DEF DataIgnored
  <2> QED BY <2>1, <2>2, IgnoredHandles
<1> QED BY <1>1, FromPumpHandles, ClosedHandles, DrainedHandles, UnknownHandles, RefusedHandles,
           UndeliverableHandles, ReceivedHandles DEF Moving, DataStep
-----------------------------------------------------------------------------
(* A connecting call is answered: an acknowledgement is sent, or nothing.  *)

Answers(p, Q) ==
  /\ Speaks(p, Q) /\ \A i \in DOMAIN Q : Q[i].len = 0
  /\ p = pkt.sport /\ p \in DOMAIN connections /\ p \in DOMAIN connections' /\ Connecting(p)
  /\ connections'[p].client = connections[p].client
  /\ connections'[p].clientClosed = connections[p].clientClosed
  /\ connections'[p].rxWin = pkt.win
  /\ connections'[p].rxBuffered = connections[p].rxBuffered
  /\ connections'[p].txAck = (connections[p].txAck + 1) % SeqSpace
  /\ \A q \in DOMAIN connections' : q # p => q \in DOMAIN connections /\ connections'[q] = connections[q]

LEMMA AcceptedAnswers ==
  ASSUME DataInv, Accepted
  PROVE  \E p \in Sports : \E Q \in Seq(Outgoing) : Answers(p, Q)
<1> DEFINE p == pkt.sport
           old == connections[p]
           conn == [Heard EXCEPT !.txSeq = (@ + 1) % SeqSpace, !.txAck = (@ + 1) % SeqSpace]
           up == [conn EXCEPT !.state = "Connected"]
           f == Frame(p, conn, "ACK", 0)
           Q == <<f>>
<1>1. /\ TakePacket /\ p \in DOMAIN connections /\ Heard.state = "Connecting"
      /\ \/ toDevice' = toDevice \o Q /\ connections' = [connections EXCEPT ![p] = up]
         \/ toDevice' = toDevice /\ connections' = [connections EXCEPT ![p] = conn]
  BY DEF Accepted, Emit
<1>2. pkt \in Incoming /\ p \in Sports
  BY <1>1, PacketIn
<1>3. /\ old \in Connection /\ Heard \in Connection /\ Heard.state = old.state /\ Heard.client = old.client
      /\ Heard.rxWin = pkt.win /\ Heard.clientClosed = old.clientClosed
      /\ Heard.rxBuffered = old.rxBuffered /\ Heard.txAck = old.txAck
  <2>1. old \in Connection
    BY <1>1 DEF DataInv, UploadInv, StateInv, ConnectionTypes
  <2>2. /\ Heard \in Connection /\ Heard.state = old.state /\ Heard.client = old.client /\ Heard.rxWin = pkt.win
    BY <1>1, HeardIs
  <2>3. /\ Heard.clientClosed = old.clientClosed
        /\ Heard.rxBuffered = old.rxBuffered /\ Heard.txAck = old.txAck
    BY <2>1 DEF Heard, Connection
  <2> QED BY <2>1, <2>2, <2>3
<1> DEFINE H == Heard
           ack == (H.txAck + 1) % SeqSpace
           seq == (H.txSeq + 1) % SeqSpace
<1>4. /\ conn \in Connection /\ conn.client = old.client /\ conn.clientClosed = old.clientClosed
      /\ conn.rxWin = pkt.win /\ conn.rxBuffered = old.rxBuffered /\ conn.txAck = ack
  <2>1. conn \in Connection /\ conn.client = H.client
    BY <1>3, AcceptedFields
  <2>2. conn = [H EXCEPT !.txSeq = seq, !.txAck = ack] /\ H \in Connection
    BY <1>3
  <2> HIDE DEF H, ack, seq, conn
  <2>3. /\ conn.clientClosed = H.clientClosed
        /\ conn.rxWin = H.rxWin /\ conn.rxBuffered = H.rxBuffered /\ conn.txAck = ack
    BY <2>2 DEF Connection
  <2> QED BY <1>3, <2>1, <2>3 DEF H
<1> HIDE DEF conn
<1>5. /\ up \in Connection /\ up.client = old.client /\ up.clientClosed = old.clientClosed
      /\ up.rxWin = pkt.win /\ up.rxBuffered = old.rxBuffered /\ up.txAck = ack
  <2> HIDE DEF ack, old
  <2> QED BY <1>4 DEF Connection
<1>6. ack = (old.txAck + 1) % SeqSpace /\ Connecting(p)
  BY <1>1, <1>3 DEF Connecting
<1>7. f \in Outgoing
  <2>1. "ACK" \in Flags /\ 0 \in Nat
    BY DEF Flags
  <2> QED BY <1>2, <1>4, <2>1, FrameIsOutgoing
<1>8. f.sport = p /\ f.flags = "ACK" /\ f.len = 0 /\ f.ack = conn.txAck /\ f.win = Offer(conn)
  BY FrameSays
<1>9. Offer(up) = Offer(conn)
  BY <1>4, <1>5 DEF Offer, Window
<1> HIDE DEF f, up, ack, H
<1>10. CASE toDevice' = toDevice \o Q /\ connections' = [connections EXCEPT ![p] = up]
  <2>1. Q \in Seq(Outgoing) /\ \A i \in DOMAIN Q : Q[i] = f
    BY <1>7
  <2> HIDE DEF Q
  <2>2. Said(Q, p, up)
    BY <1>4, <1>5, <1>8, <1>9, <2>1 DEF Said
  <2>3. p \in DOMAIN connections' /\ connections'[p] = up
        /\ \A q \in DOMAIN connections' : q # p => q \in DOMAIN connections /\ connections'[q] = connections[q]
    BY <1>1, <1>10
  <2>4. Speaks(p, Q)
    BY <1>10, <2>2, <2>3, SpeaksOn
  <2>5. Answers(p, Q)
    BY <1>1, <1>5, <1>6, <1>8, <2>1, <2>3, <2>4 DEF Answers
  <2> QED BY <1>2, <2>1, <2>5
<1>11. CASE toDevice' = toDevice /\ connections' = [connections EXCEPT ![p] = conn]
  <2>1. toDevice' = toDevice \o <<>> /\ <<>> \in Seq(Outgoing) /\ DOMAIN <<>> = {}
    BY <1>11, PutNothing DEF DataInv
  <2>3. p \in DOMAIN connections' /\ connections'[p] = conn
        /\ \A q \in DOMAIN connections' : q # p => q \in DOMAIN connections /\ connections'[q] = connections[q]
    BY <1>1, <1>11
  <2>4. Speaks(p, <<>>)
    BY <2>1, <2>3, SaidNothing, SpeaksOn
  <2>5. Answers(p, <<>>)
    BY <1>1, <1>4, <1>6, <2>1, <2>3, <2>4 DEF Answers
  <2> QED BY <1>2, <2>1, <2>5
<1> QED BY <1>1, <1>10, <1>11
-----------------------------------------------------------------------------
(* No window that is told is negative: the device holds no more than it    *)
(* has room for.                                                           *)
Windows ==
  /\ mux \in {"handshake", "running", "exited"}
  /\ \A i \in DOMAIN fromDevice : fromDevice[i].win >= 0
  /\ \A s \in DOMAIN connections : connections[s].rxWin >= 0

LEMMA WindowsHeard ==
  ASSUME DataInv, Windows, Hears
  PROVE  \A i \in DOMAIN fromDevice' : fromDevice'[i].win >= 0
<1>1. CASE fromDevice' = fromDevice
  BY <1>1 DEF Windows
<1>2. CASE fromDevice # <<>> /\ fromDevice' = Tail(fromDevice)
  <2>1. fromDevice \in Seq(Incoming)
    BY DEF DataInv, PipeTypes
  <2>2. \A i \in DOMAIN fromDevice' : i + 1 \in DOMAIN fromDevice /\ fromDevice'[i] = fromDevice[i + 1]
    BY <1>2, <2>1
  <2> QED BY <2>2 DEF Windows
<1> QED BY <1>1, <1>2 DEF Hears

LEMMA FirstWindow ==
  ASSUME DataInv, Windows, fromDevice # <<>>
  PROVE  pkt.win >= 0
<1>1. fromDevice \in Seq(Incoming)
  BY DEF DataInv, PipeTypes
<1>2. 1 \in DOMAIN fromDevice /\ fromDevice[1] = pkt
  BY <1>1 DEF pkt
<1> QED BY <1>2 DEF Windows

LEMMA TaskHears ==
  ASSUME TaskActs
  PROVE  Hears
<1>1. CASE MuxConnect \/ Drained
  BY <1>1 DEF MuxConnect, Drained, Hears
<1>2. CASE DataStep
  BY <1>2 DEF DataStep, DataIgnored, DataFromPump, ClientClosed, TakeData, Hears
<1>3. CASE PacketStep
  BY <1>3 DEF PacketStep, UnknownConnection, Accepted, Refused, Undeliverable, Received, TakePacket, Hears
<1> QED BY <1>1, <1>2, <1>3 DEF TaskActs

LEMMA TurnWindows ==
  ASSUME DataInv, Windows, DeviceActs
  PROVE  \A i \in DOMAIN fromDevice' : fromDevice'[i].win >= 0
<1>1. PICK p \in Sports : \E G \in Seq(Incoming) : Turn(p, G)
  BY DeviceTurnIs
<1>2. PICK G \in Seq(Incoming) : Turn(p, G)
  BY <1>1
<1>3. DeviceWindow - device[p].held >= 0
  <2>1. device[p].held \in Nat /\ Out(p) \in Nat /\ device[p].held + Out(p) <= DeviceWindow
    BY OutNat DEF DataInv, PipeTypes, DeviceEnd, UInv, Room
  <2> QED BY <2>1, Sizes
<1>4. \A i \in DOMAIN G : G[i].win = DeviceWindow - device[p].held \/ G[i].win = DeviceWindow
  BY <1>2 DEF Turn, Opens, Declines, Stores, Shuts, Ignores, Consumes, Transmits, HangsUp, RoomTold
<1>5. \A i \in DOMAIN fromDevice' :
        (i \in DOMAIN fromDevice /\ fromDevice'[i] = fromDevice[i])
          \/ (i - Len(fromDevice) \in DOMAIN G /\ fromDevice'[i] = G[i - Len(fromDevice)])
  <2>1. fromDevice \in Seq(Incoming) /\ fromDevice' = fromDevice \o G
    BY <1>2 DEF Turn, DataInv, PipeTypes
  <2> QED BY <2>1, Joined
<1>6. DeviceWindow >= 0
  BY Sizes
<1> QED BY <1>3, <1>4, <1>5, <1>6 DEF Windows

LEMMA WindowsStep ==
  ASSUME DataInv, Windows, Next
  PROVE  Windows'
<1>1. CASE ClientActs
  BY <1>1, ClientActsOnly DEF Windows
<1>2. CASE TaskActs
  <2>1. mux' = mux /\ \A i \in DOMAIN fromDevice' : fromDevice'[i].win >= 0
    BY <1>2, TaskActsOnly, TaskHears, WindowsHeard
  <2>2. CASE MuxConnect
    <3>1. \A c : NewConnection(c).rxWin = 0
      BY DEF NewConnection
    <3>2. \A s \in DOMAIN connections' :
            \/ s \in DOMAIN connections /\ connections'[s] = connections[s]
            \/ \E c : connections'[s] = NewConnection(c)
      BY <2>2 DEF MuxConnect, Put
    <3> QED BY <2>1, <3>1, <3>2 DEF Windows
  <2>3. CASE Accepted
    <3>1. PICK p \in Sports : \E Q \in Seq(Outgoing) : Answers(p, Q)
      BY <2>3, AcceptedAnswers
    <3>2. fromDevice # <<>>
      BY <2>3 DEF Accepted, TakePacket
    <3> QED BY <2>1, <3>1, <3>2, FirstWindow DEF Answers, Windows
  <2>4. CASE Moving
    <3>1. PICK p \in Sports : \E Q \in Seq(Outgoing) : Handles(p, Q)
      BY <2>4, MovingHandles
    <3>2. Stays(p) /\ Learns(p)
      BY <3>1 DEF Handles
    <3>3. \A s \in DOMAIN connections' : connections'[s].rxWin >= 0
      BY <3>2, FirstWindow DEF Stays, Learns, Windows
    <3> QED BY <2>1, <3>3 DEF Windows
  <2> QED BY <1>2, <2>2, <2>3, <2>4 DEF TaskActs, PacketStep, Moving
<1>3. CASE DeviceActs
  <2>1. UNCHANGED <<mux, connections>>
    BY <1>3, DeviceActsOnly
  <2> QED BY <1>3, <2>1, TurnWindows DEF Windows
<1>4. CASE VersionReply
  BY <1>4 DEF VersionReply, Windows
<1>5. CASE Exit
  <2>1. mux' = "exited" /\ connections' = <<>> /\ fromDevice' = <<>> /\ DOMAIN <<>> = {}
    BY <1>5 DEF Exit
  <2> QED BY <2>1 DEF Windows
<1>6. CASE WriteFails
  BY <1>6 DEF WriteFails, Windows
<1> QED BY <1>1, <1>2, <1>3, <1>4, <1>5, <1>6, NextIs

LEMMA WindowsAlways ==
  ASSUME PortsSuffice
  PROVE  Spec => [](LedgerInv /\ Windows)
<1>1. DataInv /\ Windows /\ [Next /\ UNCHANGED load]_<<vars, load>> => Windows'
  <2> SUFFICES ASSUME DataInv, Windows, Next \/ UNCHANGED vars PROVE Windows'
    BY DEF vars
  <2>1. CASE UNCHANGED vars
    BY <2>1 DEF vars, Windows
  <2> QED BY <2>1, WindowsStep
<1>2. Init => Windows
  <2>1. DOMAIN <<>> = {}
    OBVIOUS
  <2> QED BY <2>1 DEF Init, Windows
<1>3. Spec => [](DataInv /\ LedgerInv)
  BY LedgerInvAlways
<1> QED BY <1>1, <1>2, <1>3, PTL DEF Spec

LEMMA Retyped ==
  ASSUME NEW S, NEW T, NEW q \in Seq(S), \A i \in DOMAIN q : q[i] \in T
  PROVE  q \in Seq(T)
<1>1. Len(q) \in Nat /\ DOMAIN q = 1..Len(q) /\ q = [i \in 1..Len(q) |-> q[i]]
  OBVIOUS
<1> QED BY <1>1

LEMMA TypesIf == LedgerInv /\ Windows => TypeOK
<1> SUFFICES ASSUME LedgerInv, Windows PROVE TypeOK
  OBVIOUS
<1>0. /\ ConnectionTypes /\ ChannelTypes /\ PipeTypes /\ Claims
  BY DEF LedgerInv, DataInv, UploadInv, StateInv
<1>1. \A s \in DOMAIN connections : connections[s] \in ConnectionType
  <2> TAKE s \in DOMAIN connections
  <2>1. connections[s] \in Connection /\ connections[s].rxWin >= 0
    BY <1>0 DEF ConnectionTypes, Windows
  <2> QED BY <2>1 DEF Connection, ConnectionType, Numbers
<1>2. \A q \in Seq((0..MaxSport) \X Nat) : (\A i \in DOMAIN q : q[i][1] # 0) => q \in Seq(Sports \X Nat)
  <2> TAKE q \in Seq((0..MaxSport) \X Nat)
  <2> HAVE \A i \in DOMAIN q : q[i][1] # 0
  <2>1. \A i \in DOMAIN q : q[i] \in (0..MaxSport) \X Nat
    OBVIOUS
  <2>2. \A x \in (0..MaxSport) \X Nat : x[1] # 0 => x \in Sports \X Nat
    BY Sizes DEF Sports
  <2>3. \A i \in DOMAIN q : q[i] \in Sports \X Nat
    BY <2>1, <2>2
  <2> QED BY <2>3, Retyped
<1>3. dataChan \in Seq(Sports \X Nat) /\ drainChan \in Seq(Sports \X Nat)
  BY <1>0, <1>2 DEF ChannelTypes, Claims
<1>4. toDevice \in Seq(FrameType)
  <2>1. Outgoing \subseteq FrameType
    BY Sizes DEF Outgoing, FrameType, Numbers, Flags
  <2> QED BY <1>0, <2>1 DEF PipeTypes
<1>5. fromDevice \in Seq(FrameType)
  <2>1. \A i \in DOMAIN fromDevice : fromDevice[i] \in Incoming /\ fromDevice[i].win >= 0
    BY <1>0 DEF PipeTypes, Windows
  <2>2. \A x \in Incoming : x.win >= 0 => x \in FrameType
    BY DEF Incoming, FrameType, Numbers, Flags
  <2>3. \A i \in DOMAIN fromDevice : fromDevice[i] \in FrameType
    BY <2>1, <2>2
  <2> QED BY <1>0, <2>3, Retyped DEF PipeTypes
<1>6. \A c \in Conns : forwarder[c].pc \in {"off", "running", "done"} /\ forwarder[c].queue \in Seq(Nat)
  BY <1>0 DEF ChannelTypes
<1>7. device \in [Sports -> [open : BOOLEAN, rcvd : Nat, held : Nat, sent : Nat,
                             ack : 0..(SeqSpace - 1), win : Nat, told : Nat \X Int]]
  <2>1. \A d \in DeviceEnd : d \in [open : BOOLEAN, rcvd : Nat, held : Nat, sent : Nat,
                                    ack : 0..(SeqSpace - 1), win : Nat, told : Nat \X Int]
    BY Sizes DEF DeviceEnd, Numbers
  <2> QED BY <1>0, <2>1 DEF PipeTypes
<1> QED BY <1>0, <1>1, <1>3, <1>4, <1>5, <1>6, <1>7 DEF TypeOK, ConnectionTypes, ChannelTypes, Windows
-----------------------------------------------------------------------------
(* The end of a connection. A reset on the pipe to the device comes after  *)
(* everything that was sent, and nothing follows it.                       *)

ResetLast(s) ==
  mux # "exited" =>
    \A i \in DOMAIN toDevice : toDevice[i].sport = s /\ toDevice[i].flags = "RST" =>
      /\ s \notin DOMAIN connections
      /\ \A j \in DOMAIN toDevice : i <= j /\ toDevice[j].sport = s => toDevice[j].len = 0

(* A device that has reset has closed, and is not asked to open. *)
ResetShut(s) ==
  \A i \in DOMAIN fromDevice : fromDevice[i].sport = s /\ fromDevice[i].flags = "RST" =>
    /\ ~device[s].open
    /\ \A j \in DOMAIN toDevice : toDevice[j].sport = s => toDevice[j].flags # "SYN"

(* A port is opened once. *)
OneAnswer(s) ==
  /\ \A i \in DOMAIN fromDevice : fromDevice[i].sport = s => fromDevice[i].flags # "SYN"
  /\ \A i, j \in DOMAIN fromDevice :
       (/\ fromDevice[i].sport = s /\ fromDevice[j].sport = s
        /\ fromDevice[i].flags = "SYN|ACK" /\ fromDevice[j].flags = "SYN|ACK") => i = j
  /\ \A c \in Conns : sportOf[c] = s =>
       /\ \A j \in DOMAIN toDevice : toDevice[j].sport = s => toDevice[j].flags # "SYN"
       /\ \A j \in DOMAIN fromDevice : fromDevice[j].sport = s => fromDevice[j].flags # "SYN|ACK"

LEMMA JoinedPipe ==
  ASSUME DataInv, NEW Q \in Seq(Outgoing), toDevice' = toDevice \o Q
  PROVE  \A i \in DOMAIN toDevice' :
           /\ i \in Int
           /\ (i \in DOMAIN toDevice /\ toDevice'[i] = toDevice[i])
              \/ (/\ i - Len(toDevice) \in DOMAIN Q /\ toDevice'[i] = Q[i - Len(toDevice)]
                  /\ i - Len(toDevice) <= Len(Q) /\ i > Len(toDevice))
<1>1. toDevice \in Seq(Outgoing) /\ toDevice' \in Seq(Outgoing)
  BY DEF DataInv, PipeTypes
<1>2. \A i \in DOMAIN toDevice' :
        (i \in DOMAIN toDevice /\ toDevice'[i] = toDevice[i])
          \/ (i - Len(toDevice) \in DOMAIN Q /\ toDevice'[i] = Q[i - Len(toDevice)])
  BY <1>1, Joined
<1>3. \A i \in DOMAIN toDevice' : i \in Int
  BY <1>1
<1>4. \A k \in DOMAIN Q : k \in Int /\ 1 <= k /\ k <= Len(Q)
  OBVIOUS
<1>5. Len(toDevice) \in Nat
  BY <1>1
<1> DEFINE n == Len(toDevice)
<1> HIDE DEF n
<1>6. \A i \in DOMAIN toDevice' : i - n \in DOMAIN Q => i > n
  BY <1>3, <1>4, <1>5 DEF n
<1> QED BY <1>2, <1>3, <1>4, <1>6 DEF n

LEMMA ResetSpeaks ==
  ASSUME DataInv, NEW p, NEW Q, Speaks(p, Q), NEW s, ResetLast(s), mux' = mux,
         s \in DOMAIN connections' => s \in DOMAIN connections
  PROVE  ResetLast(s)'
<1> SUFFICES ASSUME mux # "exited", NEW i \in DOMAIN toDevice', toDevice'[i].sport = s, toDevice'[i].flags = "RST"
             PROVE  /\ s \notin DOMAIN connections'
                    /\ \A j \in DOMAIN toDevice' : i <= j /\ toDevice'[j].sport = s => toDevice'[j].len = 0
  BY DEF ResetLast
<1> DEFINE n == Len(toDevice)
<1>1. Q \in Seq(Outgoing) /\ toDevice' = toDevice \o Q /\ \A k \in DOMAIN Q : Q[k].sport = p
  BY DEF Speaks
<1>2. n \in Nat /\ \A k \in DOMAIN toDevice : k <= n
  BY DEF DataInv, PipeTypes
<1>3. \A k \in DOMAIN toDevice' :
        /\ k \in Int
        /\ (k \in DOMAIN toDevice /\ toDevice'[k] = toDevice[k])
           \/ (/\ k - n \in DOMAIN Q /\ toDevice'[k] = Q[k - n] /\ k - n <= Len(Q) /\ k > n)
  BY <1>1, JoinedPipe
<1> HIDE DEF n
<1>4. CASE i \in DOMAIN toDevice /\ toDevice'[i] = toDevice[i]
  <2>1. /\ s \notin DOMAIN connections
        /\ \A j \in DOMAIN toDevice : i <= j /\ toDevice[j].sport = s => toDevice[j].len = 0
    BY <1>4 DEF ResetLast
  <2>2. s = p => \A k \in DOMAIN Q : Q[k].len = 0
    BY <2>1 DEF Speaks
  <2>3. ASSUME NEW j \in DOMAIN toDevice', i <= j, toDevice'[j].sport = s PROVE toDevice'[j].len = 0
    BY <1>1, <1>3, <2>1, <2>2, <2>3
  <2> QED BY <2>1, <2>3
<1>5. CASE i - n \in DOMAIN Q /\ toDevice'[i] = Q[i - n] /\ i > n
  <2>1. s = p /\ Q[i - n].flags = "RST"
    BY <1>1, <1>5
  <2>2. p \notin DOMAIN connections' /\ i - n = Len(Q) /\ Q[i - n].len = 0
    BY <1>5, <2>1 DEF Speaks, Said
  <2>3. ASSUME NEW j \in DOMAIN toDevice', i <= j, toDevice'[j].sport = s PROVE toDevice'[j].len = 0
    <3>1. i \in Int /\ j \in Int /\ Len(Q) \in Nat
      BY <1>1, <1>3
    <3>2. j > n /\ ~(j \in DOMAIN toDevice)
      BY <1>2, <1>5, <2>3, <3>1
    <3>3. j - n <= Len(Q) /\ toDevice'[j] = Q[j - n]
      BY <1>3, <3>2
    <3> DEFINE m == Len(Q)
    <3> HIDE DEF m
    <3>4. j = i
      <4>1. m \in Nat /\ i - n = m /\ j - n <= m
        BY <2>2, <3>1, <3>3 DEF m
      <4> QED BY <1>2, <2>3, <3>1, <4>1
    <3> QED BY <2>2, <3>3, <3>4
  <2> QED BY <2>1, <2>2, <2>3
<1> QED BY <1>3, <1>4, <1>5

(* What is left of the pipe. *)
LEMMA ResetFewer ==
  ASSUME DataInv, DataInv', NEW s, ResetLast(s), Among(toDevice', toDevice, s),
         mux' # "exited" => mux # "exited" /\ (s \in DOMAIN connections' => s \in DOMAIN connections)
  PROVE  ResetLast(s)'
<1> SUFFICES ASSUME mux' # "exited", NEW i \in DOMAIN toDevice', toDevice'[i].sport = s, toDevice'[i].flags = "RST"
             PROVE  /\ s \notin DOMAIN connections'
                    /\ \A j \in DOMAIN toDevice' : i <= j /\ toDevice'[j].sport = s => toDevice'[j].len = 0
  BY DEF ResetLast
<1>1. PICK k \in Nat : \A j \in DOMAIN toDevice' : toDevice'[j].sport = s =>
                         j + k \in DOMAIN toDevice /\ toDevice'[j] = toDevice[j + k]
  BY DEF Among
<1>2. \A j \in DOMAIN toDevice' : j \in Int
  BY DEF DataInv, PipeTypes
<1>3. \A j \in DOMAIN toDevice' : i <= j => i + k <= j + k
  BY <1>2
<1>4. /\ s \notin DOMAIN connections
      /\ \A j \in DOMAIN toDevice : i + k <= j /\ toDevice[j].sport = s => toDevice[j].len = 0
  BY <1>1 DEF ResetLast
<1>5. ASSUME NEW j \in DOMAIN toDevice', i <= j, toDevice'[j].sport = s PROVE toDevice'[j].len = 0
  BY <1>1, <1>3, <1>4, <1>5
<1> QED BY <1>4, <1>5

(* The pipe loses its first frame, or its last ones. *)
LEMMA PipeAmong ==
  ASSUME DataInv, NEW s,
         \/ toDevice' = toDevice
         \/ toDevice # <<>> /\ toDevice' = Tail(toDevice)
         \/ \E n \in 0..Len(toDevice) : toDevice' = SubSeq(toDevice, 1, n)
  PROVE  Among(toDevice', toDevice, s)
<1>0. toDevice \in Seq(Outgoing) /\ 0 \in Nat /\ 1 \in Nat
  BY DEF DataInv, PipeTypes
<1>1. CASE toDevice' = toDevice
  <2>1. \A j \in DOMAIN toDevice' : j + 0 \in DOMAIN toDevice /\ toDevice'[j] = toDevice[j + 0]
    BY <1>0, <1>1
  <2> QED BY <1>0, <2>1 DEF Among
<1>2. CASE toDevice # <<>> /\ toDevice' = Tail(toDevice)
  <2>1. \A j \in DOMAIN toDevice' : j + 1 \in DOMAIN toDevice /\ toDevice'[j] = toDevice[j + 1]
    BY <1>0, <1>2
  <2> QED BY <1>0, <2>1 DEF Among
<1>3. ASSUME NEW n \in 0..Len(toDevice), toDevice' = SubSeq(toDevice, 1, n) PROVE Among(toDevice', toDevice, s)
  <2>1. \A j \in DOMAIN toDevice' : j + 0 \in DOMAIN toDevice /\ toDevice'[j] = toDevice[j + 0]
    BY <1>0, <1>3
  <2> QED BY <1>0, <2>1 DEF Among
<1> QED BY <1>1, <1>2, <1>3

(* A command takes a port that nothing is known of, and asks it to open. *)
Asks(p) ==
  /\ Nothing(p) /\ Fresh(p) /\ UNCHANGED <<mux, writerUp, device, fromDevice, dataChan, drainChan>>
  /\ UNCHANGED <<sportOf, pump, forwarder, user>>
  /\ \/ toDevice' = toDevice /\ connections' = connections
     \/ \E f \in Outgoing :
          /\ toDevice' = toDevice \o <<f>> /\ f.sport = p /\ f.flags = "SYN" /\ f.len = 0
          /\ DOMAIN connections' = DOMAIN connections \cup {p}
          /\ \A q \in DOMAIN connections : q # p => connections'[q] = connections[q]
          /\ \E c \in Conns : connections'[p] = NewConnection(c)

LEMMA ConnectAsks ==
  ASSUME PortsSuffice, DataInv, MuxConnect
  PROVE  \E p \in Sports : Asks(p)
<1>0. PICK p, c : p = nextSport /\ c = Head(cmds)
  OBVIOUS
<1>1. p \in Sports /\ Fresh(p) /\ Nothing(p)
  <2>1. p \in Sports /\ Fresh(p)
    BY <1>0, ServedByConnect DEF DataInv
  <2> QED BY <2>1 DEF DataInv, UInv
<1> DEFINE f == Frame(p, NewConnection(c), "SYN", 0)
<1>2. /\ c \in Conns /\ UNCHANGED <<mux, writerUp, device, fromDevice, dataChan, drainChan>>
      /\ UNCHANGED <<sportOf, pump, forwarder, user>>
      /\ \/ toDevice' = toDevice /\ connections' = connections
         \/ toDevice' = toDevice \o <<f>> /\ connections' = Put(connections, p, NewConnection(c))
  BY <1>0 DEF MuxConnect, Emit
<1>3. f \in Outgoing /\ f.sport = p /\ f.flags = "SYN" /\ f.len = 0
  <2>1. NewConnection(c) \in Connection /\ "SYN" \in Flags /\ 0 \in Nat
    BY <1>2, NewFields DEF Flags
  <2>2. f \in Outgoing
    BY <1>1, <2>1, FrameIsOutgoing
  <2> QED BY <2>2, FrameSays
<1> HIDE DEF f
<1>4. CASE toDevice' = toDevice /\ connections' = connections
  BY <1>1, <1>2, <1>4 DEF Asks
<1>5. CASE toDevice' = toDevice \o <<f>> /\ connections' = Put(connections, p, NewConnection(c))
  <2>1. /\ DOMAIN connections' = DOMAIN connections \cup {p}
        /\ \A q \in DOMAIN connections : q # p => connections'[q] = connections[q]
        /\ connections'[p] = NewConnection(c)
    BY <1>5 DEF Put
  <2> QED BY <1>1, <1>2, <1>3, <1>5, <2>1 DEF Asks
<1> QED BY <1>1, <1>2, <1>4, <1>5

(* The frames on the pipe after it. *)
LEMMA AskedPipe ==
  ASSUME DataInv, NEW p \in Sports, Asks(p)
  PROVE  \A i \in DOMAIN toDevice' :
           \/ i \in DOMAIN toDevice /\ toDevice'[i] = toDevice[i] /\ toDevice[i].sport # p
           \/ toDevice'[i].sport = p /\ toDevice'[i].flags = "SYN" /\ toDevice'[i].len = 0
<1>0. toDevice \in Seq(Outgoing) /\ \A i \in DOMAIN toDevice : toDevice[i].sport # p
  BY DEF DataInv, PipeTypes, Asks, Nothing
<1>1. CASE toDevice' = toDevice
  BY <1>0, <1>1
<1>2. ASSUME NEW f \in Outgoing, toDevice' = toDevice \o <<f>>, f.sport = p, f.flags = "SYN", f.len = 0
      PROVE  \A i \in DOMAIN toDevice' :
               \/ i \in DOMAIN toDevice /\ toDevice'[i] = toDevice[i] /\ toDevice[i].sport # p
               \/ toDevice'[i].sport = p /\ toDevice'[i].flags = "SYN" /\ toDevice'[i].len = 0
  <2>1. \A i \in DOMAIN toDevice' : (i \in DOMAIN toDevice /\ toDevice'[i] = toDevice[i]) \/ toDevice'[i] = f
    BY <1>0, <1>2
  <2> QED BY <1>0, <1>2, <2>1
<1> QED BY <1>1, <1>2 DEF Asks

LEMMA ResetAsks ==
  ASSUME DataInv, NEW p \in Sports, Asks(p), NEW s \in Sports, ResetLast(s)
  PROVE  ResetLast(s)'
<1>1. mux' = mux /\ (s # p /\ s \in DOMAIN connections' => s \in DOMAIN connections)
  BY DEF Asks
<1> SUFFICES ASSUME mux # "exited", NEW i \in DOMAIN toDevice', toDevice'[i].sport = s, toDevice'[i].flags = "RST"
             PROVE  /\ s \notin DOMAIN connections'
                    /\ \A j \in DOMAIN toDevice' : i <= j /\ toDevice'[j].sport = s => toDevice'[j].len = 0
  BY <1>1 DEF ResetLast
<1>2. i \in DOMAIN toDevice /\ toDevice'[i] = toDevice[i] /\ s # p
  BY AskedPipe
<1>3. /\ s \notin DOMAIN connections
      /\ \A j \in DOMAIN toDevice : i <= j /\ toDevice[j].sport = s => toDevice[j].len = 0
  BY <1>2 DEF ResetLast
<1>4. ASSUME NEW j \in DOMAIN toDevice', i <= j, toDevice'[j].sport = s PROVE toDevice'[j].len = 0
  BY <1>2, <1>3, <1>4, AskedPipe
<1> QED BY <1>1, <1>2, <1>3, <1>4

LEMMA AcceptedDomain ==
  ASSUME Accepted
  PROVE  DOMAIN connections' = DOMAIN connections
<1> QED BY DEF Accepted

LEMMA TurnPipe ==
  ASSUME DataInv, DeviceActs
  PROVE  toDevice' = toDevice \/ (toDevice # <<>> /\ toDevice' = Tail(toDevice))
<1>1. PICK p \in Sports : \E G \in Seq(Incoming) : Turn(p, G)
  BY DeviceTurnIs
<1> QED BY <1>1 DEF Turn, FirstIs, Opens, Declines, Stores, Shuts, Ignores, Consumes, Transmits, HangsUp

LEMMA ResetLastStep ==
  ASSUME PortsSuffice, DataInv, DataInv', Next, NEW s \in Sports, ResetLast(s)
  PROVE  ResetLast(s)'
<1>1. CASE ClientActs
  <2>1. UNCHANGED <<mux, connections, toDevice>>
    BY <1>1, ClientActsOnly
  <2>2. Among(toDevice', toDevice, s)
    BY <2>1, PipeAmong
  <2> QED BY <2>1, <2>2, ResetFewer
<1>2. CASE DeviceActs
  <2>1. UNCHANGED <<mux, connections>>
    BY <1>2, DeviceActsOnly
  <2>2. Among(toDevice', toDevice, s)
    BY <1>2, TurnPipe, PipeAmong
  <2> QED BY <2>1, <2>2, ResetFewer
<1>3. CASE VersionReply
  <2>1. mux # "exited" /\ UNCHANGED <<connections, toDevice>>
    BY <1>3 DEF VersionReply
  <2>2. Among(toDevice', toDevice, s)
    BY <2>1, PipeAmong
  <2> QED BY <2>1, <2>2, ResetFewer
<1>4. CASE WriteFails
  <2>1. UNCHANGED <<mux, connections>> /\ \E n \in 0..Len(toDevice) : toDevice' = SubSeq(toDevice, 1, n)
    BY <1>4 DEF WriteFails
  <2>2. Among(toDevice', toDevice, s)
    BY <2>1, PipeAmong
  <2> QED BY <2>1, <2>2, ResetFewer
<1>5. CASE Exit
  BY <1>5 DEF Exit, ResetLast
<1>6. CASE MuxConnect
  BY <1>6, ConnectAsks, ResetAsks
<1>7. CASE Accepted
  <2>1. PICK p \in Sports : \E Q \in Seq(Outgoing) : Answers(p, Q)
    BY <1>7, AcceptedAnswers
  <2>2. mux' = mux
    BY <1>7 DEF Accepted, TakePacket
  <2> QED BY <1>7, <2>1, <2>2, AcceptedDomain, ResetSpeaks DEF Answers
<1>8. CASE Moving
  <2>1. PICK p \in Sports : \E Q \in Seq(Outgoing) : Handles(p, Q)
    BY <1>8, MovingHandles
  <2>2. mux' = mux
    BY <1>8, TaskActsOnly DEF TaskActs, Moving, PacketStep
  <2>3. s \in DOMAIN connections' => s \in DOMAIN connections
    BY <2>1 DEF Handles, Stays
  <2> QED BY <2>1, <2>2, <2>3, ResetSpeaks DEF Handles
<1> QED BY <1>1, <1>2, <1>3, <1>4, <1>5, <1>6, <1>7, <1>8, NextIs DEF TaskActs, Moving, PacketStep

NoNewSyn(s) ==
  \A i \in DOMAIN toDevice' : toDevice'[i].sport = s /\ toDevice'[i].flags = "SYN" =>
    \E j \in DOMAIN toDevice : toDevice[j].sport = s /\ toDevice[j].flags = "SYN"

LEMMA SpeaksNoSyn ==
  ASSUME DataInv, NEW p, NEW Q, Speaks(p, Q), NEW s
  PROVE  NoNewSyn(s)
<1>1. Q \in Seq(Outgoing) /\ toDevice' = toDevice \o Q /\ \A k \in DOMAIN Q : Q[k].flags # "SYN"
  BY DEF Speaks, Said
<1>2. \A i \in DOMAIN toDevice' :
        (i \in DOMAIN toDevice /\ toDevice'[i] = toDevice[i])
          \/ (i - Len(toDevice) \in DOMAIN Q /\ toDevice'[i] = Q[i - Len(toDevice)])
  BY <1>1, JoinedPipe
<1> QED BY <1>1, <1>2 DEF NoNewSyn

LEMMA AmongNoSyn ==
  ASSUME NEW s, Among(toDevice', toDevice, s)
  PROVE  NoNewSyn(s)
<1> QED BY DEF Among, NoNewSyn

LEMMA ResetShutIf ==
  ASSUME NEW s, ResetShut(s), NoNewSyn(s), Among(fromDevice', fromDevice, s),
         device'[s].open => device[s].open
  PROVE  ResetShut(s)'
<1>1. \A i \in DOMAIN fromDevice' : fromDevice'[i].sport = s =>
        \E j \in DOMAIN fromDevice : fromDevice'[i] = fromDevice[j]
  BY DEF Among
<1> QED BY <1>1 DEF ResetShut, NoNewSyn

LEMMA Unshifted == \A x, y, k \in Int : x + k = y + k => x = y
<1> QED OBVIOUS

LEMMA OneAnswerIf ==
  ASSUME DataInv', NEW s, OneAnswer(s), NoNewSyn(s), Among(fromDevice', fromDevice, s),
         \A c \in Conns : sportOf'[c] = s => sportOf[c] = s
  PROVE  OneAnswer(s)'
<1>1. PICK k \in Nat : \A j \in DOMAIN fromDevice' : fromDevice'[j].sport = s =>
                         j + k \in DOMAIN fromDevice /\ fromDevice'[j] = fromDevice[j + k]
  BY DEF Among
<1>2. \A j \in DOMAIN fromDevice' : j \in Int
  BY DEF DataInv, PipeTypes
<1>3. \A i \in DOMAIN fromDevice' : fromDevice'[i].sport = s => fromDevice'[i].flags # "SYN"
  BY <1>1 DEF OneAnswer
<1>4. ASSUME NEW i \in DOMAIN fromDevice', NEW j \in DOMAIN fromDevice',
             fromDevice'[i].sport = s, fromDevice'[j].sport = s,
             fromDevice'[i].flags = "SYN|ACK", fromDevice'[j].flags = "SYN|ACK"
      PROVE  i = j
  <2> DEFINE a == i + k
             b == j + k
  <2>1. /\ a \in DOMAIN fromDevice /\ fromDevice[a].sport = s /\ fromDevice[a].flags = "SYN|ACK"
        /\ b \in DOMAIN fromDevice /\ fromDevice[b].sport = s /\ fromDevice[b].flags = "SYN|ACK"
    BY <1>1, <1>4
  <2> HIDE DEF a, b
  <2>3. \A x, y \in DOMAIN fromDevice :
          (/\ fromDevice[x].sport = s /\ fromDevice[y].sport = s
           /\ fromDevice[x].flags = "SYN|ACK" /\ fromDevice[y].flags = "SYN|ACK") => x = y
    BY DEF OneAnswer
  <2>2. a = b
    BY <2>1, <2>3
  <2>4. i \in Int /\ j \in Int
    BY <1>2
  <2>5. i + k = j + k
    BY <2>2 DEF a, b
  <2> HIDE DEF a, b
  <2>6. k \in Int
    OBVIOUS
  <2> QED BY <2>4, <2>5, <2>6, Unshifted
<1>5. ASSUME NEW c \in Conns, sportOf'[c] = s
      PROVE  /\ \A j \in DOMAIN toDevice' : toDevice'[j].sport = s => toDevice'[j].flags # "SYN"
             /\ \A j \in DOMAIN fromDevice' : fromDevice'[j].sport = s => fromDevice'[j].flags # "SYN|ACK"
  <2>1. /\ \A j \in DOMAIN toDevice : toDevice[j].sport = s => toDevice[j].flags # "SYN"
        /\ \A j \in DOMAIN fromDevice : fromDevice[j].sport = s => fromDevice[j].flags # "SYN|ACK"
    BY <1>5 DEF OneAnswer
  <2> QED BY <1>1, <2>1 DEF NoNewSyn
<1> QED BY <1>3, <1>4, <1>5 DEF OneAnswer

LEMMA TurnFrom ==
  ASSUME DataInv, NEW p, NEW G \in Seq(Incoming), Turn(p, G)
  PROVE  /\ \A i \in DOMAIN fromDevice' :
              \/ i \in DOMAIN fromDevice /\ fromDevice'[i] = fromDevice[i]
              \/ i = Len(fromDevice) + 1 /\ 1 \in DOMAIN G /\ fromDevice'[i] = G[1] /\ G[1].sport = p
         /\ \A s : s # p => Among(fromDevice', fromDevice, s)
<1>1. fromDevice \in Seq(Incoming) /\ fromDevice' = fromDevice \o G /\ \A i \in DOMAIN G : i = 1 /\ G[i].sport = p
  BY DEF Turn, DataInv, PipeTypes
<1>2. \A i \in DOMAIN fromDevice' :
        (i \in DOMAIN fromDevice /\ fromDevice'[i] = fromDevice[i])
          \/ (i - Len(fromDevice) \in DOMAIN G /\ fromDevice'[i] = G[i - Len(fromDevice)])
  BY <1>1, Joined
<1>3. \A i \in DOMAIN fromDevice' : i \in Int /\ Len(fromDevice) \in Nat
  BY <1>1
<1>4. \A i \in DOMAIN fromDevice' :
        \/ i \in DOMAIN fromDevice /\ fromDevice'[i] = fromDevice[i]
        \/ i = Len(fromDevice) + 1 /\ 1 \in DOMAIN G /\ fromDevice'[i] = G[1] /\ G[1].sport = p
  <2> TAKE i \in DOMAIN fromDevice'
  <2>1. CASE i - Len(fromDevice) \in DOMAIN G /\ fromDevice'[i] = G[i - Len(fromDevice)]
    <3>1. i - Len(fromDevice) = 1
      BY <1>1, <2>1
    <3>2. i = Len(fromDevice) + 1
      BY <1>3, <3>1
    <3> QED BY <1>1, <2>1, <3>1, <3>2
  <2> QED BY <1>2, <2>1
<1>5. ASSUME NEW s, s # p PROVE Among(fromDevice', fromDevice, s)
  <2>1. \A j \in DOMAIN fromDevice' : fromDevice'[j].sport = s =>
          j + 0 \in DOMAIN fromDevice /\ fromDevice'[j] = fromDevice[j + 0]
    BY <1>3, <1>4, <1>5
  <2> QED BY <2>1 DEF Among
<1> QED BY <1>4, <1>5

LEMMA TurnResetShut ==
  ASSUME DataInv, NEW p \in Sports, NEW G \in Seq(Incoming), Turn(p, G), NEW s \in Sports, ResetShut(s),
         Among(toDevice', toDevice, s)
  PROVE  ResetShut(s)'
<1>0. NoNewSyn(s)
  BY AmongNoSyn
<1>1. CASE s # p
  <2>1. device'[s] = device[s]
    BY <1>1 DEF Turn
  <2> QED BY <1>0, <1>1, <2>1, TurnFrom, ResetShutIf
<1>2. CASE s = p
  <2> SUFFICES ASSUME NEW i \in DOMAIN fromDevice', fromDevice'[i].sport = s, fromDevice'[i].flags = "RST"
               PROVE  /\ ~device'[s].open
                      /\ \A j \in DOMAIN toDevice' : toDevice'[j].sport = s => toDevice'[j].flags # "SYN"
    BY DEF ResetShut
  <2>0. SynFirst(s) /\ toDevice \in Seq(Outgoing)
    BY DEF DataInv, UInv, PipeTypes
  <2>1. CASE i \in DOMAIN fromDevice /\ fromDevice'[i] = fromDevice[i]
    <3>1. ~device[s].open /\ \A j \in DOMAIN toDevice : toDevice[j].sport = s => toDevice[j].flags # "SYN"
      BY <2>1 DEF ResetShut
    <3>2. ~FirstIs(p, "SYN")
      <4>1. FirstIs(p, "SYN") => 1 \in DOMAIN toDevice /\ toDevice[1].sport = p /\ toDevice[1].flags = "SYN"
        BY <2>0 DEF FirstIs
      <4> QED BY <1>2, <3>1, <4>1
    <3>3. ~device'[s].open
      BY <1>2, <3>1, <3>2 DEF Turn, Opens, Declines, Stores, Shuts, Ignores, Consumes, Transmits, HangsUp
    <3> QED BY <1>0, <3>1, <3>3 DEF NoNewSyn
  <2>2. CASE 1 \in DOMAIN G /\ G[1].flags = "RST"
    <3>1. Declines(p, G) \/ HangsUp(p, G)
      <4>1. ~Opens(p, G) /\ ~Transmits(p, G)
        BY <2>2 DEF Opens, Transmits, Says
      <4>2. G # <<>>
        BY <2>2
      <4> QED BY <4>1, <4>2 DEF Turn, Stores, Shuts, Ignores, Consumes
    <3>2. CASE HangsUp(p, G)
      <4>1. device[s].open /\ ~device'[s].open /\ toDevice' = toDevice
        BY <1>2, <3>2 DEF HangsUp
      <4> QED BY <2>0, <4>1 DEF SynFirst
    <3>3. CASE Declines(p, G)
      <4>1. /\ device'[s] = device[s] /\ 1 \in DOMAIN toDevice /\ toDevice[1].sport = s /\ toDevice[1].flags = "SYN"
            /\ \A j \in DOMAIN toDevice' : j \in Nat /\ j # 0 /\ j + 1 \in DOMAIN toDevice /\ toDevice'[j] = toDevice[j + 1]
        BY <1>2, <2>0, <3>3 DEF Declines, FirstIs
      <4>2. ~device[s].open /\ \A j \in DOMAIN toDevice : j # 1 /\ toDevice[j].sport = s => toDevice[j].flags = "RST"
        BY <2>0, <4>1 DEF SynFirst
      <4>3. \A j \in DOMAIN toDevice' : j + 1 # 1
        BY <4>1
      <4> QED BY <4>1, <4>2, <4>3
    <3> QED BY <3>1, <3>2, <3>3
  <2> QED BY <2>1, <2>2, TurnFrom
<1> QED BY <1>1, <1>2

LEMMA TurnOneAnswer ==
  ASSUME DataInv, DataInv', NEW p \in Sports, NEW G \in Seq(Incoming), Turn(p, G), NEW s \in Sports, OneAnswer(s),
         Among(toDevice', toDevice, s), sportOf' = sportOf
  PROVE  OneAnswer(s)'
<1>0. NoNewSyn(s)
  BY AmongNoSyn
<1>1. CASE s # p
  BY <1>0, <1>1, TurnFrom, OneAnswerIf
<1>2. CASE s = p
  <2>0. SynFirst(s) /\ toDevice \in Seq(Outgoing)
    BY DEF DataInv, UInv, PipeTypes
  <2>1. \A k \in DOMAIN G : G[k].flags # "SYN" /\ (G[k].flags = "SYN|ACK" => Opens(p, G))
    BY DEF Turn, Declines, Stores, Shuts, Ignores, Consumes, Transmits, HangsUp, Opens, Says
  <2>2. Opens(p, G) => /\ \E j \in DOMAIN toDevice : toDevice[j].sport = s /\ toDevice[j].flags = "SYN"
                       /\ \A j \in DOMAIN fromDevice : fromDevice[j].sport = s => fromDevice[j].flags # "SYN|ACK"
    <3> SUFFICES ASSUME Opens(p, G)
                 PROVE  /\ \E j \in DOMAIN toDevice : toDevice[j].sport = s /\ toDevice[j].flags = "SYN"
                        /\ \A j \in DOMAIN fromDevice : fromDevice[j].sport = s => fromDevice[j].flags # "SYN|ACK"
      OBVIOUS
    <3>1. 1 \in DOMAIN toDevice /\ toDevice[1].sport = s /\ toDevice[1].flags = "SYN"
      BY <1>2, <2>0 DEF Opens, FirstIs
    <3> QED BY <2>0, <3>1 DEF SynFirst
  <2>3. \A i \in DOMAIN fromDevice' : fromDevice'[i].sport = s => fromDevice'[i].flags # "SYN"
    BY <2>1, TurnFrom DEF OneAnswer
  <2>4. ASSUME NEW i \in DOMAIN fromDevice', NEW j \in DOMAIN fromDevice',
               fromDevice'[i].sport = s, fromDevice'[j].sport = s,
               fromDevice'[i].flags = "SYN|ACK", fromDevice'[j].flags = "SYN|ACK"
        PROVE  i = j
    BY <2>1, <2>2, <2>4, TurnFrom DEF OneAnswer
  <2>5. ASSUME NEW c \in Conns, sportOf'[c] = s
        PROVE  /\ \A j \in DOMAIN toDevice' : toDevice'[j].sport = s => toDevice'[j].flags # "SYN"
               /\ \A j \in DOMAIN fromDevice' : fromDevice'[j].sport = s => fromDevice'[j].flags # "SYN|ACK"
    <3>1. /\ \A j \in DOMAIN toDevice : toDevice[j].sport = s => toDevice[j].flags # "SYN"
          /\ \A j \in DOMAIN fromDevice : fromDevice[j].sport = s => fromDevice[j].flags # "SYN|ACK"
      BY <2>5 DEF OneAnswer
    <3>2. ~Opens(p, G)
      BY <2>2, <3>1
    <3> QED BY <1>0, <2>1, <3>1, <3>2, TurnFrom DEF NoNewSyn
  <2> QED BY <2>3, <2>4, <2>5 DEF OneAnswer
<1> QED BY <1>1, <1>2

OncePerPort(s) == ResetShut(s) /\ OneAnswer(s)

LEMMA SaidIf ==
  ASSUME DataInv', NEW s, OncePerPort(s), NoNewSyn(s), Among(fromDevice', fromDevice, s),
         device'[s].open => device[s].open, sportOf' = sportOf
  PROVE  OncePerPort(s)'
<1>1. \A c \in Conns : sportOf'[c] = s => sportOf[c] = s
  OBVIOUS
<1>2. ResetShut(s) /\ OneAnswer(s)
  BY DEF OncePerPort
<1>3. ResetShut(s)' /\ OneAnswer(s)'
  BY <1>1, <1>2, ResetShutIf, OneAnswerIf
<1> QED BY <1>3 DEF OncePerPort

LEMMA SameAmong == ASSUME DataInv, UNCHANGED fromDevice, NEW s PROVE Among(fromDevice', fromDevice, s)
<1>1. PipeTypes /\ Hears
  BY DEF DataInv, Hears
<1> QED BY <1>1, HearsAmong

LEMMA ExitSaid ==
  ASSUME DataInv, DataInv', Exit, NEW s, OncePerPort(s)
  PROVE  OncePerPort(s)'
<1>1. /\ fromDevice' = <<>> /\ device' = device /\ sportOf' = sportOf
      /\ toDevice' = toDevice \/ toDevice' = toDevice \o Resets
  BY DEF Exit, Resets
<1>2. Among(fromDevice', fromDevice, s)
  <2>1. \A j \in DOMAIN fromDevice' : fromDevice'[j].sport = s => j + 0 \in DOMAIN fromDevice /\ fromDevice'[j] = fromDevice[j + 0]
    BY <1>1
  <2> QED BY <2>1 DEF Among
<1>3. Resets \in Seq(Outgoing) /\ \A i \in DOMAIN Resets : Resets[i].flags = "RST"
  BY ResetsOut DEF DataInv, UploadInv, StateInv
<1>4. NoNewSyn(s)
  <2>1. CASE toDevice' = toDevice
    BY <2>1 DEF NoNewSyn
  <2>2. CASE toDevice' = toDevice \o Resets
    <3>1. \A i \in DOMAIN toDevice' :
            (i \in DOMAIN toDevice /\ toDevice'[i] = toDevice[i])
              \/ (i - Len(toDevice) \in DOMAIN Resets /\ toDevice'[i] = Resets[i - Len(toDevice)])
      BY <1>3, <2>2, JoinedPipe
    <3> QED BY <1>3, <3>1 DEF NoNewSyn
  <2> QED BY <1>1, <2>1, <2>2
<1> QED BY <1>1, <1>2, <1>4, SaidIf

LEMMA AsksSaid ==
  ASSUME DataInv, DataInv', Claims, NEW p \in Sports, Asks(p), NEW s \in Sports, OncePerPort(s)
  PROVE  OncePerPort(s)'
<1>1. UNCHANGED <<fromDevice, device, sportOf>> /\ Nothing(p) /\ Fresh(p)
  BY DEF Asks
<1>2. CASE s # p
  <2>1. NoNewSyn(s)
    BY <1>2, AskedPipe DEF NoNewSyn
  <2> QED BY <1>1, <2>1, SameAmong, SaidIf
<1>3. CASE s = p
  <2>1. \A i \in DOMAIN fromDevice' : fromDevice'[i].sport # s
    BY <1>1, <1>3 DEF Nothing
  <2>2. \A c \in Conns : sportOf'[c] # s
    BY <1>1, <1>3 DEF Claims, Unclaimed
  <2> QED BY <2>1, <2>2 DEF OncePerPort, ResetShut, OneAnswer
<1> QED BY <1>2, <1>3

LEMMA AcceptedSaid ==
  ASSUME DataInv, DataInv', Accepted, NEW s \in Sports, OncePerPort(s)
  PROVE  OncePerPort(s)'
<1>1. PICK p \in Sports : \E Q \in Seq(Outgoing) : Answers(p, Q)
  BY AcceptedAnswers
<1>2. /\ fromDevice # <<>> /\ fromDevice' = Tail(fromDevice) /\ device' = device
      /\ pkt.flags = "SYN|ACK" /\ pkt.sport = p
      /\ sportOf' = sportOf \/ \E d : sportOf' = [sportOf EXCEPT ![d] = p]
  BY <1>1 DEF Accepted, TakePacket, Answers
<1>3. NoNewSyn(s)
  BY <1>1, SpeaksNoSyn DEF Answers
<1>4. Among(fromDevice', fromDevice, s)
  BY <1>2, HearsAmong DEF Hears, DataInv
<1>5. ResetShut(s) /\ OneAnswer(s)
  BY DEF OncePerPort
<1>6. ResetShut(s)'
  BY <1>2, <1>3, <1>4, <1>5, ResetShutIf
<1>7. CASE s # p
  <2>1. \A c \in Conns : sportOf'[c] = s => sportOf[c] = s
    BY <1>2, <1>7 DEF DataInv, UploadInv, ChannelTypes
  <2> QED BY <1>3, <1>4, <1>5, <1>6, <2>1, OneAnswerIf DEF OncePerPort
<1>8. CASE s = p
  <2>1. /\ 1 \in DOMAIN fromDevice /\ fromDevice[1].sport = s /\ fromDevice[1].flags = "SYN|ACK"
        /\ \A j \in DOMAIN fromDevice' : j \in Int /\ j + 1 # 1 /\ j + 1 \in DOMAIN fromDevice /\ fromDevice'[j] = fromDevice[j + 1]
    <3>1. fromDevice \in Seq(Incoming)
      BY DEF DataInv, PipeTypes
    <3> QED BY <1>2, <1>8, <3>1 DEF pkt
  <2>2. \A x, y \in DOMAIN fromDevice :
          (/\ fromDevice[x].sport = s /\ fromDevice[y].sport = s
           /\ fromDevice[x].flags = "SYN|ACK" /\ fromDevice[y].flags = "SYN|ACK") => x = y
    BY <1>5 DEF OneAnswer
  <2>3. \A j \in DOMAIN fromDevice' : fromDevice'[j].sport = s => fromDevice'[j].flags # "SYN|ACK"
    <3> TAKE j \in DOMAIN fromDevice'
    <3> DEFINE k == j + 1
    <3>1. k # 1 /\ k \in DOMAIN fromDevice /\ fromDevice'[j] = fromDevice[k]
      BY <2>1
    <3> HIDE DEF k
    <3> QED BY <2>1, <2>2, <3>1
  <2>4. \A j \in DOMAIN toDevice : toDevice[j].sport = s => toDevice[j].flags # "SYN"
    <3>1. SynFirst(s)
      BY DEF DataInv, UInv
    <3> QED BY <2>1, <3>1 DEF SynFirst
  <2>5. \A j \in DOMAIN toDevice' : toDevice'[j].sport = s => toDevice'[j].flags # "SYN"
    BY <1>3, <2>4 DEF NoNewSyn
  <2>6. \A j \in DOMAIN fromDevice' : fromDevice'[j].sport = s => fromDevice'[j].flags # "SYN"
    BY <1>5, <2>1 DEF OneAnswer
  <2> QED BY <1>6, <2>3, <2>5, <2>6 DEF OncePerPort, OneAnswer
<1> QED BY <1>7, <1>8

LEMMA MovingKeeps ==
  ASSUME Moving
  PROVE  /\ UNCHANGED <<mux, writerUp, device, sportOf, pump, user>> /\ mux = "running"
         /\ dataChan' = dataChan \/ (dataChan # <<>> /\ dataChan' = Tail(dataChan))
<1>1. CASE DataStep
  BY <1>1 DEF DataStep, DataIgnored, DataFromPump, ClientClosed, TakeData
<1>2. CASE Drained
  BY <1>2, SMTT(30) DEF Drained
<1>3. CASE UnknownConnection \/ Refused \/ Undeliverable \/ Received
  BY <1>3 DEF UnknownConnection, Refused, Undeliverable, Received, TakePacket, KeepTasks
<1> QED BY <1>1, <1>2, <1>3 DEF Moving

LEMMA SaidStep ==
  ASSUME PortsSuffice, DataInv, DataInv', Claims, Next, NEW s \in Sports, OncePerPort(s)
  PROVE  OncePerPort(s)'
<1>1. CASE ClientActs
  <2>1. UNCHANGED <<toDevice, fromDevice, device>> /\ sportOf' = sportOf
    BY <1>1, ClientActsOnly DEF ClientActs, CallShutdown, PumpAct, PumpChecks, PumpNotified, PumpReads,
       PumpSends, PumpStep, ForwarderAct, ForwarderWrites, ForwarderEnds, ForwarderStep, UserAct, CallConnect,
       UserWrites, UserReads, UserShuts, UserDrops, UserStep
  <2>2. NoNewSyn(s)
    BY <2>1 DEF NoNewSyn
  <2> QED BY <2>1, <2>2, SameAmong, SaidIf
<1>2. CASE DeviceActs
  <2>1. PICK p \in Sports : \E G \in Seq(Incoming) : Turn(p, G)
    BY <1>2, DeviceTurnIs
  <2>2. Among(toDevice', toDevice, s) /\ sportOf' = sportOf
    BY <1>2, TurnPipe, PipeAmong, DeviceActsOnly
  <2>3. ResetShut(s)' /\ OneAnswer(s)'
    BY <2>1, <2>2, TurnResetShut, TurnOneAnswer DEF OncePerPort
  <2> QED BY <2>3 DEF OncePerPort
<1>3. CASE VersionReply
  <2>1. UNCHANGED <<toDevice, fromDevice, device, sportOf>>
    BY <1>3 DEF VersionReply
  <2>2. NoNewSyn(s)
    BY <2>1 DEF NoNewSyn
  <2> QED BY <2>1, <2>2, SameAmong, SaidIf
<1>4. CASE WriteFails
  <2>1. UNCHANGED <<fromDevice, device, sportOf>> /\ \E n \in 0..Len(toDevice) : toDevice' = SubSeq(toDevice, 1, n)
    BY <1>4 DEF WriteFails
  <2>2. NoNewSyn(s)
    BY <2>1, PipeAmong, AmongNoSyn
  <2> QED BY <2>1, <2>2, SameAmong, SaidIf
<1>5. CASE Exit
  BY <1>5, ExitSaid
<1>6. CASE MuxConnect
  BY <1>6, ConnectAsks, AsksSaid
<1>7. CASE Accepted
  BY <1>7, AcceptedSaid
<1>8. CASE Moving
  <2>1. PICK p \in Sports : \E Q \in Seq(Outgoing) : Handles(p, Q)
    BY <1>8, MovingHandles
  <2>2. device' = device /\ sportOf' = sportOf
    BY <1>8, MovingKeeps
  <2>3. NoNewSyn(s)
    BY <2>1, SpeaksNoSyn DEF Handles
  <2>4. Hears /\ PipeTypes
    BY <1>8, TaskHears DEF TaskActs, Moving, PacketStep, DataInv
  <2> QED BY <2>2, <2>3, <2>4, HearsAmong, SaidIf
<1> QED BY <1>1, <1>2, <1>3, <1>4, <1>5, <1>6, <1>7, <1>8, NextIs DEF TaskActs, Moving, PacketStep
-----------------------------------------------------------------------------
(* What the client's tasks do.                                             *)

AtEnd(c) == pump[c].pc = "done" \/ (pump[c].pc = "sending" /\ pump[c].chunk = 0)

LEMMA UserFacts ==
  ASSUME ChannelTypes
  PROVE  /\ user \in [Conns -> UserType] /\ pump \in [Conns -> PumpType]
         /\ forwarder \in [Conns -> [pc : {"off", "running", "done"}, queue : Seq(Nat)]]
         /\ \A c \in Conns : sportOf[c] \in 0..MaxSport
<1> QED BY DEF ChannelTypes, UserType, PumpType

LEMMA UserChanges ==
  ASSUME ChannelTypes, NEW d \in Conns, UserAct(d), NEW c \in Conns
  PROVE  /\ UNCHANGED <<dataChan, pump, forwarder, sportOf>>
         /\ user[c].side = "dropped" => user'[c].side = "dropped"
         /\ user'[c].side = "open" => user[c].side = "open"
         /\ (user'[c].out = user[c].out /\ user'[c].given = user[c].given)
            \/ (user[c].side = "open" /\ pump[c].pc # "done")
<1>0. user \in [Conns -> UserType] /\ user[d] \in UserType
  BY UserFacts
<1>1. UNCHANGED <<dataChan, pump, forwarder, sportOf>>
  BY DEF UserAct, CallConnect, UserWrites, UserReads, UserShuts, UserDrops, UserStep
<1>2. CASE CallConnect(d)
  BY <1>1, <1>2 DEF CallConnect
<1>3. CASE UserWrites(d)
  <2> DEFINE o == user[d].out + 1
             g == user[d].given + 1
  <2>1. user' = [user EXCEPT ![d].out = o, ![d].given = g] /\ user[d].side = "open" /\ pump[d].pc # "done"
    BY <1>3 DEF UserWrites
  <2> HIDE DEF o, g
  <2>2. user'[d].side = user[d].side /\ \A e \in Conns : e # d => user'[e] = user[e]
    BY <1>0, <2>1 DEF UserType
  <2> QED BY <1>1, <2>1, <2>2
<1>4. CASE UserReads(d) \/ UserShuts(d) \/ UserDrops(d)
  <2>1. \/ user' = [user EXCEPT ![d].in = 0]
        \/ user' = [user EXCEPT ![d].side = "shut"] /\ user[d].side = "open"
        \/ user' = [user EXCEPT ![d].side = "dropped", ![d].in = 0] /\ user[d].side \in {"open", "shut"}
    BY <1>4 DEF UserReads, UserShuts, UserDrops
  <2>2. CASE user' = [user EXCEPT ![d].in = 0]
    BY <1>0, <1>1, <2>2 DEF UserType
  <2>3. CASE user' = [user EXCEPT ![d].side = "shut"] /\ user[d].side = "open"
    BY <1>0, <1>1, <2>3 DEF UserType
  <2>4. CASE user' = [user EXCEPT ![d].side = "dropped", ![d].in = 0]
    BY <1>0, <1>1, <2>4 DEF UserType
  <2> QED BY <2>1, <2>2, <2>3, <2>4
<1> QED BY <1>2, <1>3, <1>4 DEF UserAct

LEMMA ForwarderChanges ==
  ASSUME ChannelTypes, NEW d \in Conns, ForwarderAct(d), NEW c \in Conns
  PROVE  /\ UNCHANGED <<dataChan, pump, sportOf>>
         /\ user'[c].side = user[c].side /\ user'[c].out = user[c].out /\ user'[c].given = user[c].given
         /\ c # d => forwarder'[c] = forwarder[c]
         /\ forwarder'[d].pc = "done" => mux # "running" \/ user[d].side = "dropped" \/ ~RxOpen(d)
<1>0. /\ user \in [Conns -> UserType] /\ user[d] \in UserType
      /\ forwarder \in [Conns -> [pc : {"off", "running", "done"}, queue : Seq(Nat)]]
  BY UserFacts
<1>1. UNCHANGED <<dataChan, pump, sportOf>>
  BY DEF ForwarderAct, ForwarderWrites, ForwarderEnds, ForwarderStep
<1>2. CASE ForwarderWrites(d)
  <2> DEFINE n == user[d].in + Head(forwarder[d].queue)
             w == [pc |-> IF mux = "running" THEN "running" ELSE "done",
                   queue |-> IF mux = "running" THEN Tail(forwarder[d].queue) ELSE <<>>]
  <2>1. user' = [user EXCEPT ![d].in = n] /\ forwarder' = [forwarder EXCEPT ![d] = w]
    BY <1>2 DEF ForwarderWrites
  <2>2. w.pc = IF mux = "running" THEN "running" ELSE "done"
    OBVIOUS
  <2> HIDE DEF n, w
  <2>3. /\ user'[c].side = user[c].side /\ user'[c].out = user[c].out /\ user'[c].given = user[c].given
    BY <1>0, <2>1 DEF UserType
  <2>4. forwarder'[d] = w /\ (c # d => forwarder'[c] = forwarder[c])
    BY <1>0, <2>1
  <2> QED BY <1>1, <2>2, <2>3, <2>4
<1>3. CASE ForwarderEnds(d)
  <2>1. /\ user' = user /\ (c # d => forwarder'[c] = forwarder[c])
        /\ user[d].side = "dropped" \/ ~RxOpen(d)
    BY <1>0, <1>3 DEF ForwarderEnds
  <2> QED BY <1>1, <2>1
<1> QED BY <1>2, <1>3 DEF ForwarderAct

LEMMA PumpChanges ==
  ASSUME ChannelTypes, NEW d \in Conns, PumpAct(d), NEW c \in Conns
  PROVE  /\ UNCHANGED <<forwarder, sportOf>>
         /\ user'[c].side = user[c].side /\ user'[c].given = user[c].given
         /\ c # d => pump'[c] = pump[c] /\ user'[c] = user[c]
         /\ pump[c].pc = "done" => pump'[c].pc = "done"
         /\ mux # "exited" /\ AtEnd(d)' =>
              \/ AtEnd(d) /\ user'[d].out = user[d].out
              \/ user'[d].out = 0 /\ user[d].side # "open"
         /\ \/ dataChan' = dataChan
            \/ /\ pump[d].pc = "sending" /\ dataChan' = Append(dataChan, <<sportOf[d], pump[d].chunk>>)
               /\ pump[d].chunk = 0 => pump'[d].pc = "done"
<1>0. user \in [Conns -> UserType] /\ user[d] \in UserType /\ pump \in [Conns -> PumpType] /\ pump[d] \in PumpType
  BY UserFacts
<1>1. UNCHANGED <<forwarder, sportOf>>
  BY DEF PumpAct, PumpChecks, PumpNotified, PumpReads, PumpSends, PumpStep
<1>2. CASE PumpChecks(d) \/ PumpNotified(d)
  <2>1. /\ UNCHANGED <<dataChan, user>> /\ pump[d].pc # "done"
        /\ \E q \in {"waiting", "reading", "check"} : pump' = [pump EXCEPT ![d].pc = q]
    BY <1>2 DEF PumpChecks, PumpNotified
  <2>2. PICK q \in {"waiting", "reading", "check"} : pump' = [pump EXCEPT ![d].pc = q]
    BY <2>1
  <2>3. pump'[d].pc = q /\ \A e \in Conns : e # d => pump'[e] = pump[e]
    BY <2>2, PcOnly
  <2>4. ~AtEnd(d)'
    BY <2>2, <2>3 DEF AtEnd
  <2> QED BY <1>1, <2>1, <2>3, <2>4
<1>3. CASE PumpReads(d)
  <2> DEFINE n == Least(user[d].out, MaxPayload)
             w == [pc |-> "sending", chunk |-> n]
             o == user[d].out - n
  <2>1. /\ dataChan' = dataChan /\ pump[d].pc = "reading"
        /\ pump' = [pump EXCEPT ![d] = w] /\ user' = [user EXCEPT ![d].out = o]
        /\ n > 0 \/ user[d].side \in {"shut", "dropped"}
    BY <1>3 DEF PumpReads
  <2>2. user[d].out \in Nat /\ MaxPayload \in Nat /\ MaxPayload # 0
    BY <1>0, Sizes DEF UserType
  <2>3. n = 0 => o = 0
    BY <2>2 DEF Least
  <2>4. w.pc = "sending" /\ w.chunk = n
    OBVIOUS
  <2> HIDE DEF n, w, o
  <2>5. /\ user'[c].side = user[c].side /\ user'[c].given = user[c].given
        /\ user'[d].out = o /\ (c # d => user'[c] = user[c])
    BY <1>0, <2>1 DEF UserType
  <2>6. pump'[d] = w /\ (c # d => pump'[c] = pump[c])
    BY <1>0, <2>1
  <2>7. AtEnd(d)' => user'[d].out = 0 /\ user[d].side # "open"
    <3> SUFFICES ASSUME AtEnd(d)' PROVE n = 0 /\ user[d].side # "open"
      BY <2>3, <2>5
    <3>1. n = 0
      BY <2>4, <2>6 DEF AtEnd
    <3> QED BY <2>1, <3>1
  <2> QED BY <1>1, <2>1, <2>5, <2>6, <2>7
<1>4. CASE PumpSends(d)
  <2> DEFINE x == pump[d].chunk
             w == [pc |-> IF x = 0 THEN "done" ELSE "check", chunk |-> 0]
             z == [pc |-> "done", chunk |-> 0]
  <2>1. /\ pump[d].pc = "sending" /\ user' = user
        /\ \/ dataChan' = Append(dataChan, <<sportOf[d], x>>) /\ pump' = [pump EXCEPT ![d] = w]
           \/ mux = "exited" /\ dataChan' = dataChan /\ pump' = [pump EXCEPT ![d] = z]
    BY <1>4 DEF PumpSends
  <2>2. w.pc = (IF x = 0 THEN "done" ELSE "check")
    OBVIOUS
  <2> HIDE DEF x, w, z
  <2>3. CASE dataChan' = Append(dataChan, <<sportOf[d], x>>) /\ pump' = [pump EXCEPT ![d] = w]
    <3>1. pump'[d] = w /\ (c # d => pump'[c] = pump[c])
      BY <1>0, <2>3
    <3>2. AtEnd(d)' => AtEnd(d)
      BY <2>1, <2>2, <3>1 DEF AtEnd, x
    <3> QED BY <1>1, <2>1, <2>2, <2>3, <3>1, <3>2 DEF x
  <2>4. CASE mux = "exited" /\ dataChan' = dataChan /\ pump' = [pump EXCEPT ![d] = z]
    <3>1. c # d => pump'[c] = pump[c]
      BY <1>0, <2>4
    <3> QED BY <1>1, <2>1, <2>4, <3>1
  <2> QED BY <2>1, <2>3, <2>4
<1> QED BY <1>2, <1>3, <1>4 DEF PumpAct

LEMMA MovingForwards ==
  ASSUME DataInv, Moving, NEW c \in Conns
  PROVE  forwarder'[c].pc = forwarder[c].pc
<1>0. forwarder \in [Conns -> [pc : {"off", "running", "done"}, queue : Seq(Nat)]]
  BY UserFacts DEF DataInv, UploadInv
<1>1. CASE forwarder' = forwarder
  BY <1>1
<1>2. CASE Received
  <2>0. PICK d : d = Heard.client
    OBVIOUS
  <2> DEFINE q == Append(forwarder[d].queue, pkt.len)
  <2>1. forwarder' = forwarder \/ forwarder' = [forwarder EXCEPT ![d].queue = q]
    BY <1>2, <2>0 DEF Received
  <2> HIDE DEF q
  <2> QED BY <1>0, <2>1, ZenonT(40)
<1> QED BY <1>1, <1>2 DEF Moving, DataStep, DataIgnored, DataFromPump, ClientClosed, TakeData, Drained,
          UnknownConnection, Refused, Undeliverable, KeepTasks

(* A connection begins: its tasks are started, or its writer is gone. *)
Begins(p, c) ==
  /\ Connecting(p) /\ connections[p].client = c /\ Idle(c) /\ Unclaimed(p)
  /\ \A q \in DOMAIN connections : q # p => connections[q].client # c
  /\ DOMAIN connections' = DOMAIN connections
  /\ \A q \in DOMAIN connections : q # p => connections'[q] = connections[q]
  /\ connections'[p].client = c /\ connections'[p].clientClosed = connections[p].clientClosed
  /\ UNCHANGED <<mux, writerUp, device, dataChan, drainChan>>
  /\ \A d \in Conns : d # c => Rest(d) /\ sportOf'[d] = sportOf[d]
  /\ \/ /\ connections'[p].state = "Connected" /\ sportOf'[c] = p /\ pump'[c].pc = "check"
        /\ forwarder'[c].pc = "running" /\ forwarder'[c].queue = forwarder[c].queue
        /\ user'[c].side = "open" /\ user'[c].out = user[c].out /\ user'[c].given = user[c].given
     \/ /\ ~writerUp /\ connections'[p].state = "Connecting"
        /\ UNCHANGED <<sportOf, pump, forwarder, user>>

LEMMA AcceptedBegins ==
  ASSUME DataInv, Claims, Accepted
  PROVE  \E p \in Sports : \E c \in Conns : Begins(p, c)
<1>0. PICK p, c : p = pkt.sport /\ c = Heard.client
  OBVIOUS
<1> DEFINE conn == [Heard EXCEPT !.txSeq = (@ + 1) % SeqSpace, !.txAck = (@ + 1) % SeqSpace]
           up == [conn EXCEPT !.state = "Connected"]
           old == connections[p]
<1>1. /\ TakePacket /\ p \in DOMAIN connections /\ Heard.state = "Connecting"
      /\ UNCHANGED <<mux, writerUp, device, dataChan, drainChan>>
      /\ \/ /\ connections' = [connections EXCEPT ![p] = up]
            /\ sportOf' = [sportOf EXCEPT ![c] = p]
            /\ pump' = [pump EXCEPT ![c].pc = "check"]
            /\ forwarder' = [forwarder EXCEPT ![c].pc = "running"]
            /\ user' = [user EXCEPT ![c].side = "open"]
         \/ /\ ~writerUp /\ connections' = [connections EXCEPT ![p] = conn]
            /\ UNCHANGED <<sportOf, pump, forwarder, user>>
  BY <1>0 DEF Accepted, TakePacket
<1>2. /\ p \in Sports /\ old \in Connection /\ Heard \in Connection /\ c = old.client /\ Heard.state = old.state
      /\ c \in Conns /\ Heard.clientClosed = old.clientClosed
  <2>1. old \in Connection /\ p \in Sports
    BY <1>1 DEF DataInv, UploadInv, StateInv, ConnectionTypes
  <2>2. Heard \in Connection /\ Heard.client = old.client /\ Heard.state = old.state
    BY <1>0, <1>1, HeardFields DEF TakePacket, DataInv, UploadInv, StateInv
  <2>3. Heard.clientClosed = old.clientClosed
    BY <1>0, <2>1 DEF Heard, Connection
  <2> QED BY <1>0, <2>1, <2>2, <2>3 DEF Connection
<1>3. /\ conn \in Connection /\ conn.client = c /\ conn.state = "Connecting" /\ conn.clientClosed = old.clientClosed
      /\ up.client = c /\ up.state = "Connected" /\ up.clientClosed = old.clientClosed
  <2>1. conn \in Connection /\ conn.client = c /\ conn.state = "Connecting"
    BY <1>0, <1>1, <1>2, AcceptedFields
  <2>2. conn.clientClosed = old.clientClosed
    <3> DEFINE H == Heard
               ack == (H.txAck + 1) % SeqSpace
               seq == (H.txSeq + 1) % SeqSpace
    <3>1. conn = [H EXCEPT !.txSeq = seq, !.txAck = ack] /\ H \in Connection /\ H.clientClosed = old.clientClosed
      BY <1>2
    <3> HIDE DEF H, ack, seq, conn
    <3> QED BY <3>1 DEF Connection
  <2> HIDE DEF conn
  <2> QED BY <2>1, <2>2 DEF Connection
<1> HIDE DEF conn, up
<1>4. Connecting(p) /\ Unclaimed(p)
  BY <1>1, <1>2 DEF Connecting, Claims
<1>5. Idle(c) /\ \A q \in DOMAIN connections : q # p => connections[q].client # c
  <2>1. calls[c] = "calling"
    BY <1>1, <1>2 DEF DataInv, UploadInv, StateInv, Tokens
  <2> QED BY <1>1, <1>2, <2>1 DEF DataInv, UploadInv, StateInv, Tokens, Up, Claims
<1>6. CASE /\ connections' = [connections EXCEPT ![p] = up]
           /\ sportOf' = [sportOf EXCEPT ![c] = p]
           /\ pump' = [pump EXCEPT ![c].pc = "check"]
           /\ forwarder' = [forwarder EXCEPT ![c].pc = "running"]
           /\ user' = [user EXCEPT ![c].side = "open"]
  <2>0. ChannelTypes
    BY DEF DataInv, UploadInv
  <2>1. /\ sportOf'[c] = p /\ pump'[c].pc = "check"
        /\ forwarder'[c].pc = "running" /\ forwarder'[c].queue = forwarder[c].queue
        /\ user'[c].side = "open" /\ user'[c].out = user[c].out /\ user'[c].given = user[c].given
    BY <1>2, <1>6, <2>0 DEF ChannelTypes
  <2>2. \A d \in Conns : d # c => Rest(d) /\ sportOf'[d] = sportOf[d]
    BY <1>2, <1>6, <2>0 DEF ChannelTypes, Rest
  <2>3. /\ DOMAIN connections' = DOMAIN connections /\ connections'[p] = up
        /\ \A q \in DOMAIN connections : q # p => connections'[q] = connections[q]
    BY <1>1, <1>6
  <2>4. Begins(p, c)
    BY <1>1, <1>2, <1>3, <1>4, <1>5, <2>1, <2>2, <2>3 DEF Begins
  <2> QED BY <1>2, <2>4
<1>7. CASE ~writerUp /\ connections' = [connections EXCEPT ![p] = conn] /\ UNCHANGED <<sportOf, pump, forwarder, user>>
  <2>3. /\ DOMAIN connections' = DOMAIN connections /\ connections'[p] = conn
        /\ \A q \in DOMAIN connections : q # p => connections'[q] = connections[q]
    BY <1>1, <1>7
  <2>4. Begins(p, c)
    BY <1>1, <1>2, <1>3, <1>4, <1>5, <1>7, <2>3 DEF Begins, Rest
  <2> QED BY <1>2, <2>4
<1> QED BY <1>1, <1>6, <1>7
-----------------------------------------------------------------------------
(* The task leaves no connection when it does not run, and a forwarder of  *)
(* a connection ends only when the client has dropped its stream.          *)

Quiet == mux # "running" => \A s \in Sports : s \notin DOMAIN connections

Abandoned(s) ==
  Connected(s) =>
    \A c \in Conns : c = connections[s].client /\ forwarder[c].pc = "done" => user[c].side = "dropped"

LEMMA QuietStep ==
  ASSUME DataInv, Quiet, Next
  PROVE  Quiet'
<1>1. CASE ClientActs \/ DeviceActs
  BY <1>1, ClientActsOnly, DeviceActsOnly DEF Quiet
<1>2. CASE TaskActs
  BY <1>2, TaskActsOnly DEF Quiet
<1>3. CASE VersionReply \/ WriteFails
  BY <1>3 DEF VersionReply, WriteFails, Quiet
<1>4. CASE Exit
  <2>1. DOMAIN <<>> = {}
    OBVIOUS
  <2> QED BY <1>4, <2>1 DEF Exit, Quiet
<1> QED BY <1>1, <1>2, <1>3, <1>4, NextIs

(* A client's connection holds its rx_tx. *)
LEMMA HoldsRx ==
  ASSUME NEW s \in Sports, Connected(s)
  PROVE  RxOpen(connections[s].client)
<1> QED BY DEF Connected, RxOpen

LEMMA AbandonedSame ==
  ASSUME NEW s \in Sports, Abandoned(s),
         Connected(s)' => Connected(s) /\ connections'[s].client = connections[s].client,
         Connected(s)' => \A c \in Conns : c = connections[s].client =>
            /\ user[c].side = "dropped" => user'[c].side = "dropped"
            /\ forwarder'[c].pc = "done" => forwarder[c].pc = "done" \/ user'[c].side = "dropped"
  PROVE  Abandoned(s)'
<1> QED BY DEF Abandoned

LEMMA AbandonedStep ==
  ASSUME PortsSuffice, DataInv, Claims, Quiet, Next, NEW s \in Sports, Abandoned(s)
  PROVE  Abandoned(s)'
<1>0. ChannelTypes
  BY DEF DataInv, UploadInv
<1>1. CASE UNCHANGED <<connections, user, forwarder>>
  BY <1>1, AbandonedSame DEF Connected
<1>2. CASE ClientActs
  <2>0. connections' = connections
    BY <1>2, ClientActsOnly
  <2>1. Connected(s)' => Connected(s) /\ connections'[s].client = connections[s].client
    BY <2>0 DEF Connected
  <2>2. ASSUME NEW d \in Conns, UserAct(d) PROVE Abandoned(s)'
    <3>1. \A c \in Conns : forwarder'[c] = forwarder[c] /\ (user[c].side = "dropped" => user'[c].side = "dropped")
      BY <1>0, <2>2, UserChanges
    <3> QED BY <2>1, <3>1, AbandonedSame
  <2>3. ASSUME NEW d \in Conns, PumpAct(d) PROVE Abandoned(s)'
    <3>1. \A c \in Conns : forwarder'[c] = forwarder[c] /\ user'[c].side = user[c].side
      BY <1>0, <2>3, PumpChanges
    <3> QED BY <2>1, <3>1, AbandonedSame
  <2>4. ASSUME NEW d \in Conns, ForwarderAct(d) PROVE Abandoned(s)'
    <3>1. \A c \in Conns : /\ user'[c].side = user[c].side
                           /\ c # d => forwarder'[c] = forwarder[c]
                           /\ forwarder'[d].pc = "done" => mux # "running" \/ user[d].side = "dropped" \/ ~RxOpen(d)
      BY <1>0, <2>4, ForwarderChanges
    <3>2. Connected(s) => mux = "running" /\ RxOpen(connections[s].client)
      BY HoldsRx DEF Quiet, Connected
    <3>3. Connected(s)' => \A c \in Conns : c = connections[s].client =>
            (forwarder'[c].pc = "done" => forwarder[c].pc = "done" \/ user'[c].side = "dropped")
      <4> SUFFICES ASSUME Connected(s), NEW c \in Conns, c = connections[s].client, forwarder'[c].pc = "done"
                   PROVE  forwarder[c].pc = "done" \/ user'[c].side = "dropped"
        BY <2>1
      <4>1. CASE c = d
        BY <3>1, <3>2, <4>1
      <4>2. CASE c # d
        BY <3>1, <4>2
      <4> QED BY <4>1, <4>2
    <3> QED BY <2>1, <3>1, <3>3, AbandonedSame
  <2>5. CASE CallShutdown
    BY <1>1, <2>5 DEF CallShutdown
  <2> QED BY <1>2, <2>2, <2>3, <2>4, <2>5 DEF ClientActs
<1>3. CASE DeviceActs
  BY <1>1, <1>3, DeviceActsOnly
<1>4. CASE VersionReply \/ WriteFails
  BY <1>1, <1>4 DEF VersionReply, WriteFails
<1>5. CASE Exit
  <2>1. DOMAIN <<>> = {}
    OBVIOUS
  <2> QED BY <1>5, <2>1 DEF Exit, Abandoned, Connected
<1>6. CASE MuxConnect
  <2>1. PICK p \in Sports : Asks(p)
    BY <1>6, ConnectAsks
  <2>2. user' = user /\ forwarder' = forwarder
    BY <2>1 DEF Asks
  <2>3. Connected(s)' => Connected(s) /\ connections'[s].client = connections[s].client
    <3>1. \A c \in Conns : NewConnection(c).state = "Connecting"
      BY NewFields
    <3> QED BY <2>1, <3>1 DEF Asks, Connected
  <2> QED BY <2>2, <2>3, AbandonedSame
<1>7. CASE Accepted
  <2>1. PICK p \in Sports : \E c \in Conns : Begins(p, c)
    BY <1>7, AcceptedBegins
  <2>2. PICK c \in Conns : Begins(p, c)
    BY <2>1
  <2>3. CASE s = p
    BY <2>2, <2>3 DEF Begins, Abandoned, Connected
  <2>4. CASE s # p
    <3>1. Connected(s)' => Connected(s) /\ connections'[s].client = connections[s].client
                           /\ connections[s].client # c
      BY <2>2, <2>4 DEF Begins, Connected
    <3>2. Connected(s)' => \A d \in Conns : d = connections[s].client => Rest(d)
      BY <2>2, <3>1 DEF Begins
    <3> QED BY <3>1, <3>2, AbandonedSame DEF Rest
  <2> QED BY <2>3, <2>4
<1>8. CASE Moving
  <2>1. PICK p \in Sports : \E Q \in Seq(Outgoing) : Handles(p, Q)
    BY <1>8, MovingHandles
  <2>2. Connected(s)' => Connected(s) /\ connections'[s].client = connections[s].client
    BY <2>1 DEF Handles, Stays, Connected
  <2>3. user' = user
    BY <1>8, MovingKeeps
  <2>4. \A c \in Conns : forwarder'[c].pc = forwarder[c].pc
    BY <1>8, MovingForwards
  <2> QED BY <2>2, <2>3, <2>4, AbandonedSame
<1> QED BY <1>2, <1>3, <1>4, <1>5, <1>6, <1>7, <1>8, NextIs DEF TaskActs, Moving, PacketStep
-----------------------------------------------------------------------------
(* A pump that has seen the end of the stream has read everything, its     *)
(* None is its last message, and a connection waits to be let go only      *)
(* after it.                                                               *)

Ended(c) == mux # "exited" /\ AtEnd(c) => user[c].out = 0 /\ user[c].side # "open"

NoneLast(c) ==
  \A i \in DOMAIN dataChan : dataChan[i][1] = sportOf[c] /\ dataChan[i][2] = 0 =>
    /\ pump[c].pc = "done"
    /\ \A j \in DOMAIN dataChan : i < j => dataChan[j][1] # sportOf[c]

Closing(s) ==
  s \in DOMAIN connections /\ connections[s].clientClosed =>
    /\ Connected(s) /\ \A c \in Conns : c = connections[s].client => pump[c].pc = "done"
    /\ \A j \in DOMAIN dataChan : dataChan[j][1] # s

LEMMA EndedStep ==
  ASSUME PortsSuffice, DataInv, Claims, Next, NEW c \in Conns, Ended(c)
  PROVE  Ended(c)'
<1>0. ChannelTypes
  BY DEF DataInv, UploadInv
<1>1. CASE UNCHANGED <<pump, user>> /\ (mux' # "exited" => mux # "exited")
  BY <1>1 DEF Ended, AtEnd
<1>2. CASE ClientActs
  <2>0. mux' = mux
    BY <1>2, ClientActsOnly
  <2>1. ASSUME NEW d \in Conns, UserAct(d) PROVE Ended(c)'
    <3>1. /\ pump' = pump /\ (user'[c].side = "open" => user[c].side = "open")
          /\ user'[c].out = user[c].out \/ user[c].side = "open"
      BY <1>0, <2>1, UserChanges
    <3> QED BY <2>0, <3>1 DEF Ended, AtEnd
  <2>2. ASSUME NEW d \in Conns, ForwarderAct(d) PROVE Ended(c)'
    <3>1. pump' = pump /\ user'[c].side = user[c].side /\ user'[c].out = user[c].out
      BY <1>0, <2>2, ForwarderChanges
    <3> QED BY <2>0, <3>1 DEF Ended, AtEnd
  <2>3. ASSUME NEW d \in Conns, PumpAct(d) PROVE Ended(c)'
    <3>1. /\ user'[c].side = user[c].side
          /\ c # d => pump'[c] = pump[c] /\ user'[c] = user[c]
          /\ mux # "exited" /\ AtEnd(d)' =>
               \/ AtEnd(d) /\ user'[d].out = user[d].out
               \/ user'[d].out = 0 /\ user[d].side # "open"
      BY <1>0, <2>3, PumpChanges
    <3>2. CASE c # d
      BY <2>0, <3>1, <3>2 DEF Ended, AtEnd
    <3>3. CASE c = d
      <4>1. mux # "exited" /\ AtEnd(c)' => user'[c].out = 0 /\ user'[c].side # "open"
        BY <3>1, <3>3 DEF Ended
      <4> QED BY <2>0, <4>1 DEF Ended
    <3> QED BY <3>2, <3>3
  <2>4. CASE CallShutdown
    BY <1>1, <2>0, <2>4 DEF CallShutdown
  <2> QED BY <1>2, <2>1, <2>2, <2>3, <2>4 DEF ClientActs
<1>3. CASE DeviceActs
  BY <1>1, <1>3, DeviceActsOnly
<1>4. CASE VersionReply \/ WriteFails \/ Exit
  BY <1>1, <1>4 DEF VersionReply, WriteFails, Exit
<1>6. CASE MuxConnect
  BY <1>1, <1>6, ConnectAsks DEF Asks
<1>7. CASE Accepted
  <2>1. PICK p \in Sports : \E d \in Conns : Begins(p, d)
    BY <1>7, AcceptedBegins
  <2>2. PICK d \in Conns : Begins(p, d)
    BY <2>1
  <2> QED BY <2>2 DEF Begins, Ended, AtEnd, Rest
<1>8. CASE Moving
  BY <1>1, <1>8, MovingKeeps
<1> QED BY <1>2, <1>3, <1>4, <1>6, <1>7, <1>8, NextIs DEF TaskActs, Moving, PacketStep

LEMMA ChannelLess ==
  ASSUME ChannelTypes, dataChan' = dataChan \/ (dataChan # <<>> /\ dataChan' = Tail(dataChan)) \/ dataChan' = <<>>
  PROVE  \E k \in Nat : \A j \in DOMAIN dataChan' :
           j \in Int /\ j >= 1 /\ j + k \in DOMAIN dataChan /\ dataChan'[j] = dataChan[j + k]
<1>0. dataChan \in Seq((0..MaxSport) \X Nat) /\ 0 \in Nat /\ 1 \in Nat
  BY DEF ChannelTypes
<1>1. CASE dataChan' = dataChan
  <2>1. \A j \in DOMAIN dataChan' : j \in Int /\ j >= 1 /\ j + 0 \in DOMAIN dataChan /\ dataChan'[j] = dataChan[j + 0]
    BY <1>0, <1>1
  <2> QED BY <1>0, <2>1
<1>2. CASE dataChan # <<>> /\ dataChan' = Tail(dataChan)
  <2>1. \A j \in DOMAIN dataChan' : j \in Int /\ j >= 1 /\ j + 1 \in DOMAIN dataChan /\ dataChan'[j] = dataChan[j + 1]
    BY <1>0, <1>2
  <2> QED BY <1>0, <2>1
<1>3. CASE dataChan' = <<>>
  <2>1. DOMAIN dataChan' = {}
    BY <1>3
  <2> QED BY <1>0, <2>1
<1> QED BY <1>1, <1>2, <1>3

LEMMA NoneLastSame ==
  ASSUME ChannelTypes, NEW c \in Conns, NoneLast(c), sportOf'[c] = sportOf[c],
         dataChan' = dataChan \/ (dataChan # <<>> /\ dataChan' = Tail(dataChan)) \/ dataChan' = <<>>,
         pump[c].pc = "done" => pump'[c].pc = "done"
  PROVE  NoneLast(c)'
<1>1. PICK k \in Nat : \A j \in DOMAIN dataChan' :
           j \in Int /\ j >= 1 /\ j + k \in DOMAIN dataChan /\ dataChan'[j] = dataChan[j + k]
  BY ChannelLess
<1> SUFFICES ASSUME NEW i \in DOMAIN dataChan', dataChan'[i][1] = sportOf[c], dataChan'[i][2] = 0
             PROVE  /\ pump'[c].pc = "done"
                    /\ \A j \in DOMAIN dataChan' : i < j => dataChan'[j][1] # sportOf[c]
  BY DEF NoneLast
<1>2. /\ pump[c].pc = "done"
      /\ \A j \in DOMAIN dataChan : i + k < j => dataChan[j][1] # sportOf[c]
  BY <1>1 DEF NoneLast
<1>3. ASSUME NEW j \in DOMAIN dataChan', i < j PROVE dataChan'[j][1] # sportOf[c]
  <2>1. i \in Int /\ j \in Int /\ j + k \in DOMAIN dataChan /\ dataChan'[j] = dataChan[j + k]
    BY <1>1
  <2>2. i + k < j + k
    BY <1>3, <2>1
  <2> QED BY <1>2, <2>1, <2>2
<1> QED BY <1>2, <1>3

LEMMA NoneLastPump ==
  ASSUME ChannelTypes, Claims, NEW c \in Conns, NoneLast(c), NEW d \in Conns, PumpAct(d)
  PROVE  NoneLast(c)'
<1>1. /\ sportOf' = sportOf /\ (pump[c].pc = "done" => pump'[c].pc = "done")
      /\ \/ dataChan' = dataChan
         \/ /\ pump[d].pc = "sending" /\ dataChan' = Append(dataChan, <<sportOf[d], pump[d].chunk>>)
            /\ pump[d].chunk = 0 => pump'[d].pc = "done"
  BY PumpChanges
<1>2. CASE dataChan' = dataChan
  BY <1>1, <1>2, NoneLastSame
<1>3. CASE /\ pump[d].pc = "sending" /\ dataChan' = Append(dataChan, <<sportOf[d], pump[d].chunk>>)
           /\ pump[d].chunk = 0 => pump'[d].pc = "done"
  <2> DEFINE t == <<sportOf[d], pump[d].chunk>>
  <2>0. t[1] = sportOf[d] /\ t[2] = pump[d].chunk
    OBVIOUS
  <2>1. sportOf[d] # 0
    BY ActsUp DEF Claims
  <2>2. sportOf[c] = sportOf[d] => c = d
    BY <2>1 DEF Claims
  <2> HIDE DEF t
  <2>3. \A i \in DOMAIN dataChan' :
          /\ i \in Int
          /\ \/ i \in DOMAIN dataChan /\ dataChan'[i] = dataChan[i] /\ i <= Len(dataChan)
             \/ i = Len(dataChan) + 1 /\ dataChan'[i] = t
    <3>1. dataChan \in Seq((0..MaxSport) \X Nat) /\ dataChan' = Append(dataChan, t)
      BY <1>3 DEF t, ChannelTypes
    <3> QED BY <3>1
  <2>4. Len(dataChan) \in Nat
    BY DEF ChannelTypes
  <2> SUFFICES ASSUME NEW i \in DOMAIN dataChan', dataChan'[i][1] = sportOf[c], dataChan'[i][2] = 0
               PROVE  /\ pump'[c].pc = "done"
                      /\ \A j \in DOMAIN dataChan' : i < j => dataChan'[j][1] # sportOf[c]
    BY <1>1 DEF NoneLast
  <2>5. CASE i \in DOMAIN dataChan /\ dataChan'[i] = dataChan[i]
    <3>1. /\ pump[c].pc = "done"
          /\ \A j \in DOMAIN dataChan : i < j => dataChan[j][1] # sportOf[c]
      BY <2>5 DEF NoneLast
    <3>2. sportOf[d] # sportOf[c]
      BY <1>3, <2>2, <3>1
    <3> QED BY <1>1, <2>0, <2>3, <3>1, <3>2
  <2>6. CASE i = Len(dataChan) + 1 /\ dataChan'[i] = t
    <3>1. c = d /\ pump[d].chunk = 0
      BY <2>0, <2>2, <2>6
    <3>2. \A j \in DOMAIN dataChan' : ~(i < j)
      BY <2>3, <2>4, <2>6
    <3> QED BY <1>3, <3>1, <3>2
  <2> QED BY <2>3, <2>5, <2>6
<1> QED BY <1>1, <1>2, <1>3

LEMMA NoneLastStep ==
  ASSUME PortsSuffice, DataInv, Claims, Next, NEW c \in Conns, NoneLast(c)
  PROVE  NoneLast(c)'
<1>0. ChannelTypes
  BY DEF DataInv, UploadInv
<1>1. CASE UNCHANGED <<pump, sportOf, dataChan>>
  BY <1>0, <1>1, NoneLastSame
<1>2. CASE ClientActs
  <2>2. ASSUME NEW d \in Conns, ForwarderAct(d) PROVE NoneLast(c)'
    BY <1>0, <1>1, <2>2, ForwarderChanges
  <2>3. ASSUME NEW d \in Conns, PumpAct(d) PROVE NoneLast(c)'
    BY <1>0, <2>3, NoneLastPump
  <2>4. CASE CallShutdown
    BY <1>1, <2>4 DEF CallShutdown
  <2>5. ASSUME NEW d \in Conns, UserAct(d) PROVE NoneLast(c)'
    BY <1>0, <1>1, <2>5, UserChanges
  <2> QED BY <1>2, <2>2, <2>3, <2>4, <2>5 DEF ClientActs
<1>3. CASE DeviceActs
  BY <1>1, <1>3, DeviceActsOnly
<1>4. CASE VersionReply \/ WriteFails
  BY <1>1, <1>4 DEF VersionReply, WriteFails
<1>5. CASE Exit
  BY <1>0, <1>5, NoneLastSame DEF Exit
<1>6. CASE MuxConnect
  BY <1>1, <1>6, ConnectAsks DEF Asks
<1>7. CASE Accepted
  <2>1. PICK p \in Sports : \E d \in Conns : Begins(p, d)
    BY <1>7, AcceptedBegins
  <2>2. PICK d \in Conns : Begins(p, d)
    BY <2>1
  <2>3. CASE sportOf'[c] = sportOf[c] /\ pump'[c] = pump[c]
    BY <1>0, <2>2, <2>3, NoneLastSame DEF Begins
  <2>4. CASE sportOf'[c] = p
    BY <2>2, <2>4 DEF Begins, Unclaimed, NoneLast
  <2> QED BY <2>2, <2>3, <2>4 DEF Begins, Rest
<1>8. CASE Moving
  <2>1. UNCHANGED <<sportOf, pump>> /\ (dataChan' = dataChan \/ (dataChan # <<>> /\ dataChan' = Tail(dataChan)))
    BY <1>8, MovingKeeps
  <2> QED BY <1>0, <2>1, NoneLastSame
<1> QED BY <1>2, <1>3, <1>4, <1>5, <1>6, <1>7, <1>8, NextIs DEF TaskActs, Moving, PacketStep

LEMMA ClosingSame ==
  ASSUME ChannelTypes, NEW s, Closing(s),
         dataChan' = dataChan \/ (dataChan # <<>> /\ dataChan' = Tail(dataChan)) \/ dataChan' = <<>>,
         s \in DOMAIN connections' /\ connections'[s].clientClosed =>
           /\ s \in DOMAIN connections /\ connections[s].clientClosed
           /\ connections'[s].state = connections[s].state
           /\ connections'[s].client = connections[s].client,
         \A c \in Conns : pump[c].pc = "done" => pump'[c].pc = "done"
  PROVE  Closing(s)'
<1> SUFFICES ASSUME s \in DOMAIN connections', connections'[s].clientClosed
             PROVE  /\ Connected(s)' /\ \A c \in Conns : c = connections'[s].client => pump'[c].pc = "done"
                    /\ \A j \in DOMAIN dataChan' : dataChan'[j][1] # s
  BY DEF Closing
<1>1. PICK k \in Nat : \A j \in DOMAIN dataChan' :
           j \in Int /\ j >= 1 /\ j + k \in DOMAIN dataChan /\ dataChan'[j] = dataChan[j + k]
  BY ChannelLess
<1>2. /\ Connected(s) /\ \A c \in Conns : c = connections[s].client => pump[c].pc = "done"
      /\ \A j \in DOMAIN dataChan : dataChan[j][1] # s
  BY DEF Closing
<1> QED BY <1>1, <1>2 DEF Connected

LEMMA ClosingPump ==
  ASSUME DataInv, Claims, NEW s \in Sports, Closing(s), connections' = connections,
         NEW d \in Conns, PumpAct(d)
  PROVE  Closing(s)'
<1>0. ChannelTypes
  BY DEF DataInv, UploadInv
<1>1. \A c \in Conns : pump[c].pc = "done" => pump'[c].pc = "done"
  BY <1>0, PumpChanges
<1>2. \/ dataChan' = dataChan
      \/ pump[d].pc = "sending" /\ dataChan' = Append(dataChan, <<sportOf[d], pump[d].chunk>>)
  BY <1>0, PumpChanges
<1>3. CASE dataChan' = dataChan
  BY <1>0, <1>1, <1>3, ClosingSame
<1>4. CASE pump[d].pc = "sending" /\ dataChan' = Append(dataChan, <<sportOf[d], pump[d].chunk>>)
  <2> SUFFICES ASSUME s \in DOMAIN connections, connections[s].clientClosed
               PROVE  Closing(s)'
    BY DEF Closing
  <2>1. /\ Connected(s) /\ \A c \in Conns : c = connections[s].client => pump[c].pc = "done"
        /\ \A j \in DOMAIN dataChan : dataChan[j][1] # s
    BY DEF Closing
  <2>2. sportOf[d] # s
    <3> SUFFICES ASSUME sportOf[d] = s PROVE FALSE
      OBVIOUS
    <3>1. sportOf[connections[s].client] = s /\ s # 0
      BY <2>1 DEF Claims, Sports
    <3>2. connections[s].client \in Conns
      BY <2>1, PortUp DEF Connection
    <3>3. d = connections[s].client
      BY <3>1, <3>2 DEF Claims
    <3> QED BY <1>4, <2>1, <3>3
  <2> DEFINE t == <<sportOf[d], pump[d].chunk>>
  <2>3. t[1] # s
    BY <2>2
  <2> HIDE DEF t
  <2>4. \A j \in DOMAIN dataChan' : dataChan'[j][1] # s
    <3>1. dataChan \in Seq((0..MaxSport) \X Nat) /\ dataChan' = Append(dataChan, t)
      BY <1>0, <1>4 DEF t, ChannelTypes
    <3>2. \A j \in DOMAIN dataChan' : (j \in DOMAIN dataChan /\ dataChan'[j] = dataChan[j]) \/ dataChan'[j] = t
      BY <3>1
    <3> QED BY <2>1, <2>3, <3>2
  <2> QED BY <1>1, <2>1, <2>4 DEF Closing, Connected
<1> QED BY <1>2, <1>3, <1>4

LEMMA ClosingMoving ==
  ASSUME DataInv, Claims, Moving, NEW s \in Sports, Closing(s), \A c \in Conns : NoneLast(c)
  PROVE  Closing(s)'
<1>0. ChannelTypes /\ dataChan \in Seq((0..MaxSport) \X Nat)
  BY DEF DataInv, UploadInv, ChannelTypes
<1>1. PICK p \in Sports : \E Q : Handles(p, Q)
  BY MovingHandles
<1>2. Stays(p) /\ Learns(p)
  BY <1>1 DEF Handles
<1>3. pump' = pump /\ (dataChan' = dataChan \/ (dataChan # <<>> /\ dataChan' = Tail(dataChan)))
  BY MovingKeeps
<1>4. CASE s \in DOMAIN connections' /\ connections'[s].clientClosed =>
             s \in DOMAIN connections /\ connections[s].clientClosed
  BY <1>0, <1>2, <1>3, <1>4, ClosingSame DEF Stays
<1>5. ASSUME s \in DOMAIN connections', connections'[s].clientClosed,
             ~(s \in DOMAIN connections /\ connections[s].clientClosed)
      PROVE  Closing(s)'
  <2>1. s = p /\ NoneFirst(s)
    BY <1>2, <1>5 DEF Stays, Learns
  <2>2. /\ s \in DOMAIN connections /\ connections'[s].state = connections[s].state
        /\ connections'[s].client = connections[s].client
    BY <1>2, <1>5, <2>1 DEF Stays
  <2>3. /\ 1 \in DOMAIN dataChan /\ dataChan[1][1] = s /\ dataChan[1][2] = 0 /\ dataChan' = Tail(dataChan)
        /\ \A j \in DOMAIN dataChan' : 1 < j + 1 /\ j + 1 \in DOMAIN dataChan /\ dataChan'[j] = dataChan[j + 1]
    BY <1>0, <2>1, SMTT(30) DEF NoneFirst
  <2>4. ~Connecting(s)
    BY <2>3 DEF Claims, Unclaimed
  <2>5. Connected(s)
    <3>1. connections[s] \in Connection
      BY <2>2 DEF DataInv, UploadInv, StateInv, ConnectionTypes
    <3>2. connections[s].state \in {"Connecting", "Connected"}
      BY <3>1 DEF Connection
    <3> QED BY <2>2, <2>4, <3>2 DEF Connecting, Connected
  <2>6. connections[s].client \in Conns /\ sportOf[connections[s].client] = s
    BY <2>5, PortUp DEF Connection, Claims
  <2>7. PICK c \in Conns : c = connections[s].client
    BY <2>6
  <2>8. pump[c].pc = "done" /\ \A j \in DOMAIN dataChan : 1 < j => dataChan[j][1] # s
    BY <2>3, <2>6, <2>7 DEF NoneLast
  <2>9. \A j \in DOMAIN dataChan' : dataChan'[j][1] # s
    BY <2>3, <2>8
  <2> QED BY <1>3, <1>5, <2>2, <2>5, <2>7, <2>8, <2>9 DEF Closing, Connected
<1> QED BY <1>4, <1>5

LEMMA ClosingStep ==
  ASSUME PortsSuffice, DataInv, Claims, Next, NEW s \in Sports, Closing(s), \A c \in Conns : NoneLast(c)
  PROVE  Closing(s)'
<1>0. ChannelTypes
  BY DEF DataInv, UploadInv
<1>1. CASE UNCHANGED <<pump, connections, dataChan>>
  BY <1>0, <1>1, ClosingSame
<1>2. CASE ClientActs
  <2>0. connections' = connections
    BY <1>2, ClientActsOnly
  <2>2. ASSUME NEW d \in Conns, ForwarderAct(d) PROVE Closing(s)'
    BY <1>0, <1>1, <2>0, <2>2, ForwarderChanges
  <2>3. ASSUME NEW d \in Conns, PumpAct(d) PROVE Closing(s)'
    BY <1>0, <2>0, <2>3, ClosingPump
  <2>4. CASE CallShutdown
    BY <1>1, <2>0, <2>4 DEF CallShutdown
  <2>5. ASSUME NEW d \in Conns, UserAct(d) PROVE Closing(s)'
    BY <1>0, <1>1, <2>0, <2>5, UserChanges
  <2> QED BY <1>2, <2>2, <2>3, <2>4, <2>5 DEF ClientActs
<1>3. CASE DeviceActs
  BY <1>1, <1>3, DeviceActsOnly
<1>4. CASE VersionReply \/ WriteFails
  BY <1>1, <1>4 DEF VersionReply, WriteFails
<1>5. CASE Exit
  BY <1>5 DEF Exit, Closing
<1>6. CASE MuxConnect
  <2>1. PICK p \in Sports : Asks(p)
    BY <1>6, ConnectAsks
  <2>2. CASE connections' = connections
    BY <1>1, <2>1, <2>2 DEF Asks
  <2>3. CASE connections' # connections
    <3>1. PICK c \in Conns : connections'[p] = NewConnection(c)
      BY <2>1, <2>3 DEF Asks
    <3>2. /\ DOMAIN connections' = DOMAIN connections \cup {p}
          /\ \A q \in DOMAIN connections : q # p => connections'[q] = connections[q]
      BY <2>1, <2>3 DEF Asks
    <3>3. ~connections'[p].clientClosed
      BY <3>1 DEF NewConnection
    <3> QED BY <1>0, <2>1, <3>2, <3>3, ClosingSame DEF Asks
  <2> QED BY <2>2, <2>3
<1>7. CASE Accepted
  <2>1. PICK p \in Sports : \E d \in Conns : Begins(p, d)
    BY <1>7, AcceptedBegins
  <2>2. PICK d \in Conns : Begins(p, d)
    BY <2>1
  <2>3. CASE s = p
    BY <2>2, <2>3 DEF Begins, Closing, Connecting, Connected
  <2>4. CASE s # p
    <3>1. \A c \in Conns : pump[c].pc = "done" => pump'[c].pc = "done"
      BY <2>2 DEF Begins, Idle, Rest
    <3>2. /\ dataChan' = dataChan
          /\ s \in DOMAIN connections' => s \in DOMAIN connections /\ connections'[s] = connections[s]
      BY <2>2, <2>4 DEF Begins
    <3> QED BY <1>0, <3>1, <3>2, ClosingSame
  <2> QED BY <2>3, <2>4
<1>8. CASE Moving
  BY <1>8, ClosingMoving
<1> QED BY <1>2, <1>3, <1>4, <1>5, <1>6, <1>7, <1>8, NextIs DEF TaskActs, Moving, PacketStep
-----------------------------------------------------------------------------
(* A connection that is gone while the device has it open, and its client  *)
(* has not dropped it: everything written is at the device or on the pipe. *)

Left(c, s) ==
  (/\ sportOf[c] = s /\ mux # "exited" /\ writerUp /\ ~Connected(s)
   /\ device[s].open /\ user[c].side # "dropped") =>
    pump[c].pc = "done" /\ user[c].given = device[s].rcvd + Out(s)

LEMMA LeftSame ==
  ASSUME NEW c \in Conns, NEW s \in Sports, Left(c, s),
         (/\ sportOf'[c] = s /\ mux' # "exited" /\ writerUp' /\ ~Connected(s)'
          /\ device'[s].open /\ user'[c].side # "dropped") =>
           /\ sportOf[c] = s /\ mux # "exited" /\ writerUp /\ ~Connected(s)
           /\ device[s].open /\ user[c].side # "dropped"
           /\ device'[s].rcvd + Out(s)' = device[s].rcvd + Out(s)
           /\ pump[c].pc = "done" => pump'[c].pc = "done" /\ user'[c].given = user[c].given
  PROVE  Left(c, s)'
<1> SUFFICES ASSUME sportOf'[c] = s, mux' # "exited", writerUp', ~Connected(s)',
                    device'[s].open, user'[c].side # "dropped"
             PROVE  pump'[c].pc = "done" /\ user'[c].given = device'[s].rcvd + Out(s)'
  BY DEF Left
<1>1. pump[c].pc = "done" /\ user[c].given = device[s].rcvd + Out(s)
  BY DEF Left
<1> QED BY <1>1

LEMMA ClientLeft ==
  ASSUME ChannelTypes, ClientActs, NEW c \in Conns, NEW s \in Sports, Left(c, s)
  PROVE  Left(c, s)'
<1>1. UNCHANGED <<mux, writerUp, connections, toDevice, device>>
  BY ClientActsOnly
<1>2. Out(s)' = Out(s) /\ (Connected(s)' <=> Connected(s))
  BY <1>1 DEF Out, OnPipe, Connected
<1>3. CASE CallShutdown
  BY <1>1, <1>2, <1>3, LeftSame DEF CallShutdown
<1>4. ASSUME NEW d \in Conns, UserAct(d) PROVE Left(c, s)'
  <2>1. /\ pump' = pump /\ sportOf' = sportOf /\ (user[c].side = "dropped" => user'[c].side = "dropped")
        /\ user'[c].given = user[c].given \/ pump[c].pc # "done"
    BY <1>4, UserChanges
  <2> QED BY <1>1, <1>2, <2>1, LeftSame
<1>5. ASSUME NEW d \in Conns, PumpAct(d) PROVE Left(c, s)'
  <2>1. /\ sportOf' = sportOf /\ user'[c].side = user[c].side /\ user'[c].given = user[c].given
        /\ pump[c].pc = "done" => pump'[c].pc = "done"
    BY <1>5, PumpChanges
  <2> QED BY <1>1, <1>2, <2>1, LeftSame
<1>6. ASSUME NEW d \in Conns, ForwarderAct(d) PROVE Left(c, s)'
  <2>1. /\ pump' = pump /\ sportOf' = sportOf
        /\ user'[c].side = user[c].side /\ user'[c].given = user[c].given
    BY <1>6, ForwarderChanges
  <2> QED BY <1>1, <1>2, <2>1, LeftSame
<1> QED BY <1>3, <1>4, <1>5, <1>6 DEF ClientActs

(* A turn of the device moves bytes from the pipe to the device. *)
LEMMA TurnTotal ==
  ASSUME DataInv, NEW p \in Sports, NEW G, Turn(p, G), NEW s \in Sports, OneAnswer(s),
         NEW c \in Conns, sportOf[c] = s, device'[s].open
  PROVE  device[s].open /\ device'[s].rcvd + Out(s)' = device[s].rcvd + Out(s)
<1>0. PICK f : f = Head(toDevice)
  OBVIOUS
<1>1. toDevice \in Seq(Outgoing) /\ device[s].rcvd \in Nat
  BY DEF DataInv, PipeTypes, DeviceEnd
<1>2. CASE toDevice' = toDevice /\ device[s].open /\ device'[s].rcvd = device[s].rcvd
  BY <1>2 DEF Out, OnPipe
<1>3. CASE toDevice # <<>> /\ toDevice' = Tail(toDevice) /\ f.sport = p /\ s # p
  <2>1. Out(s)' = Out(s)
    BY <1>0, <1>1, <1>3, OnwardTaken DEF Out, OnPipe
  <2>2. device'[s] = device[s]
    BY <1>3 DEF Turn
  <2> QED BY <2>1, <2>2
<1>4. CASE s = p
  <2>1. ASSUME FirstIs(p, "SYN") PROVE FALSE
    <3>1. 1 \in DOMAIN toDevice /\ toDevice[1] = f /\ f.sport = s /\ f.flags = "SYN"
      BY <1>0, <1>1, <1>4, <2>1 DEF FirstIs
    <3> QED BY <3>1 DEF OneAnswer
  <2>2. CASE Stores(p, G)
    <3>1. /\ toDevice # <<>> /\ toDevice' = Tail(toDevice) /\ f.sport = p /\ device[p].open
          /\ device'[p].rcvd = device[p].rcvd + f.len
      BY <1>0, <2>2 DEF Stores, FirstIs
    <3>2. f.len \in Nat /\ Out(p) = f.len + Out(p)' /\ Out(p)' \in Nat
      BY <1>0, <3>1, FrameTaken
    <3> DEFINE r == device[p].rcvd
               r2 == device'[p].rcvd
               o == Out(p)
               q == Out(p)'
    <3>3. r \in Nat /\ r2 = r + f.len /\ o = f.len + q /\ q \in Nat /\ f.len \in Nat
      BY <1>1, <1>4, <3>1, <3>2
    <3> HIDE DEF r, r2, o, q
    <3>4. r2 + q = r + o
      BY <3>3
    <3> QED BY <1>4, <3>1, <3>4 DEF r, r2, o, q
  <2>3. CASE Consumes(p, G) \/ Transmits(p, G)
    BY <1>2, <1>4, <2>3 DEF Consumes, Transmits
  <2>4. ASSUME Shuts(p, G) \/ Ignores(p, G) \/ HangsUp(p, G) PROVE FALSE
    BY <1>4, <2>4 DEF Shuts, Ignores, HangsUp
  <2>5. ASSUME Opens(p, G) \/ Declines(p, G) PROVE FALSE
    BY <2>1, <2>5 DEF Opens, Declines
  <2> QED BY <2>2, <2>3, <2>4, <2>5 DEF Turn
<1>5. CASE s # p
  <2>1. device'[s] = device[s]
    BY <1>5 DEF Turn
  <2>2. toDevice' = toDevice \/ (toDevice # <<>> /\ toDevice' = Tail(toDevice) /\ f.sport = p)
    BY <1>0 DEF Turn, Opens, Declines, Stores, Shuts, Ignores, Consumes, Transmits, HangsUp, FirstIs
  <2> QED BY <1>2, <1>3, <1>5, <2>1, <2>2
<1> QED BY <1>4, <1>5

LEMMA DeviceLeft ==
  ASSUME DataInv, DeviceActs, NEW c \in Conns, NEW s \in Sports, OneAnswer(s), Left(c, s)
  PROVE  Left(c, s)'
<1>1. UNCHANGED <<mux, writerUp, connections, sportOf, pump, user>>
  BY DeviceActsOnly
<1>2. Connected(s)' <=> Connected(s)
  BY <1>1 DEF Connected
<1>3. PICK p \in Sports : \E G : Turn(p, G)
  BY DeviceTurnIs
<1>4. sportOf[c] = s /\ device'[s].open =>
        device[s].open /\ device'[s].rcvd + Out(s)' = device[s].rcvd + Out(s)
  BY <1>3, TurnTotal
<1> QED BY <1>1, <1>2, <1>4, LeftSame

(* The port of a client is new to nobody. *)
LEMMA ClaimedPort ==
  ASSUME DataInv, Claims, NEW c \in Conns, NEW s \in Sports, sportOf[c] = s
  PROVE  /\ ~Fresh(s) /\ ~Connecting(s)
         /\ Connected(s) \/ s \notin DOMAIN connections
         /\ Connected(s) => connections[s].client = c
<1>1. ~Fresh(s) /\ ~Connecting(s)
  BY DEF Claims, Unclaimed
<1>2. Connected(s) \/ s \notin DOMAIN connections
  <2> SUFFICES ASSUME s \in DOMAIN connections PROVE Connected(s)
    OBVIOUS
  <2>1. connections[s] \in Connection
    BY DEF DataInv, UploadInv, StateInv, ConnectionTypes
  <2>2. connections[s].state \in {"Connecting", "Connected"}
    BY <2>1 DEF Connection
  <2> QED BY <1>1, <2>2 DEF Connecting, Connected
<1>3. ASSUME Connected(s) PROVE connections[s].client = c
  <2>1. connections[s].client \in Conns
    BY <1>3, PortUp DEF Connection
  <2>2. sportOf[connections[s].client] = s /\ s # 0
    BY <1>3 DEF Claims, Sports
  <2> QED BY <2>1, <2>2 DEF Claims
<1> QED BY <1>1, <1>2, <1>3

(* A client that has sent its None has nothing on its way to the task. *)
LEMMA AllTaken ==
  ASSUME DataInv, Claims, NEW c \in Conns, NEW s \in Sports, sportOf[c] = s, Connected(s),
         NoneLast(c), Closing(s), connections[s].clientClosed \/ NoneFirst(s)
  PROVE  pump[c].pc = "done" /\ InChan(dataChan, s) = 0
<1>0. dataChan \in Seq((0..MaxSport) \X Nat)
  BY DEF DataInv, UploadInv, ChannelTypes
<1>1. connections[s].client = c
  BY ClaimedPort
<1>2. CASE connections[s].clientClosed
  <2>1. pump[c].pc = "done" /\ \A j \in DOMAIN dataChan : dataChan[j][1] # s
    BY <1>1, <1>2 DEF Closing, Connected
  <2> QED BY <1>0, <2>1, InChanNat
<1>3. CASE NoneFirst(s)
  <2>1. /\ 1 \in DOMAIN dataChan /\ dataChan[1][1] = s /\ dataChan[1][2] = 0 /\ dataChan # <<>>
        /\ Head(dataChan)[1] = s /\ Head(dataChan)[2] = 0
        /\ \A j \in DOMAIN Tail(dataChan) : 1 < j + 1 /\ j + 1 \in DOMAIN dataChan /\ Tail(dataChan)[j] = dataChan[j + 1]
    BY <1>0, <1>3, SMTT(30) DEF NoneFirst
  <2>2. pump[c].pc = "done" /\ \A j \in DOMAIN dataChan : 1 < j => dataChan[j][1] # s
    BY <2>1 DEF NoneLast
  <2> DEFINE rest == Tail(dataChan)
  <2>3. rest \in Seq((0..MaxSport) \X Nat) /\ \A j \in DOMAIN rest : rest[j][1] # s
    BY <1>0, <2>1, <2>2
  <2>4. InChan(dataChan, s) = (IF Head(dataChan)[1] = s THEN Head(dataChan)[2] ELSE 0) + InChan(rest, s)
    BY <1>0, <2>1, InChanTaken
  <2> HIDE DEF rest
  <2>5. InChan(rest, s) = 0
    BY <2>3, InChanNat
  <2>6. InChan(dataChan, s) = 0
    BY <2>1, <2>4, <2>5
  <2> QED BY <2>2, <2>6
<1> QED BY <1>2, <1>3

(* The connection is let go with all of its client's bytes sent. *)
LEMMA LetGo ==
  ASSUME DataInv, DataInv', Claims, Tidy, NEW c \in Conns, NEW s \in Sports, Ledger(s),
         NoneLast(c), Closing(s), Ended(c), sportOf[c] = s, Connected(s), writerUp, device[s].open,
         mux # "exited", connections[s].clientClosed \/ NoneFirst(s),
         UNCHANGED <<device, user, pump>>, Out(s)' = Out(s) + connections[s].pending
  PROVE  pump'[c].pc = "done" /\ user'[c].given = device'[s].rcvd + Out(s)'
<1>0. ChannelTypes
  BY DEF DataInv, UploadInv
<1>1. pump[c].pc = "done" /\ InChan(dataChan, s) = 0
  BY AllTaken
<1>2. Own(c) = 0
  <2>1. pump[c].chunk = 0
    BY <1>1 DEF Tidy
  <2>2. user[c].out = 0
    BY <1>1 DEF Ended, AtEnd
  <2> QED BY <2>1, <2>2 DEF Own
<1>3. user[c].given = Past(s) + Own(c)
  BY ClaimedPort DEF Ledger
<1> DEFINE r == device[s].rcvd
           o == Out(s)
           w == connections[s].pending
           i == InChan(dataChan, s)
<1>4. r \in Nat /\ o \in Nat /\ w \in Nat /\ i = 0 /\ Past(s) = r + o + w + i
  BY <1>1, LedgerTypes DEF Past
<1> HIDE DEF r, o, w, i
<1>5. user[c].given = r + (o + w)
  BY <1>2, <1>3, <1>4
<1> QED BY <1>1, <1>5 DEF r, o, w

LEMMA MovingLeft ==
  ASSUME DataInv, DataInv', Claims, Tidy, Moving, NEW c \in Conns, NEW s \in Sports, Left(c, s), Ledger(s),
         OncePerPort(s), Abandoned(s), Closing(s), NoneLast(c), Ended(c)
  PROVE  Left(c, s)'
<1>1. UNCHANGED <<mux, writerUp, device, sportOf, pump, user>> /\ mux = "running"
  BY MovingKeeps
<1> SUFFICES ASSUME sportOf'[c] = s, mux' # "exited", writerUp', ~Connected(s)',
                    device'[s].open, user'[c].side # "dropped"
             PROVE  pump'[c].pc = "done" /\ user'[c].given = device'[s].rcvd + Out(s)'
  BY DEF Left
<1>2. PICK p \in Sports : \E Q \in Seq(Outgoing) : Handles(p, Q)
  BY MovingHandles
<1>3. PICK Q \in Seq(Outgoing) : Handles(p, Q)
  BY <1>2
<1>4. /\ Speaks(p, Q) /\ Stays(p) /\ Lets(p, Q) /\ toDevice' = toDevice \o Q
      /\ \A i \in DOMAIN Q : Q[i].sport = p
  BY <1>3 DEF Handles, Speaks
<1>5. PipeTypes
  BY DEF DataInv
<1>6. /\ Out(s)' = Out(s) + Carried(Q, s, Len(Q)) /\ Out(s) \in Nat
      /\ (\A i \in DOMAIN Q : Q[i].sport # s) => Carried(Q, s, Len(Q)) = 0
  BY <1>4, <1>5, OutPut
<1>7. CASE ~Connected(s)
  <2>1. Carried(Q, s, Len(Q)) = 0
    <3>1. CASE s # p
      BY <1>4, <1>6, <3>1
    <3>2. CASE s = p
      <4>1. s \notin DOMAIN connections
        BY <1>1, <1>7, ClaimedPort
      <4>2. p \notin DOMAIN connections'
        BY <1>4, <3>2, <4>1 DEF Stays
      <4>3. \A i \in DOMAIN Q : Q[i].len = 0
        BY <1>4, <3>2, <4>1, <4>2 DEF Speaks
      <4>4. Len(Q) \in Nat /\ Len(Q) <= Len(Q) /\ \A i \in 1..Len(Q) : Q[i].sport = s => Q[i].len = 0
        BY <4>3
      <4> QED BY <4>4, CarriedNone
    <3> QED BY <3>1, <3>2
  <2>2. Out(s)' = Out(s)
    BY <1>6, <2>1
  <2>3. pump[c].pc = "done" /\ user[c].given = device[s].rcvd + Out(s)
    BY <1>1, <1>7 DEF Left
  <2> QED BY <1>1, <2>2, <2>3
<1>8. CASE Connected(s)
  <2>1. s = p /\ s \notin DOMAIN connections'
    BY <1>4, <1>8 DEF Stays, Connected
  <2>2. connections[s].client = c
    BY <1>1, <1>8, ClaimedPort
  <2>3. \/ connections[s].pending = Carried(Q, s, Len(Q)) /\ (connections[s].clientClosed \/ NoneFirst(s))
        \/ fromDevice # <<>> /\ pkt.sport = s /\ pkt.flags # "ACK"
        \/ forwarder[c].pc = "done"
    BY <1>1, <1>4, <1>8, <2>1, <2>2 DEF Lets
  <2>4. CASE connections[s].pending = Carried(Q, s, Len(Q)) /\ (connections[s].clientClosed \/ NoneFirst(s))
    <3>1. Out(s)' = Out(s) + connections[s].pending
      BY <1>6, <2>4
    <3> QED BY <1>1, <1>8, <2>4, <3>1, LetGo
  <2>5. CASE fromDevice # <<>> /\ pkt.sport = s /\ pkt.flags # "ACK"
    <3>1. 1 \in DOMAIN fromDevice /\ fromDevice[1] = pkt /\ pkt \in Incoming
      BY <1>5, <2>5 DEF PipeTypes, pkt
    <3>2. pkt.flags \in {"SYN", "SYN|ACK", "RST"}
      BY <2>5, <3>1 DEF Incoming, Flags
    <3>3. device[s].open /\ sportOf[c] = s
      BY <1>1
    <3> QED BY <2>5, <3>1, <3>2, <3>3 DEF OncePerPort, ResetShut, OneAnswer
  <2>6. CASE forwarder[c].pc = "done"
    BY <1>1, <1>8, <2>2, <2>6 DEF Abandoned
  <2> QED BY <2>3, <2>4, <2>5, <2>6
<1> QED BY <1>7, <1>8

LEMMA ConnectLeft ==
  ASSUME PortsSuffice, DataInv, Claims, MuxConnect, NEW c \in Conns, NEW s \in Sports, Left(c, s)
  PROVE  Left(c, s)'
<1>1. PICK p \in Sports : Asks(p)
  BY ConnectAsks
<1>2. UNCHANGED <<mux, writerUp, device, sportOf, pump, user>> /\ Fresh(p)
  BY <1>1 DEF Asks
<1>3. CASE toDevice' = toDevice /\ connections' = connections
  <2>1. Out(s)' = Out(s) /\ (Connected(s)' <=> Connected(s))
    BY <1>3 DEF Out, OnPipe, Connected
  <2> QED BY <1>2, <2>1, LeftSame
<1>4. ASSUME NEW f \in Outgoing, toDevice' = toDevice \o <<f>>, f.sport = p, sportOf[c] = s,
             DOMAIN connections' = DOMAIN connections \cup {p},
             \A q \in DOMAIN connections : q # p => connections'[q] = connections[q]
      PROVE  Out(s)' = Out(s) /\ (Connected(s)' <=> Connected(s))
  <2>1. s # p
    BY <1>2, <1>4, ClaimedPort
  <2> DEFINE Q == <<f>>
  <2>2. Q \in Seq(Outgoing) /\ \A i \in DOMAIN Q : Q[i].sport # s
    BY <1>4, <2>1
  <2>3. toDevice' = toDevice \o Q
    BY <1>4
  <2> HIDE DEF Q
  <2>4. PipeTypes
    BY DEF DataInv
  <2> DEFINE k == Carried(Q, s, Len(Q))
  <2>5. Out(s)' = Out(s) + k /\ Out(s) \in Nat /\ k = 0
    BY <2>2, <2>3, <2>4, OutPut
  <2> HIDE DEF k
  <2>6. Out(s)' = Out(s)
    BY <2>5
  <2> QED BY <1>4, <2>1, <2>6 DEF Connected
<1>5. sportOf[c] = s => Out(s)' = Out(s) /\ (Connected(s)' <=> Connected(s))
  <2>1. CASE toDevice' = toDevice /\ connections' = connections
    BY <2>1 DEF Out, OnPipe, Connected
  <2> QED BY <1>1, <1>4, <2>1 DEF Asks
<1> QED BY <1>2, <1>5, LeftSame

LEMMA AcceptedLeft ==
  ASSUME DataInv, Claims, Accepted, NEW c \in Conns, NEW s \in Sports, Left(c, s)
  PROVE  Left(c, s)'
<1>1. PICK p \in Sports : \E d \in Conns : Begins(p, d)
  BY AcceptedBegins
<1>2. PICK d \in Conns : Begins(p, d)
  BY <1>1
<1>3. PICK r \in Sports : \E Q \in Seq(Outgoing) : Answers(r, Q)
  BY AcceptedAnswers
<1>4. PICK Q \in Seq(Outgoing) : Answers(r, Q)
  BY <1>3
<1>5. /\ UNCHANGED <<mux, writerUp, device>>
      /\ c # d => pump'[c] = pump[c] /\ user'[c] = user[c] /\ sportOf'[c] = sportOf[c]
  BY <1>2 DEF Begins, Rest
<1>6. CASE sportOf[c] = s
  <2>1. s # p /\ s # r
    BY <1>2, <1>4, <1>6, ClaimedPort DEF Begins, Answers
  <2>2. c # d
    BY <1>2, <1>6 DEF Begins, Idle, Sports
  <2>3. Connected(s)' <=> Connected(s)
    BY <1>2, <2>1 DEF Begins, Connected
  <2>4. toDevice' = toDevice \o Q /\ \A i \in DOMAIN Q : Q[i].sport # s
    BY <1>4, <2>1 DEF Answers, Speaks
  <2>5. PipeTypes
    BY DEF DataInv
  <2> DEFINE k == Carried(Q, s, Len(Q))
  <2>6. Out(s)' = Out(s) + k /\ Out(s) \in Nat /\ k = 0
    BY <2>4, <2>5, OutPut
  <2> HIDE DEF k
  <2>7. Out(s)' = Out(s)
    BY <2>6
  <2> QED BY <1>5, <2>2, <2>3, <2>7, LeftSame
<1>7. CASE sportOf[c] # s
  <2>1. sportOf'[c] = s => writerUp' = FALSE \/ (c = d /\ s = p /\ connections'[p].state = "Connected")
    BY <1>2, <1>5, <1>7 DEF Begins
  <2>2. p \in DOMAIN connections'
    BY <1>2 DEF Begins, Connecting
  <2>3. sportOf'[c] = s => ~writerUp' \/ Connected(s)'
    BY <2>1, <2>2 DEF Connected
  <2> QED BY <2>3 DEF Left
<1> QED BY <1>6, <1>7

LEMMA LeftStep ==
  ASSUME PortsSuffice, DataInv, DataInv', Claims, Tidy, Next, NEW c \in Conns, NEW s \in Sports, Left(c, s),
         Ledger(s), OncePerPort(s), Abandoned(s), Closing(s), NoneLast(c), Ended(c)
  PROVE  Left(c, s)'
<1>0. ChannelTypes
  BY DEF DataInv, UploadInv
<1>1. CASE ClientActs
  BY <1>0, <1>1, ClientLeft
<1>2. CASE DeviceActs
  BY <1>2, DeviceLeft DEF OncePerPort
<1>3. CASE VersionReply
  <2>1. mux # "exited" /\ UNCHANGED <<writerUp, connections, toDevice, device, sportOf, pump, user>>
    BY <1>3 DEF VersionReply
  <2>2. Out(s)' = Out(s) /\ (Connected(s)' <=> Connected(s))
    BY <2>1 DEF Out, OnPipe, Connected
  <2> QED BY <2>1, <2>2, LeftSame
<1>4. CASE WriteFails
  BY <1>4 DEF WriteFails, Left
<1>5. CASE Exit
  BY <1>5 DEF Exit, Left
<1>6. CASE MuxConnect
  BY <1>6, ConnectLeft
<1>7. CASE Accepted
  BY <1>7, AcceptedLeft
<1>8. CASE Moving
  BY <1>8, MovingLeft
<1> QED BY <1>1, <1>2, <1>3, <1>4, <1>5, <1>6, <1>7, <1>8, NextIs DEF TaskActs, Moving, PacketStep
-----------------------------------------------------------------------------
EndInv ==
  /\ Quiet
  /\ \A s \in Sports : ResetLast(s) /\ OncePerPort(s) /\ Abandoned(s) /\ Closing(s)
  /\ \A c \in Conns : Ended(c) /\ NoneLast(c) /\ \A s \in Sports : Left(c, s)

LEMMA EndInvInit ==
  ASSUME Init
  PROVE  EndInv
<1>1. DOMAIN <<>> = {} /\ \A c \in Conns : pump[c].pc = "off" /\ sportOf[c] = 0
  BY DEF Init
<1>2. Quiet
  BY <1>1 DEF Init, Quiet
<1>3. \A s \in Sports : ResetLast(s) /\ OncePerPort(s)
  BY <1>1 DEF Init, ResetLast, OncePerPort, ResetShut, OneAnswer
<1>4. \A s \in Sports : Abandoned(s) /\ Closing(s)
  BY <1>1 DEF Init, Abandoned, Closing, Connected
<1>5. \A c \in Conns : Ended(c) /\ NoneLast(c)
  BY <1>1 DEF Init, Ended, AtEnd, NoneLast
<1>6. \A c \in Conns : \A s \in Sports : Left(c, s)
  BY <1>1 DEF Left, Sports
<1> QED BY <1>2, <1>3, <1>4, <1>5, <1>6 DEF EndInv

LEMMA EndInvStep ==
  ASSUME PortsSuffice, DataInv, DataInv', LedgerInv, EndInv, Next
  PROVE  EndInv'
<1>1. Claims /\ Tidy /\ \A s \in Sports : Ledger(s)
  BY DEF LedgerInv
<1>2. Quiet'
  BY QuietStep DEF EndInv
<1>3. ASSUME NEW s \in Sports PROVE ResetLast(s)' /\ OncePerPort(s)' /\ Abandoned(s)' /\ Closing(s)'
  <2>1. ResetLast(s)'
    BY ResetLastStep DEF EndInv
  <2>2. OncePerPort(s)'
    BY <1>1, SaidStep DEF EndInv
  <2>3. Abandoned(s)'
    BY <1>1, AbandonedStep DEF EndInv
  <2>4. Closing(s)'
    BY <1>1, ClosingStep DEF EndInv
  <2> QED BY <2>1, <2>2, <2>3, <2>4
<1>4. ASSUME NEW c \in Conns PROVE Ended(c)' /\ NoneLast(c)'
  BY <1>1, EndedStep, NoneLastStep DEF EndInv
<1>5. ASSUME NEW c \in Conns, NEW s \in Sports PROVE Left(c, s)'
  <2>1. Left(c, s) /\ Ledger(s) /\ OncePerPort(s) /\ Abandoned(s) /\ Closing(s) /\ NoneLast(c) /\ Ended(c)
    BY <1>1 DEF EndInv
  <2> QED BY <1>1, <2>1, LeftStep
<1> QED BY <1>2, <1>3, <1>4, <1>5 DEF EndInv

LEMMA EndInvAlways ==
  ASSUME PortsSuffice
  PROVE  Spec => [](DataInv /\ EndInv)
<1>1. DataInv /\ DataInv' /\ LedgerInv /\ EndInv /\ [Next /\ UNCHANGED load]_<<vars, load>> => EndInv'
  <2> SUFFICES ASSUME DataInv, DataInv', LedgerInv, EndInv, Next \/ UNCHANGED vars PROVE EndInv'
    BY DEF vars
  <2>1. CASE UNCHANGED vars
    <3>1. UNCHANGED <<mux, writerUp, connections, dataChan, toDevice, fromDevice, sportOf, pump, forwarder, user, device>>
      BY <2>1 DEF vars
    <3>2. Quiet' /\ \A s \in Sports : ResetLast(s)' /\ OncePerPort(s)' /\ Abandoned(s)' /\ Closing(s)'
      BY <3>1 DEF EndInv, Quiet, ResetLast, OncePerPort, ResetShut, OneAnswer, Abandoned, Closing, Connected
    <3>3. \A c \in Conns : Ended(c)' /\ NoneLast(c)' /\ \A s \in Sports : Left(c, s)'
      BY <3>1 DEF EndInv, Ended, AtEnd, NoneLast, Left, Out, OnPipe, Connected
    <3> QED BY <3>2, <3>3 DEF EndInv
  <2>2. CASE Next
    BY <2>2, EndInvStep
  <2> QED BY <2>1, <2>2
<1>2. Init => EndInv
  BY EndInvInit
<1>3. Spec => [](DataInv /\ LedgerInv)
  BY LedgerInvAlways
<1> QED BY <1>1, <1>2, <1>3, PTL DEF Spec

(* Frames without payload do not count. *)
LEMMA CarriedAfter ==
  ASSUME NEW q \in Seq(Outgoing), NEW s, NEW i \in Nat, i <= Len(q),
         \A j \in DOMAIN q : i < j /\ q[j].sport = s => q[j].len = 0
  PROVE  Carried(q, s, Len(q)) = Carried(q, s, i)
<1> DEFINE T == {n \in Nat : i + n <= Len(q) => Carried(q, s, i + n) = Carried(q, s, i)}
<1>0. Len(q) \in Nat /\ DOMAIN q = 1..Len(q) /\ i + 0 = i
  OBVIOUS
<1>1. 0 \in T
  BY <1>0
<1>2. ASSUME NEW n \in Nat, n \in T PROVE n + 1 \in T
  <2> SUFFICES ASSUME i + (n + 1) <= Len(q) PROVE Carried(q, s, i + (n + 1)) = Carried(q, s, i)
    BY <1>2
  <2> DEFINE m == i + n
  <2>1. m \in Nat /\ m < Len(q) /\ i + (n + 1) = m + 1 /\ i < m + 1 /\ m + 1 \in DOMAIN q /\ m <= Len(q)
    BY <1>0
  <2>2. Carried(q, s, m) = Carried(q, s, i)
    BY <1>2, <2>1
  <2> HIDE DEF m
  <2>3. Carried(q, s, m + 1) = Carried(q, s, m) + (IF q[m + 1].sport = s THEN q[m + 1].len ELSE 0)
    BY <2>1, CarriedStep
  <2>4. Carried(q, s, m) \in Nat
    BY <2>1, CarriedNat, LengthsOut
  <2>5. Carried(q, s, m + 1) = Carried(q, s, m)
    BY <2>1, <2>3, <2>4
  <2> QED BY <2>1, <2>2, <2>5
<1> HIDE DEF T
<1>3. \A n \in Nat : n \in T
  BY <1>1, <1>2, Induction
<1>4. Len(q) - i \in T
  BY <1>0, <1>3
<1>5. i + (Len(q) - i) = Len(q)
  BY <1>0
<1> QED BY <1>0, <1>4, <1>5 DEF T

LEMMA WholeIfEndInv == DataInv /\ EndInv => NoTruncation
<1> SUFFICES ASSUME DataInv, EndInv, mux = "running", writerUp,
                    NEW c \in Conns, NEW i \in DOMAIN toDevice,
                    user[c].side = "shut", toDevice[i].sport = sportOf[c],
                    toDevice[i].flags = "RST", device[sportOf[c]].open
             PROVE  user[c].given = device[sportOf[c]].rcvd + OnPipe(sportOf[c], i)
  BY DEF NoTruncation
<1>0. PICK s : s = sportOf[c]
  OBVIOUS
<1>1. toDevice \in Seq(Outgoing) /\ toDevice[i] \in Outgoing /\ i \in Nat /\ i <= Len(toDevice)
  BY DEF DataInv, PipeTypes
<1>2. s \in Sports
  BY <1>0, <1>1 DEF Outgoing
<1>3. /\ s \notin DOMAIN connections
      /\ \A j \in DOMAIN toDevice : i <= j /\ toDevice[j].sport = s => toDevice[j].len = 0
  BY <1>0, <1>2 DEF EndInv, ResetLast
<1>4. \A j \in DOMAIN toDevice : i < j /\ toDevice[j].sport = s => toDevice[j].len = 0
  BY <1>1, <1>3
<1>5. Out(s) = OnPipe(s, i)
  BY <1>1, <1>4, CarriedAfter DEF Out, OnPipe
<1>6. Left(c, s) /\ ~Connected(s)
  BY <1>2, <1>3 DEF EndInv, Connected
<1>7. user[c].given = device[s].rcvd + Out(s)
  BY <1>0, <1>6 DEF Left
<1> QED BY <1>0, <1>5, <1>7
-----------------------------------------------------------------------------
(* What a sender may send: o bytes of it are on the pipe and the receiver, *)
(* whose buffer has W bytes, holds h; the receiver takes it from ack on    *)
(* for win bytes, and so it does for every packet that is still to come.   *)

Fits(W, seq, ack, win, o, h) ==
  o <= Lag(seq, ack) /\ o + h + win - Lag(seq, ack) <= W

Grants(W, seq, ack, win, G, s, o, h) ==
  /\ Fits(W, seq, ack, win, o, h)
  /\ \A i \in DOMAIN G : G[i].sport = s =>
       Fits(W, seq, G[i].ack, G[i].win, o, h) /\ Lag(seq, G[i].ack) <= Lag(seq, ack)
  /\ \A i, j \in DOMAIN G : i < j /\ G[i].sport = s /\ G[j].sport = s =>
       Lag(seq, G[j].ack) <= Lag(seq, G[i].ack)

Grant(P) == \A x \in P : x.ack \in Numbers /\ x.win \in Int

LEMMA FitsSend ==
  ASSUME NEW W \in Int, NEW seq \in Numbers, NEW x \in Numbers, NEW w \in Int, NEW o \in Nat, NEW h \in Nat,
         Fits(W, seq, x, w, o, h), NEW n \in Nat, Lag(seq, x) + n < SeqSpace
  PROVE  Fits(W, (seq + n) % SeqSpace, x, w, o + n, h)
<1>1. Lag((seq + n) % SeqSpace, x) = Lag(seq, x) + n
  BY LagShift
<1>2. Lag(seq, x) \in Int
  BY LagRange DEF Numbers
<1> DEFINE k == Lag((seq + n) % SeqSpace, x)
<1> HIDE DEF k
<1>3. k = Lag(seq, x) + n
  BY <1>1 DEF k
<1>4. o + n <= k /\ o + n + h + w - k <= W
  BY <1>2, <1>3 DEF Fits
<1> QED BY <1>4 DEF Fits, k

LEMMA GrantsSend ==
  ASSUME NEW W \in Int, NEW seq \in Numbers, NEW ack \in Numbers, NEW win \in Int, win < SeqSpace,
         NEW P, Grant(P), NEW G \in Seq(P), NEW s, NEW o \in Nat, NEW h \in Nat,
         Grants(W, seq, ack, win, G, s, o, h),
         NEW n \in Nat, n = 0 \/ n <= win - Lag(seq, ack)
  PROVE  /\ Grants(W, (seq + n) % SeqSpace, ack, win, G, s, o + n, h)
         /\ n > 0 => o + n + h <= W
<1>1. Lag(seq, ack) \in Numbers
  BY LagRange
<1>2. Lag(seq, ack) + n < SeqSpace
  BY <1>1, Sizes DEF Numbers
<1>3. ASSUME NEW i \in DOMAIN G
      PROVE  G[i].ack \in Numbers /\ Lag(seq, G[i].ack) \in Numbers /\ G[i].win \in Int
  <2>1. G[i] \in P
    OBVIOUS
  <2>2. G[i].ack \in Numbers /\ G[i].win \in Int
    BY <2>1 DEF Grant
  <2> QED BY <2>2, LagRange
<1>4. ASSUME NEW i \in DOMAIN G, G[i].sport = s
      PROVE  Lag(seq, G[i].ack) <= Lag(seq, ack) /\ Lag(seq, G[i].ack) + n < SeqSpace
  <2> DEFINE a == Lag(seq, G[i].ack)
             b == Lag(seq, ack)
  <2>1. a <= b
    BY <1>4 DEF Grants
  <2>2. a \in Numbers /\ b \in Numbers /\ b + n < SeqSpace
    BY <1>1, <1>2, <1>3
  <2> HIDE DEF a, b
  <2>3. a <= b /\ a + n < SeqSpace
    BY <2>1, <2>2, Sizes DEF Numbers
  <2> QED BY <2>3 DEF a, b
<1> DEFINE z == (seq + n) % SeqSpace
<1>5. ASSUME NEW i \in DOMAIN G, G[i].sport = s
      PROVE  /\ Lag(z, G[i].ack) = Lag(seq, G[i].ack) + n
             /\ Fits(W, z, G[i].ack, G[i].win, o + n, h)
  <2>1. Fits(W, seq, G[i].ack, G[i].win, o, h)
    BY <1>5 DEF Grants
  <2> QED BY <1>3, <1>4, <1>5, <2>1, LagShift, FitsSend
<1>6. Lag(z, ack) = Lag(seq, ack) + n /\ Fits(W, z, ack, win, o + n, h)
  <2>1. Fits(W, seq, ack, win, o, h)
    BY DEF Grants
  <2> QED BY <1>2, <2>1, LagShift, FitsSend
<1>7. n > 0 => o + n + h <= W
  <2>1. o + h + win - Lag(seq, ack) <= W
    BY DEF Grants, Fits
  <2> QED BY <1>1, <2>1, Sizes DEF Numbers
<1> HIDE DEF z
<1>8. \A i \in DOMAIN G : G[i].sport = s => Lag(z, G[i].ack) <= Lag(z, ack)
  BY <1>1, <1>3, <1>4, <1>5, <1>6 DEF Numbers
<1>9. \A i, j \in DOMAIN G : i < j /\ G[i].sport = s /\ G[j].sport = s =>
        Lag(z, G[j].ack) <= Lag(z, G[i].ack)
  <2> SUFFICES ASSUME NEW i \in DOMAIN G, NEW j \in DOMAIN G, i < j, G[i].sport = s, G[j].sport = s
               PROVE  Lag(z, G[j].ack) <= Lag(z, G[i].ack)
    OBVIOUS
  <2>1. Lag(seq, G[j].ack) <= Lag(seq, G[i].ack)
    BY DEF Grants
  <2>2. Lag(seq, G[j].ack) \in Int /\ Lag(seq, G[i].ack) \in Int
    BY <1>3 DEF Numbers
  <2> QED BY <1>5, <2>1, <2>2
<1>10. Grants(W, z, ack, win, G, s, o + n, h)
  BY <1>5, <1>6, <1>8, <1>9 DEF Grants
<1> QED BY <1>7, <1>10 DEF z

LEMMA GrantsLess ==
  ASSUME NEW W \in Int, NEW seq \in Numbers, NEW ack \in Numbers, NEW win \in Int, NEW P, Grant(P), NEW G \in Seq(P),
         NEW s, NEW o \in Nat, NEW h \in Nat, NEW o2 \in Nat, NEW h2 \in Nat,
         Grants(W, seq, ack, win, G, s, o, h), o2 <= o, o2 + h2 <= o + h
  PROVE  Grants(W, seq, ack, win, G, s, o2, h2)
<1>1. \A x \in Numbers, w \in Int : Fits(W, seq, x, w, o, h) => Fits(W, seq, x, w, o2, h2)
  <2> TAKE x \in Numbers, w \in Int
  <2>1. Lag(seq, x) \in Int
    BY LagRange DEF Numbers
  <2> QED BY <2>1 DEF Fits
<1>2. \A i \in DOMAIN G : G[i].ack \in Numbers /\ G[i].win \in Int
  <2> TAKE i \in DOMAIN G
  <2>1. G[i] \in P
    OBVIOUS
  <2> QED BY <2>1 DEF Grant
<1>3. Fits(W, seq, ack, win, o2, h2)
  BY <1>1 DEF Grants
<1>4. \A i \in DOMAIN G : G[i].sport = s =>
       Fits(W, seq, G[i].ack, G[i].win, o2, h2) /\ Lag(seq, G[i].ack) <= Lag(seq, ack)
  BY <1>1, <1>2 DEF Grants
<1>5. \A i, j \in DOMAIN G : i < j /\ G[i].sport = s /\ G[j].sport = s =>
       Lag(seq, G[j].ack) <= Lag(seq, G[i].ack)
  BY DEF Grants
<1> QED BY <1>3, <1>4, <1>5 DEF Grants

LEMMA GrantsFewer ==
  ASSUME NEW W, NEW seq, NEW ack, NEW win, NEW G, NEW s, NEW o, NEW h, NEW P, NEW G2 \in Seq(P),
         Grants(W, seq, ack, win, G, s, o, h), Among(G2, G, s)
  PROVE  Grants(W, seq, ack, win, G2, s, o, h)
<1>1. PICK k \in Nat : \A j \in DOMAIN G2 : G2[j].sport = s => j + k \in DOMAIN G /\ G2[j] = G[j + k]
  BY DEF Among
<1>2. \A i \in DOMAIN G2 : G2[i].sport = s =>
        Fits(W, seq, G2[i].ack, G2[i].win, o, h) /\ Lag(seq, G2[i].ack) <= Lag(seq, ack)
  BY <1>1 DEF Grants
<1>3. \A i, j \in DOMAIN G2 : i < j /\ G2[i].sport = s /\ G2[j].sport = s =>
        Lag(seq, G2[j].ack) <= Lag(seq, G2[i].ack)
  <2> SUFFICES ASSUME NEW i \in DOMAIN G2, NEW j \in DOMAIN G2, i < j,
                      G2[i].sport = s, G2[j].sport = s
               PROVE  Lag(seq, G2[j].ack) <= Lag(seq, G2[i].ack)
    OBVIOUS
  <2>1. i + k \in DOMAIN G /\ j + k \in DOMAIN G /\ i + k < j + k
    BY <1>1
  <2>2. G2[i] = G[i + k] /\ G2[j] = G[j + k]
    BY <1>1
  <2> QED BY <2>1, <2>2 DEF Grants
<1>4. Fits(W, seq, ack, win, o, h)
  BY DEF Grants
<1> QED BY <1>2, <1>3, <1>4 DEF Grants

(* The first packet is heard. *)
LEMMA GrantsHeard ==
  ASSUME NEW W, NEW seq, NEW ack, NEW win, NEW s, NEW o, NEW h, NEW P, NEW G \in Seq(P), G # <<>>,
         Grants(W, seq, ack, win, G, s, o, h), Head(G).sport = s
  PROVE  Grants(W, seq, Head(G).ack, Head(G).win, Tail(G), s, o, h)
<1>1. /\ Head(G) = G[1] /\ 1 \in DOMAIN G /\ Tail(G) \in Seq(P)
      /\ \A j \in DOMAIN Tail(G) : j + 1 \in DOMAIN G /\ Tail(G)[j] = G[j + 1] /\ 1 < j + 1
  OBVIOUS
<1> DEFINE T == Tail(G)
<1>2. Among(T, G, s)
  BY <1>1 DEF Among
<1>3. Grants(W, seq, ack, win, T, s, o, h)
  <2>1. T \in Seq(P)
    BY <1>1
  <2> HIDE DEF T
  <2> QED BY <1>2, <2>1, GrantsFewer
<1>4. Fits(W, seq, Head(G).ack, Head(G).win, o, h)
  BY <1>1 DEF Grants
<1>5. \A i \in DOMAIN T : T[i].sport = s => Lag(seq, T[i].ack) <= Lag(seq, Head(G).ack)
  BY <1>1 DEF Grants
<1> HIDE DEF T
<1>6. Grants(W, seq, Head(G).ack, Head(G).win, T, s, o, h)
  BY <1>3, <1>4, <1>5 DEF Grants
<1> QED BY <1>6 DEF T

(* The receiver tells what it took and has room for. *)
LEMMA GrantsTold ==
  ASSUME NEW W \in Int, NEW seq \in Numbers, NEW ack \in Numbers, NEW win, NEW s, NEW o \in Nat, NEW h \in Nat,
         NEW P, Grant(P), NEW G \in Seq(P), Grants(W, seq, ack, win, G, s, o, h), NEW Q \in Seq(P),
         \A i \in DOMAIN Q : Q[i].sport = s => Lag(seq, Q[i].ack) = o /\ Q[i].win <= W - h
  PROVE  Grants(W, seq, ack, win, G \o Q, s, o, h)
<1> DEFINE H == G \o Q
<1>0. H \in Seq(P)
  OBVIOUS
<1>1. \A i \in DOMAIN H : /\ i \in Int
                          /\ \/ i \in DOMAIN G /\ H[i] = G[i] /\ i <= Len(G)
                             \/ i - Len(G) \in DOMAIN Q /\ H[i] = Q[i - Len(G)] /\ i > Len(G)
  <2>1. DOMAIN H = 1..(Len(G) + Len(Q)) /\ DOMAIN G = 1..Len(G) /\ DOMAIN Q = 1..Len(Q)
        /\ Len(G) \in Nat /\ Len(Q) \in Nat
    OBVIOUS
  <2>2. \A i \in DOMAIN H : (i \in DOMAIN G /\ H[i] = G[i]) \/ (i - Len(G) \in DOMAIN Q /\ H[i] = Q[i - Len(G)])
    BY Joined
  <2> HIDE DEF H
  <2> QED BY <2>1, <2>2
<1> HIDE DEF H
<1>2. ASSUME NEW x \in P, x.sport = s, Lag(seq, x.ack) = o, x.win <= W - h
      PROVE  Fits(W, seq, x.ack, x.win, o, h)
  <2>1. x.win \in Int
    BY DEF Grant
  <2> QED BY <1>2, <2>1 DEF Fits
<1>3. o <= Lag(seq, ack) /\ \A i \in DOMAIN G : G[i].sport = s => o <= Lag(seq, G[i].ack)
  BY DEF Grants, Fits
<1>4. ASSUME NEW i \in DOMAIN H, H[i].sport = s, ~(i \in DOMAIN G /\ H[i] = G[i])
      PROVE  Lag(seq, H[i].ack) = o /\ Fits(W, seq, H[i].ack, H[i].win, o, h) /\ i > Len(G)
  <2>1. i - Len(G) \in DOMAIN Q /\ H[i] = Q[i - Len(G)] /\ i > Len(G)
    BY <1>1, <1>4
  <2>2. H[i] \in P
    BY <1>0
  <2> QED BY <1>2, <1>4, <2>1, <2>2
<1>5. \A i \in DOMAIN H : H[i].sport = s =>
        Fits(W, seq, H[i].ack, H[i].win, o, h) /\ Lag(seq, H[i].ack) <= Lag(seq, ack)
  BY <1>3, <1>4 DEF Grants
<1>6. \A i, j \in DOMAIN H : i < j /\ H[i].sport = s /\ H[j].sport = s =>
        Lag(seq, H[j].ack) <= Lag(seq, H[i].ack)
  <2> SUFFICES ASSUME NEW i \in DOMAIN H, NEW j \in DOMAIN H, i < j, H[i].sport = s, H[j].sport = s
               PROVE  Lag(seq, H[j].ack) <= Lag(seq, H[i].ack)
    OBVIOUS
  <2>1. CASE j \in DOMAIN G /\ H[j] = G[j]
    <3>0. DOMAIN G = 1..Len(G) /\ Len(G) \in Nat
      OBVIOUS
    <3>1. j <= Len(G)
      BY <2>1, <3>0
    <3>2. i \in DOMAIN G /\ H[i] = G[i]
      BY <1>1, <1>4, <2>1, <3>1
    <3> QED BY <2>1, <3>2 DEF Grants
  <2>2. CASE ~(j \in DOMAIN G /\ H[j] = G[j])
    <3>1. Lag(seq, H[j].ack) = o
      BY <1>4, <2>2
    <3>2. CASE i \in DOMAIN G /\ H[i] = G[i]
      BY <1>3, <3>1, <3>2
    <3>3. CASE ~(i \in DOMAIN G /\ H[i] = G[i])
      <4>1. Lag(seq, H[i].ack) = o
        BY <1>4, <3>3
      <4> QED BY <3>1, <4>1
    <3> QED BY <3>2, <3>3
  <2> QED BY <2>1, <2>2
<1>7. Grants(W, seq, ack, win, H, s, o, h)
  BY <1>5, <1>6 DEF Grants
<1> QED BY <1>7 DEF H
-----------------------------------------------------------------------------
(* What the mux task does with the bytes of the device for port s: nothing, *)
(* it hears that some were drained, or it hands some to the forwarder.      *)

Leaves(s) ==
  /\ connections'[s].txAck = connections[s].txAck
  /\ connections'[s].rxBuffered = connections[s].rxBuffered
  /\ \/ fromDevice' = fromDevice
     \/ fromDevice # <<>> /\ fromDevice' = Tail(fromDevice) /\ (pkt.sport = s => pkt.len = 0)
  /\ \/ drainChan' = drainChan
     \/ drainChan # <<>> /\ drainChan' = Tail(drainChan) /\ Head(drainChan)[1] # s
  /\ Connected(s) => forwarder'[connections[s].client] = forwarder[connections[s].client]

Drains(s) ==
  /\ connections'[s].txAck = connections[s].txAck
  /\ connections'[s].rxBuffered = Less(connections[s].rxBuffered, Head(drainChan)[2])
  /\ fromDevice' = fromDevice /\ forwarder' = forwarder
  /\ drainChan # <<>> /\ drainChan' = Tail(drainChan) /\ Head(drainChan)[1] = s

HandsOn(s) ==
  /\ Connected(s) /\ drainChan' = drainChan
  /\ fromDevice # <<>> /\ fromDevice' = Tail(fromDevice) /\ pkt.sport = s /\ pkt.len > 0
  /\ connections'[s].txAck = (connections[s].txAck + pkt.len) % SeqSpace
  /\ connections'[s].rxBuffered = connections[s].rxBuffered + pkt.len
  /\ forwarder' = [forwarder EXCEPT ![connections[s].client].queue = Append(@, pkt.len)]

Buffers(s) ==
  s \in DOMAIN connections' =>
    /\ s \in DOMAIN connections /\ connections'[s].state = connections[s].state
    /\ connections'[s].client = connections[s].client
    /\ Leaves(s) \/ Drains(s) \/ HandsOn(s)

(* The other connections stay. *)
LEMMA OthersLeft ==
  ASSUME NEW p, Stays(p), NEW s, s # p, s \in DOMAIN connections',
         \/ fromDevice' = fromDevice
         \/ fromDevice # <<>> /\ fromDevice' = Tail(fromDevice) /\ (pkt.sport = s => pkt.len = 0),
         \/ drainChan' = drainChan
         \/ drainChan # <<>> /\ drainChan' = Tail(drainChan) /\ Head(drainChan)[1] # s,
         Connected(s) => forwarder'[connections[s].client] = forwarder[connections[s].client]
  PROVE  Buffers(s)
<1>1. s \in DOMAIN connections /\ connections'[s] = connections[s]
  BY DEF Stays
<1> QED BY <1>1 DEF Buffers, Leaves

LEMMA FlushedLeaves ==
  ASSUME DataInv, NEW p \in DOMAIN connections, NEW conn \in Connection,
         conn.txAck = connections[p].txAck, conn.rxBuffered = connections[p].rxBuffered,
         conn.state = connections[p].state, conn.client = connections[p].client,
         connections' = [connections EXCEPT ![p] = Flushed(conn)],
         UNCHANGED <<fromDevice, drainChan, forwarder>>, NEW s
  PROVE  Buffers(s)
<1> DEFINE next == Flushed(conn)
<1>1. /\ next.txAck = conn.txAck /\ next.rxBuffered = conn.rxBuffered
      /\ next.state = conn.state /\ next.client = conn.client
  BY FlushedFields, FlushedMore
<1> HIDE DEF next
<1>2. Stays(p) /\ connections'[p] = next
  BY <1>1, StaysSame DEF next
<1>3. CASE s = p /\ s \in DOMAIN connections'
  BY <1>1, <1>2, <1>3 DEF Buffers, Leaves
<1>4. CASE s # p /\ s \in DOMAIN connections'
  BY <1>2, <1>4, OthersLeft
<1> QED BY <1>3, <1>4 DEF Buffers

LEMMA TornLeaves ==
  ASSUME NEW p \in DOMAIN connections, Teardown(p), UNCHANGED <<drainChan, forwarder>>,
         \/ fromDevice' = fromDevice
         \/ fromDevice # <<>> /\ fromDevice' = Tail(fromDevice) /\ pkt.sport = p,
         NEW s
  PROVE  Buffers(s)
<1>1. Stays(p) /\ p \notin DOMAIN connections'
  BY StaysTorn, Torn
<1>2. CASE s # p /\ s \in DOMAIN connections'
  BY <1>1, <1>2, OthersLeft
<1> QED BY <1>1, <1>2 DEF Buffers

LEMMA DataBuffers ==
  ASSUME DataInv, DataStep, NEW s
  PROVE  Buffers(s)
<1>1. UNCHANGED <<fromDevice, drainChan, forwarder>>
  BY DEF DataStep, DataIgnored, DataFromPump, ClientClosed, TakeData
<1>2. CASE DataIgnored
  BY <1>1, <1>2 DEF DataIgnored, Buffers, Leaves
<1>3. CASE DataFromPump
  <2>0. PICK p : p = Head(dataChan)[1]
    OBVIOUS
  <2> DEFINE n == Head(dataChan)[2]
             old == connections[p]
             conn == [old EXCEPT !.pending = @ + n]
  <2>1. /\ TakeData /\ Connected(p)
        /\ connections' = [connections EXCEPT ![p] = Flushed(conn)] \/ Teardown(p)
    BY <1>3, <2>0 DEF DataFromPump
  <2>2. p \in DOMAIN connections /\ old \in Connection /\ n \in Nat
    BY <2>1, PortUp, TakesFirst DEF DataInv
  <2>3. conn \in Connection /\ conn.client = old.client /\ conn.state = old.state
        /\ conn.txAck = old.txAck /\ conn.rxBuffered = old.rxBuffered
    <3> HIDE DEF n, old
    <3>1. conn \in Connection /\ conn.client = old.client /\ conn.state = old.state
      BY <2>2, ShiftedFields
    <3>2. conn.txAck = old.txAck /\ conn.rxBuffered = old.rxBuffered
      BY <2>2 DEF Connection
    <3> QED BY <3>1, <3>2
  <2> HIDE DEF conn
  <2> QED BY <1>1, <2>1, <2>2, <2>3, FlushedLeaves, TornLeaves
<1>4. CASE ClientClosed
  <2>0. PICK p : p = Head(dataChan)[1]
    OBVIOUS
  <2> DEFINE old == connections[p]
             conn == [old EXCEPT !.clientClosed = TRUE]
  <2>1. /\ Connected(p)
        /\ connections' = [connections EXCEPT ![p] = Flushed(conn)] \/ Teardown(p)
    BY <1>4, <2>0 DEF ClientClosed
  <2>2. p \in DOMAIN connections /\ old \in Connection
    BY <2>1, PortUp
  <2>3. conn \in Connection /\ conn.client = old.client /\ conn.state = old.state
        /\ conn.txAck = old.txAck /\ conn.rxBuffered = old.rxBuffered
    <3> HIDE DEF old
    <3> QED BY <2>2 DEF Connection
  <2> HIDE DEF conn
  <2> QED BY <1>1, <2>1, <2>2, <2>3, FlushedLeaves, TornLeaves
<1> QED BY <1>2, <1>3, <1>4 DEF DataStep

LEMMA DrainedBuffers ==
  ASSUME DataInv, Drained, NEW s
  PROVE  Buffers(s)
<1>0. PICK p : p = Head(drainChan)[1]
  OBVIOUS
<1> DEFINE old == connections[p]
           held == Less(old.rxBuffered, Head(drainChan)[2])
           conn == [old EXCEPT !.rxBuffered = held]
<1>1. /\ drainChan # <<>> /\ drainChan' = Tail(drainChan) /\ UNCHANGED <<fromDevice, forwarder>>
      /\ IF p \in DOMAIN connections THEN connections' = [connections EXCEPT ![p] = conn]
         ELSE connections' = connections
  BY <1>0 DEF Drained
<1>2. CASE p \notin DOMAIN connections
  <2>1. CASE s \in DOMAIN connections
    BY <1>0, <1>1, <1>2, <2>1 DEF Buffers, Leaves
  <2> QED BY <1>1, <1>2, <2>1 DEF Buffers
<1>3. CASE p \in DOMAIN connections
  <2>1. old \in Connection
    BY <1>3 DEF DataInv, UploadInv, StateInv, ConnectionTypes
  <2>2. conn.client = old.client /\ conn.state = old.state /\ conn.txAck = old.txAck
        /\ conn.rxBuffered = held
    <3> HIDE DEF held, old
    <3> QED BY <2>1 DEF Connection
  <2> HIDE DEF conn
  <2>3. Stays(p) /\ connections'[p] = conn /\ p \in DOMAIN connections'
    BY <1>1, <1>3, <2>2, StaysSame
  <2>4. CASE s = p
    BY <1>0, <1>1, <1>3, <2>2, <2>3, <2>4 DEF Buffers, Drains
  <2>5. CASE s # p /\ s \in DOMAIN connections'
    BY <1>0, <1>1, <2>3, <2>5, OthersLeft
  <2> QED BY <2>4, <2>5 DEF Buffers
<1> QED BY <1>2, <1>3

LEMMA ReceivedBuffers ==
  ASSUME DataInv, Received, NEW s
  PROVE  Buffers(s)
<1>0. PICK p : p = pkt.sport
  OBVIOUS
<1> DEFINE old == connections[p]
           conn == [Heard EXCEPT !.rxBuffered = @ + pkt.len, !.txAck = (@ + pkt.len) % SeqSpace]
           next == Flushed(conn)
           lost == IF pkt.len > 0 THEN 0 ELSE Least(MaxPayload, Sendable(conn))
           stuck == [conn EXCEPT !.pending = @ - lost]
<1>1. /\ TakePacket /\ Connected(p) /\ fromDevice # <<>> /\ fromDevice' = Tail(fromDevice) /\ drainChan' = drainChan
      /\ forwarder' = IF pkt.len > 0 THEN [forwarder EXCEPT ![Heard.client].queue = Append(@, pkt.len)]
                      ELSE forwarder
      /\ \/ Teardown(p)
         \/ connections' = [connections EXCEPT ![p] = next]
         \/ connections' = [connections EXCEPT ![p] = stuck]
  BY <1>0 DEF Received, TakePacket
<1>2. p \in Sports /\ pkt \in Incoming /\ pkt.len \in Nat
  <2>1. pkt \in Incoming /\ pkt.sport \in Sports
    BY <1>1, PacketIn
  <2> QED BY <1>0, <2>1 DEF Incoming
<1>3. /\ p \in DOMAIN connections /\ old \in Connection
      /\ Heard \in Connection /\ Heard.state = old.state /\ Heard.client = old.client
      /\ Heard.txAck = old.txAck /\ Heard.rxBuffered = old.rxBuffered
  <2>1. p \in DOMAIN connections /\ old \in Connection
    BY <1>1, PortUp
  <2>2. /\ Heard \in Connection /\ Heard.state = old.state /\ Heard.client = old.client
    BY <1>0, <1>1, <2>1, HeardIs
  <2>3. Heard.txAck = old.txAck /\ Heard.rxBuffered = old.rxBuffered
    BY <1>0, <2>1 DEF Heard, Connection
  <2> QED BY <2>1, <2>2, <2>3
<1>4. /\ conn \in Connection /\ conn.state = old.state /\ conn.client = old.client
      /\ conn.txAck = (old.txAck + pkt.len) % SeqSpace /\ conn.rxBuffered = old.rxBuffered + pkt.len
  <2>1. conn \in Connection /\ conn.state = old.state /\ conn.client = old.client
    BY <1>2, <1>3, ReceivedFields
  <2> DEFINE H == Heard
             ack == (H.txAck + pkt.len) % SeqSpace
             held == H.rxBuffered + pkt.len
  <2>2. conn = [H EXCEPT !.rxBuffered = held, !.txAck = ack] /\ H \in Connection
    BY <1>3
  <2>3. ack = (old.txAck + pkt.len) % SeqSpace /\ held = old.rxBuffered + pkt.len
    BY <1>3
  <2> HIDE DEF H, ack, held, conn
  <2>4. conn.txAck = ack /\ conn.rxBuffered = held
    BY <2>2 DEF Connection
  <2> QED BY <2>1, <2>3, <2>4
<1>5. /\ stuck.state = old.state /\ stuck.client = old.client
      /\ stuck.txAck = conn.txAck /\ stuck.rxBuffered = conn.rxBuffered
  <2> HIDE DEF conn, lost, old
  <2> QED BY <1>4 DEF Connection
<1>6. /\ next.state = old.state /\ next.client = old.client
      /\ next.txAck = conn.txAck /\ next.rxBuffered = conn.rxBuffered
  BY <1>4, FlushedFields, FlushedMore
<1> HIDE DEF stuck, next, lost, conn
<1>7. CASE s # p /\ s \in DOMAIN connections'
  <2>1. Stays(p)
    BY <1>1, <1>3, <1>5, <1>6, StaysSame, StaysTorn
  <2>2. s \in DOMAIN connections
    BY <1>7, <2>1 DEF Stays
  <2>3. connections[s].client # old.client
    BY <1>3, <1>7, <2>2 DEF DataInv, UploadInv, StateInv, Tokens
  <2>4. forwarder'[connections[s].client] = forwarder[connections[s].client]
    <3>1. forwarder \in [Conns -> ForwarderType] /\ connections[s].client \in Conns
      BY <2>2 DEF DataInv, UploadInv, ChannelTypes, ForwarderType, StateInv, ConnectionTypes, Connection
    <3> QED BY <1>1, <1>3, <2>3, <3>1
  <2> QED BY <1>0, <1>1, <1>7, <2>1, <2>4, OthersLeft
<1>8. CASE s = p /\ s \in DOMAIN connections'
  <2>1. PICK then : /\ connections' = [connections EXCEPT ![p] = then]
                    /\ then.state = old.state /\ then.client = old.client
                    /\ then.txAck = conn.txAck /\ then.rxBuffered = conn.rxBuffered
    <3>1. ~Teardown(p)
      BY <1>3, <1>8, Torn
    <3> QED BY <1>1, <1>5, <1>6, <3>1
  <2>2. connections'[p] = then
    BY <1>3, <2>1
  <2>3. CASE pkt.len > 0
    BY <1>0, <1>1, <1>3, <1>4, <1>8, <2>1, <2>2, <2>3 DEF Buffers, HandsOn
  <2>4. CASE pkt.len = 0
    <3>1. old.txAck \in Numbers /\ old.rxBuffered \in Nat
      BY <1>3 DEF Connection
    <3>2. (old.txAck + 0) % SeqSpace = old.txAck /\ old.rxBuffered + 0 = old.rxBuffered
      <4>1. old.txAck + 0 = old.txAck
        BY <3>1 DEF Numbers
      <4> QED BY <3>1, <4>1, ModSmall
    <3>3. forwarder' = forwarder
      BY <1>1, <2>4
    <3> QED BY <1>0, <1>1, <1>3, <1>4, <1>8, <2>1, <2>2, <2>4, <3>2, <3>3 DEF Buffers, Leaves
  <2> QED BY <1>2, <2>3, <2>4
<1> QED BY <1>7, <1>8, SMTT(30) DEF Buffers

LEMMA MovingBuffers ==
  ASSUME DataInv, Moving, NEW s
  PROVE  Buffers(s)
<1>1. CASE UnknownConnection
  <2>1. /\ TakePacket /\ KeepTasks /\ connections' = connections /\ pkt.sport \notin DOMAIN connections
    BY <1>1 DEF UnknownConnection
  <2>2. fromDevice # <<>> /\ fromDevice' = Tail(fromDevice) /\ UNCHANGED <<drainChan, forwarder>>
    BY <2>1 DEF TakePacket, KeepTasks
  <2>3. CASE s \in DOMAIN connections
    BY <2>1, <2>2, <2>3 DEF Buffers, Leaves
  <2> QED BY <2>1, <2>3 DEF Buffers
<1>2. CASE Refused \/ Undeliverable
  <2>1. /\ TakePacket /\ KeepTasks /\ Teardown(pkt.sport) /\ pkt.sport \in DOMAIN connections
    BY <1>2 DEF Refused, Undeliverable, Connected
  <2>2. fromDevice # <<>> /\ fromDevice' = Tail(fromDevice) /\ UNCHANGED <<drainChan, forwarder>>
    BY <2>1 DEF TakePacket, KeepTasks
  <2> QED BY <2>1, <2>2, TornLeaves
<1> QED BY <1>1, <1>2, DataBuffers, DrainedBuffers, ReceivedBuffers DEF Moving
-----------------------------------------------------------------------------
(* Bytes on their way to the task, and the number of the device's next.    *)

In(s) == Carried(fromDevice, s, Len(fromDevice))
SentNo(s) == (1 + device[s].sent) % SeqSpace

LEMMA LengthsIn == \A x \in Incoming : x.len \in Nat
<1> QED BY DEF Incoming

LEMMA InNat ==
  ASSUME PipeTypes, NEW s
  PROVE  In(s) \in Nat
<1>1. fromDevice \in Seq(Incoming) /\ Len(fromDevice) \in Nat /\ Len(fromDevice) <= Len(fromDevice)
  BY DEF PipeTypes
<1> QED BY <1>1, LengthsIn, CarriedNat DEF In

LEMMA InNatNext ==
  ASSUME PipeTypes', NEW s
  PROVE  In(s)' \in Nat
<1>1. PICK q : q = fromDevice' /\ q \in Seq(Incoming)
  BY DEF PipeTypes
<1>2. Len(q) \in Nat /\ Len(q) <= Len(q)
  BY <1>1
<1>3. Carried(q, s, Len(q)) \in Nat
  BY <1>1, <1>2, LengthsIn, CarriedNat
<1> QED BY <1>1, <1>3 DEF In

LEMMA InTaken ==
  ASSUME PipeTypes, fromDevice # <<>>, fromDevice' = Tail(fromDevice), NEW s
  PROVE  /\ In(s) = (IF pkt.sport = s THEN pkt.len ELSE 0) + In(s)'
         /\ pkt \in Incoming /\ pkt.len \in Nat /\ In(s)' \in Nat
<1> DEFINE q == fromDevice
           t == Tail(q)
           n == Len(t)
<1>1. q \in Seq(Incoming) /\ q # <<>> /\ Head(q) \in Incoming
  BY DEF PipeTypes
<1>2. t \in Seq(Incoming) /\ n \in Nat /\ n + 1 = Len(q) /\ n < Len(q) /\ n <= n
  BY <1>1
<1>3. Carried(q, s, n + 1) = (IF Head(q).sport = s THEN Head(q).len ELSE 0) + Carried(t, s, n)
  <2> HIDE DEF q, n
  <2> QED BY <1>1, <1>2, LengthsIn, CarriedTaken
<1>4. Carried(t, s, n) \in Nat
  <2> HIDE DEF t
  <2> QED BY <1>2, LengthsIn, CarriedNat
<1> QED BY <1>1, <1>2, <1>3, <1>4, LengthsIn DEF In, pkt

LEMMA InPut ==
  ASSUME PipeTypes, NEW G \in Seq(Incoming), fromDevice' = fromDevice \o G, NEW s
  PROVE  /\ In(s)' = In(s) + Carried(G, s, Len(G))
         /\ (\A i \in DOMAIN G : G[i].sport = s => G[i].len = 0) => Carried(G, s, Len(G)) = 0
<1> DEFINE q == fromDevice
           r == q \o G
           k == Len(G)
<1>1. q \in Seq(Incoming) /\ k \in Nat /\ k <= Len(G) /\ Len(q) \in Nat /\ Len(r) = Len(q) + k
      /\ DOMAIN G = 1..k
  BY DEF PipeTypes
<1>2. \A j \in Nat : j <= Len(G) => Carried(q \o G, s, Len(q) + j) = Carried(q, s, Len(q)) + Carried(G, s, j)
  <2>1. q \in Seq(Incoming) /\ \A x \in Incoming : x.len \in Nat
    BY <1>1, LengthsIn
  <2> HIDE DEF q
  <2> QED BY <2>1, CarriedMore
<1>3. Carried(r, s, Len(q) + k) = Carried(q, s, Len(q)) + Carried(G, s, k)
  <2> HIDE DEF q
  <2> QED BY <1>1, <1>2
<1>4. ASSUME \A i \in DOMAIN G : G[i].sport = s => G[i].len = 0
      PROVE  Carried(G, s, k) = 0
  BY <1>1, <1>4, CarriedNone
<1> QED BY <1>1, <1>3, <1>4 DEF In
-----------------------------------------------------------------------------
(* A device that is not answered yet has sent nothing, and was granted     *)
(* nothing: only the frame that opens can be on the pipe.                  *)
NoneIn(s) == \A i \in DOMAIN fromDevice : fromDevice[i].sport = s => fromDevice[i].len = 0
OnlySyn(s) == \A i \in DOMAIN toDevice : toDevice[i].sport = s => toDevice[i].flags = "SYN"

Hushed(s) ==
  Connecting(s) =>
    /\ device[s].sent = 0 /\ device[s].ack = 0 /\ device[s].win = 0
    /\ NoneIn(s) /\ OnlySyn(s)
    /\ connections[s].rxBuffered = 0 /\ (writerUp => connections[s].txAck = 0)

LEMMA InIfNone ==
  ASSUME PipeTypes, NEW s, NoneIn(s)
  PROVE  In(s) = 0
<1>1. fromDevice \in Seq(Incoming) /\ Len(fromDevice) \in Nat /\ Len(fromDevice) <= Len(fromDevice)
      /\ DOMAIN fromDevice = 1..Len(fromDevice)
  BY DEF PipeTypes
<1> QED BY <1>1, CarriedNone DEF In, NoneIn

LEMMA NoneFewer ==
  ASSUME NEW s, NoneIn(s), Among(fromDevice', fromDevice, s)
  PROVE  NoneIn(s)'
<1> QED BY DEF NoneIn, Among

LEMMA SynFewer ==
  ASSUME NEW s, OnlySyn(s), Among(toDevice', toDevice, s)
  PROVE  OnlySyn(s)'
<1> QED BY DEF OnlySyn, Among

LEMMA SynStays ==
  ASSUME DataInv, NEW s, OnlySyn(s), NEW Q \in Seq(Outgoing), toDevice' = toDevice \o Q,
         \A i \in DOMAIN Q : Q[i].sport # s
  PROVE  OnlySyn(s)'
<1>1. \A i \in DOMAIN toDevice' : (i \in DOMAIN toDevice /\ toDevice'[i] = toDevice[i]) \/ toDevice'[i].sport # s
  BY JoinedPipe
<1> QED BY <1>1 DEF OnlySyn

LEMMA HushedSame ==
  ASSUME NEW s, Hushed(s), writerUp' => writerUp, NoneIn(s) => NoneIn(s)', OnlySyn(s) => OnlySyn(s)',
         /\ device'[s].sent = device[s].sent /\ device'[s].ack = device[s].ack
         /\ device'[s].win = device[s].win,
         Connecting(s)' => /\ Connecting(s) /\ connections'[s].rxBuffered = connections[s].rxBuffered
                           /\ connections'[s].txAck = connections[s].txAck
  PROVE  Hushed(s)'
<1> QED BY DEF Hushed

LEMMA MovingHushed ==
  ASSUME DataInv, Moving, NEW s \in Sports, Hushed(s)
  PROVE  Hushed(s)'
<1>1. PICK p \in Sports : \E Q \in Seq(Outgoing) : Handles(p, Q)
  BY MovingHandles
<1>2. PICK Q \in Seq(Outgoing) : Handles(p, Q)
  BY <1>1
<1>3. UNCHANGED <<writerUp, device>>
  BY MovingKeeps
<1>4. Among(fromDevice', fromDevice, s)
  BY TaskHears, HearsAmong DEF TaskActs, Moving, PacketStep, DataInv
<1>5. Buffers(s)
  BY MovingBuffers
<1> SUFFICES ASSUME Connecting(s)' PROVE Hushed(s)'
  BY DEF Hushed
<1>6. Connecting(s) /\ ~Connected(s) /\ (Leaves(s) \/ Drains(s))
  BY <1>5 DEF Connecting, Connected, Buffers, HandsOn
<1>7. \A i \in DOMAIN Q : Q[i].sport # s
  BY <1>2, <1>6 DEF Handles, Speaks, Allowed, Connecting
<1>8. connections'[s].txAck = connections[s].txAck /\ connections'[s].rxBuffered = connections[s].rxBuffered
  <2>1. CASE Drains(s)
    <3>1. connections[s].rxBuffered = 0
      BY <1>6 DEF Hushed
    <3>2. Head(drainChan)[2] \in Nat
      BY <2>1 DEF Drains, DataInv, UploadInv, ChannelTypes
    <3>3. Less(0, Head(drainChan)[2]) = 0
      BY <3>2 DEF Less
    <3> QED BY <2>1, <3>1, <3>3 DEF Drains
  <2> QED BY <1>6, <2>1 DEF Leaves
<1>9. NoneIn(s) => NoneIn(s)'
  BY <1>4, NoneFewer
<1>10. OnlySyn(s) => OnlySyn(s)'
  BY <1>2, <1>7, SynStays DEF Handles, Speaks
<1> QED BY <1>3, <1>6, <1>8, <1>9, <1>10, HushedSame

LEMMA AcceptedHushed ==
  ASSUME DataInv, Claims, Accepted, NEW s \in Sports, Hushed(s)
  PROVE  Hushed(s)'
<1>1. PICK p \in Sports : \E Q \in Seq(Outgoing) : Answers(p, Q)
  BY AcceptedAnswers
<1>2. PICK Q \in Seq(Outgoing) : Answers(p, Q)
  BY <1>1
<1>3. UNCHANGED <<writerUp, device>>
  BY DEF Accepted, TakePacket
<1>4. Among(fromDevice', fromDevice, s)
  BY TaskHears, HearsAmong DEF TaskActs, PacketStep, DataInv
<1>5. CASE s # p
  <2>1. \A i \in DOMAIN Q : Q[i].sport # s
    BY <1>2, <1>5 DEF Answers, Speaks
  <2>2. Connecting(s)' => Connecting(s) /\ connections'[s] = connections[s]
    BY <1>2, <1>5 DEF Answers, Connecting
  <2>3. NoneIn(s) => NoneIn(s)'
    BY <1>4, NoneFewer
  <2>4. OnlySyn(s) => OnlySyn(s)'
    BY <1>2, <2>1, SynStays DEF Answers, Speaks
  <2> QED BY <1>3, <2>2, <2>3, <2>4, HushedSame
<1>6. CASE s = p /\ Connecting(s)'
  <2>1. /\ toDevice' = toDevice /\ ~writerUp
    <3>1. s = pkt.sport
      BY <1>2, <1>6 DEF Answers
    <3>2. \/ connections'[s].state = "Connected"
          \/ toDevice' = toDevice /\ ~writerUp
      <4>1. s \in DOMAIN connections
        BY <3>1 DEF Accepted
      <4> DEFINE conn == [Heard EXCEPT !.txSeq = (@ + 1) % SeqSpace, !.txAck = (@ + 1) % SeqSpace]
                 up == [conn EXCEPT !.state = "Connected"]
      <4>2. \/ connections' = [connections EXCEPT ![s] = up]
            \/ toDevice' = toDevice /\ ~writerUp
        BY <3>1 DEF Accepted
      <4>3. up.state = "Connected"
        <5>1. Heard \in Connection
          BY <3>1, <4>1, HeardIs DEF Accepted
        <5>2. conn \in Connection
          BY <5>1, AcceptedFields
        <5> HIDE DEF conn
        <5> QED BY <5>2 DEF Connection
      <4> HIDE DEF up
      <4> QED BY <4>1, <4>2, <4>3
    <3> QED BY <1>6, <3>2 DEF Connecting
  <2>2. Connecting(s) /\ connections'[s].rxBuffered = connections[s].rxBuffered
    BY <1>2, <1>6 DEF Answers
  <2>3. NoneIn(s)'
    BY <1>4, <2>2, NoneFewer DEF Hushed
  <2>4. OnlySyn(s)'
    BY <2>1, <2>2 DEF Hushed, OnlySyn
  <2> QED BY <1>3, <2>1, <2>2, <2>3, <2>4 DEF Hushed
<1> QED BY <1>5, <1>6 DEF Hushed

LEMMA AskedHushed ==
  ASSUME DataInv, NEW p \in Sports, Asks(p), NEW s \in Sports, Hushed(s)
  PROVE  Hushed(s)'
<1>1. UNCHANGED <<writerUp, device, fromDevice>> /\ Nothing(p)
  BY DEF Asks
<1>2. NoneIn(s) => NoneIn(s)'
  BY <1>1 DEF NoneIn
<1>3. CASE s # p
  <2>1. OnlySyn(s) => OnlySyn(s)'
    BY <1>3, AskedPipe DEF OnlySyn
  <2>2. Connecting(s)' => Connecting(s) /\ connections'[s] = connections[s]
    <3>1. /\ DOMAIN connections' \subseteq DOMAIN connections \cup {p}
          /\ \A q \in DOMAIN connections : q # p => connections'[q] = connections[q]
      BY DEF Asks
    <3> QED BY <1>3, <3>1 DEF Connecting
  <2> QED BY <1>1, <1>2, <2>1, <2>2, HushedSame
<1>4. CASE s = p /\ Connecting(s)'
  <2>1. s \in DOMAIN connections' /\ s \notin DOMAIN connections
    BY <1>1, <1>4 DEF Connecting, Nothing
  <2>2. PICK c \in Conns : connections'[s] = NewConnection(c)
    BY <1>4, <2>1 DEF Asks
  <2>3. connections'[s].rxBuffered = 0 /\ connections'[s].txAck = 0
    BY <2>2 DEF NewConnection
  <2>4. device[s].sent = 0 /\ device[s].ack = 0 /\ device[s].win = 0
    BY <1>1, <1>4 DEF Nothing, Closed
  <2>5. NoneIn(s)'
    BY <1>1, <1>4 DEF Nothing, NoneIn
  <2>6. OnlySyn(s)'
    BY <1>1, <1>4, AskedPipe DEF Asks, OnlySyn, Nothing
  <2> QED BY <1>1, <2>3, <2>4, <2>5, <2>6 DEF Hushed
<1> QED BY <1>3, <1>4 DEF Hushed

LEMMA TurnHushed ==
  ASSUME DataInv, DeviceActs, NEW s \in Sports, Hushed(s)
  PROVE  Hushed(s)'
<1>1. PICK p \in Sports : \E G \in Seq(Incoming) : Turn(p, G)
  BY DeviceTurnIs
<1>2. PICK G \in Seq(Incoming) : Turn(p, G)
  BY <1>1
<1>3. UNCHANGED <<writerUp, connections>>
  BY DeviceActsOnly
<1>4. OnlySyn(s) => OnlySyn(s)'
  BY TurnPipe, PipeAmong, SynFewer
<1>5. Connecting(s)' <=> Connecting(s)
  BY <1>3 DEF Connecting
<1>6. CASE s # p
  <2>1. Among(fromDevice', fromDevice, s)
    BY <1>2, <1>6, TurnFrom
  <2>2. device'[s] = device[s]
    BY <1>2, <1>6 DEF Turn
  <2> QED BY <1>3, <1>4, <1>5, <2>1, <2>2, NoneFewer, HushedSame
<1>7. CASE s = p /\ Connecting(s)
  <2>1. OnlySyn(s) /\ NoneIn(s) /\ device[s].sent = 0 /\ device[s].ack = 0 /\ device[s].win = 0
    BY <1>7 DEF Hushed
  <2>2. ASSUME toDevice # <<>>, Head(toDevice).sport = s PROVE Head(toDevice).flags = "SYN"
    <3>1. toDevice \in Seq(Outgoing)
      BY DEF DataInv, PipeTypes
    <3>2. 1 \in DOMAIN toDevice /\ Head(toDevice) = toDevice[1]
      BY <2>2, <3>1
    <3> QED BY <2>1, <2>2, <3>2 DEF OnlySyn
  <2>3. ~Stores(p, G) /\ ~Shuts(p, G) /\ ~Ignores(p, G)
    BY <1>7, <2>2 DEF Stores, Shuts, Ignores, FirstIs
  <2>4. Opens(p, G) \/ Declines(p, G) \/ Consumes(p, G) \/ Transmits(p, G) \/ HangsUp(p, G)
    BY <1>2, <2>3 DEF Turn
  <2>6. /\ device'[s].sent = 0 /\ device'[s].ack = 0 /\ device'[s].win = 0
        /\ \A i \in DOMAIN G : G[i].len = 0
    <3>1. CASE Transmits(p, G)
      <4>1. PICK n \in Nat :
             /\ n > 0 => ((1 + device[s].sent - device[s].ack) % SeqSpace) + n <= device[s].win
             /\ Says(G, "ACK", n) /\ device'[s].sent = device[s].sent + n /\ device'[s].ack = device[s].ack
             /\ device'[s].win = device[s].win
        BY <1>7, <3>1 DEF Transmits
      <4>2. n = 0
        <5> DEFINE k == (1 + device[s].sent - device[s].ack) % SeqSpace
        <5>1. k \in Nat
          <6>1. 1 + device[s].sent - device[s].ack = 1
            BY <2>1
          <6>2. 1 % SeqSpace \in Numbers
            BY ModRange
          <6> QED BY <6>1, <6>2 DEF Numbers
        <5> HIDE DEF k
        <5>2. n > 0 => k + n <= 0
          BY <2>1, <4>1 DEF k
        <5> QED BY <5>1, <5>2
      <4> QED BY <2>1, <4>1, <4>2 DEF Says
    <3>2. CASE Opens(p, G)
      BY <1>7, <3>2 DEF Opens, Says
    <3>3. CASE Declines(p, G)
      BY <1>7, <2>1, <3>3 DEF Declines, Says
    <3>4. CASE Consumes(p, G)
      <4>1. DOMAIN G = {}
        BY <3>4 DEF Consumes
      <4> QED BY <1>7, <2>1, <3>4, <4>1 DEF Consumes
    <3>5. CASE HangsUp(p, G)
      BY <1>7, <2>1, <3>5 DEF HangsUp, SameButOpen, Says
    <3> QED BY <2>4, <3>1, <3>2, <3>3, <3>4, <3>5
  <2>7. NoneIn(s)'
    <3>1. \A i \in DOMAIN fromDevice' :
             \/ i \in DOMAIN fromDevice /\ fromDevice'[i] = fromDevice[i]
             \/ 1 \in DOMAIN G /\ fromDevice'[i] = G[1]
      BY <1>2, TurnFrom
    <3> QED BY <2>1, <2>6, <3>1 DEF NoneIn
  <2> QED BY <1>3, <1>4, <1>7, <2>1, <2>6, <2>7 DEF Hushed
<1> QED BY <1>5, <1>6, <1>7 DEF Hushed

LEMMA HushedStep ==
  ASSUME PortsSuffice, DataInv, Claims, Next, NEW s \in Sports, Hushed(s)
  PROVE  Hushed(s)'
<1>1. CASE ClientActs \/ VersionReply
  <2>1. UNCHANGED <<writerUp, connections, toDevice, fromDevice, device>>
    BY <1>1, ClientActsOnly DEF VersionReply
  <2> QED BY <2>1 DEF Hushed, NoneIn, OnlySyn, Connecting
<1>2. CASE DeviceActs
  BY <1>2, TurnHushed
<1>4. CASE WriteFails
  <2>1. UNCHANGED <<fromDevice, device, connections>> /\ \E n \in 0..Len(toDevice) : toDevice' = SubSeq(toDevice, 1, n)
    BY <1>4 DEF WriteFails
  <2>2. OnlySyn(s) => OnlySyn(s)'
    BY <2>1, PipeAmong, SynFewer
  <2>3. writerUp' => writerUp
    BY <1>4 DEF WriteFails
  <2>4. (NoneIn(s) => NoneIn(s)') /\ (Connecting(s)' => Connecting(s))
    BY <2>1 DEF NoneIn, Connecting
  <2> QED BY <2>1, <2>2, <2>3, <2>4, HushedSame
<1>5. CASE Exit
  BY <1>5 DEF Exit, Hushed, Connecting
<1>6. CASE MuxConnect
  BY <1>6, ConnectAsks, AskedHushed
<1>7. CASE Accepted
  BY <1>7, AcceptedHushed
<1>8. CASE Moving
  BY <1>8, MovingHushed
<1> QED BY <1>1, <1>2, <1>4, <1>5, <1>6, <1>7, <1>8, NextIs DEF TaskActs, Moving, PacketStep
-----------------------------------------------------------------------------
(* What is on its way to the task and what its forwarder holds never       *)
(* exceeds the window, and neither does it with what the device may send.  *)
Granted(s) ==
  Connected(s) =>
    /\ In(s) + connections[s].rxBuffered <= RxWindow
    /\ device[s].open =>
         /\ SentNo(s) = (connections[s].txAck + In(s)) % SeqSpace
         /\ Grants(RxWindow, SentNo(s), device[s].ack, device[s].win, toDevice, s, In(s),
                   connections[s].rxBuffered)

LEMMA GrantedBy ==
  ASSUME NEW s, NEW o, NEW h, NEW a, NEW seq, NEW ack, NEW win, NEW T,
         In(s)' = o, connections'[s].rxBuffered = h, connections'[s].txAck = a, SentNo(s)' = seq,
         device'[s].ack = ack, device'[s].win = win, toDevice' = T,
         o + h <= RxWindow,
         device'[s].open => seq = (a + o) % SeqSpace /\ Grants(RxWindow, seq, ack, win, T, s, o, h)
  PROVE  Granted(s)'
<1> QED BY DEF Granted

LEMMA GrantsOut == Grant(Outgoing) /\ RxWindow \in Int /\ RxWindow < SeqSpace
<1> QED BY Sizes, SizesAssumption DEF Grant, Outgoing

LEMMA GrantedTypes ==
  ASSUME DataInv, NEW s \in Sports, Connected(s)
  PROVE  /\ In(s) \in Nat /\ connections[s].rxBuffered \in Nat /\ connections[s].txAck \in Numbers
         /\ SentNo(s) \in Numbers /\ device[s].ack \in Numbers /\ device[s].win \in Int
         /\ device[s].win <= RxWindow /\ device[s].sent \in Nat
         /\ toDevice \in Seq(Outgoing) /\ s \in DOMAIN connections
<1>1. PipeTypes /\ connections[s] \in Connection /\ s \in DOMAIN connections
  BY PortUp DEF DataInv
<1>2. In(s) \in Nat
  BY <1>1, InNat
<1>3. device[s] \in DeviceEnd /\ toDevice \in Seq(Outgoing)
  BY <1>1 DEF PipeTypes
<1>4. device[s].sent \in Nat /\ device[s].ack \in Numbers /\ device[s].win \in 0..RxWindow
  BY <1>3 DEF DeviceEnd
<1>5. SentNo(s) \in Numbers
  <2>1. 1 + device[s].sent \in Int
    BY <1>4
  <2> QED BY <2>1, ModRange DEF SentNo
<1> QED BY <1>1, <1>2, <1>3, <1>4, <1>5, Sizes DEF Connection

LEMMA AmongPut ==
  ASSUME DataInv, NEW Q \in Seq(Outgoing), toDevice' = toDevice \o Q, NEW s, \A i \in DOMAIN Q : Q[i].sport # s
  PROVE  Among(toDevice', toDevice, s)
<1>1. \A i \in DOMAIN toDevice' :
        i \in Int /\ ((i \in DOMAIN toDevice /\ toDevice'[i] = toDevice[i]) \/ toDevice'[i].sport # s)
  BY JoinedPipe
<1>2. \A j \in DOMAIN toDevice' : toDevice'[j].sport = s => j + 0 \in DOMAIN toDevice /\ toDevice'[j] = toDevice[j + 0]
  BY <1>1
<1> QED BY <1>2 DEF Among

LEMMA GrantedSame ==
  ASSUME DataInv, DataInv', NEW s \in Sports, Granted(s),
         Connected(s)' => /\ Connected(s) /\ connections'[s].rxBuffered = connections[s].rxBuffered
                          /\ connections'[s].txAck = connections[s].txAck,
         In(s)' = In(s), Among(toDevice', toDevice, s),
         device'[s].open => /\ device[s].open /\ device'[s].sent = device[s].sent
                            /\ device'[s].ack = device[s].ack /\ device'[s].win = device[s].win
  PROVE  Granted(s)'
<1> SUFFICES ASSUME Connected(s)' PROVE Granted(s)'
  BY DEF Granted
<1>1. toDevice' \in Seq(Outgoing)
  BY DEF DataInv, PipeTypes
<1>2. PICK T : T = toDevice'
  OBVIOUS
<1>3. ASSUME device'[s].open
      PROVE  /\ SentNo(s) = (connections[s].txAck + In(s)) % SeqSpace
             /\ Grants(RxWindow, SentNo(s), device[s].ack, device[s].win, T, s, In(s), connections[s].rxBuffered)
  <2>1. /\ SentNo(s) = (connections[s].txAck + In(s)) % SeqSpace
        /\ Grants(RxWindow, SentNo(s), device[s].ack, device[s].win, toDevice, s, In(s), connections[s].rxBuffered)
    BY <1>3 DEF Granted
  <2>2. T \in Seq(Outgoing) /\ Among(T, toDevice, s)
    BY <1>1, <1>2
  <2> QED BY <2>1, <2>2, GrantsFewer
<1>4. In(s) + connections[s].rxBuffered <= RxWindow
  BY DEF Granted
<1>5. device'[s].open => SentNo(s)' = SentNo(s)
  BY DEF SentNo
<1>6. CASE device'[s].open
  BY <1>2, <1>3, <1>4, <1>5, <1>6 DEF Granted
<1>7. CASE ~device'[s].open
  BY <1>4, <1>7 DEF Granted
<1> QED BY <1>6, <1>7

LEMMA OthersGranted ==
  ASSUME DataInv, DataInv', NEW s \in Sports, Granted(s), NEW Q \in Seq(Outgoing), toDevice' = toDevice \o Q,
         \A i \in DOMAIN Q : Q[i].sport # s, device' = device, In(s)' = In(s),
         Connected(s)' => Connected(s) /\ connections'[s] = connections[s]
  PROVE  Granted(s)'
<1> QED BY AmongPut, GrantedSame

(* What the task does with the bytes that come in. *)
LEMMA BuffersGranted ==
  ASSUME DataInv, DataInv', NEW s \in Sports, Connected(s), Connected(s)', Buffers(s)
  PROVE  /\ In(s)' <= In(s)
         /\ In(s)' + connections'[s].rxBuffered <= In(s) + connections[s].rxBuffered
         /\ (connections'[s].txAck + In(s)') % SeqSpace = (connections[s].txAck + In(s)) % SeqSpace
<1>1. PICK o, h, a, o2, h2, a2 :
        /\ o = In(s) /\ h = connections[s].rxBuffered /\ a = connections[s].txAck
        /\ o2 = In(s)' /\ h2 = connections'[s].rxBuffered /\ a2 = connections'[s].txAck
  OBVIOUS
<1>2. o \in Nat /\ h \in Nat /\ a \in Numbers
  BY <1>1, GrantedTypes
<1>3. o2 \in Nat /\ h2 \in Nat
  <2>1. PipeTypes' /\ connections'[s] \in Connection
    BY DEF Connected, DataInv, UploadInv, StateInv, ConnectionTypes
  <2>2. In(s)' \in Nat
    BY <2>1, InNatNext
  <2> QED BY <1>1, <2>1, <2>2 DEF Connection
<1>4. PipeTypes /\ s \in DOMAIN connections'
  BY DEF DataInv, Connected
<1>5. CASE Leaves(s)
  <2>1. a2 = a /\ h2 = h
    BY <1>1, <1>5 DEF Leaves
  <2>2. o2 = o
    <3>1. CASE fromDevice' = fromDevice
      BY <1>1, <3>1 DEF In
    <3>2. CASE fromDevice # <<>> /\ fromDevice' = Tail(fromDevice) /\ (pkt.sport = s => pkt.len = 0)
      <4>1. o = (IF pkt.sport = s THEN pkt.len ELSE 0) + o2
        BY <1>1, <1>4, <3>2, InTaken
      <4>2. (IF pkt.sport = s THEN pkt.len ELSE 0) = 0
        BY <3>2
      <4> QED BY <1>2, <1>3, <4>1, <4>2
    <3> QED BY <1>5, <3>1, <3>2 DEF Leaves
  <2> QED BY <1>1, <1>2, <2>1, <2>2
<1>6. CASE Drains(s)
  <2>1. a2 = a /\ o2 = o
    BY <1>1, <1>6 DEF Drains, In
  <2>2. PICK n : n = Head(drainChan)[2] /\ n \in Nat
    BY <1>6 DEF Drains, DataInv, UploadInv, ChannelTypes
  <2>3. h2 = Less(h, n)
    BY <1>1, <1>6, <2>2 DEF Drains
  <2>4. h2 <= h
    BY <1>2, <2>2, <2>3 DEF Less
  <2> QED BY <1>1, <1>2, <1>3, <2>1, <2>4
<1>7. CASE HandsOn(s)
  <2>1. PICK n : n = pkt.len
    OBVIOUS
  <2>2. n \in Nat /\ o = n + o2
    BY <1>1, <1>4, <1>7, <2>1, InTaken DEF HandsOn
  <2>3. a2 = (a + n) % SeqSpace /\ h2 = h + n
    BY <1>1, <1>7, <2>1 DEF HandsOn
  <2>4. (((a + n) % SeqSpace) + o2) % SeqSpace = (a + n + o2) % SeqSpace
    <3>1. a + n \in Nat
      BY <1>2, <2>2 DEF Numbers
    <3>2. PICK y \in Nat : y = a + n
      BY <3>1
    <3>3. ((y % SeqSpace) + o2) % SeqSpace = (y + o2) % SeqSpace
      BY <1>3, ModAdded
    <3> QED BY <3>2, <3>3
  <2>5. a + n + o2 = a + o
    BY <1>2, <1>3, <2>2 DEF Numbers
  <2>6. (a2 + o2) % SeqSpace = (a + o) % SeqSpace
    BY <2>3, <2>4, <2>5
  <2>7. o2 <= o /\ o2 + h2 <= o + h
    BY <1>2, <1>3, <2>2, <2>3
  <2> QED BY <1>1, <2>6, <2>7
<1> QED BY <1>4, <1>5, <1>6, <1>7 DEF Buffers

(* What the task says of its room is so. *)
LEMMA SaidFits ==
  ASSUME NEW conn, NEW s, NEW Q, Said(Q, s, conn), conn.rxBuffered \in Nat, conn.txAck \in Numbers,
         NEW o \in Nat, o + conn.rxBuffered <= RxWindow
  PROVE  \A i \in DOMAIN Q : /\ Lag((conn.txAck + o) % SeqSpace, Q[i].ack) = o
                             /\ Q[i].win <= RxWindow - conn.rxBuffered
<1> DEFINE h == conn.rxBuffered
           a == conn.txAck
           w == Offer(conn)
<1>1. w \in 0..RxWindow /\ w <= Window(conn)
  BY OfferRange DEF Offer
<1>2. h \in Nat /\ RxWindow \in Nat /\ RxWindow < SeqSpace /\ h <= RxWindow /\ o < SeqSpace
  BY Sizes, SizesAssumption
<1>3. Window(conn) <= RxWindow - h
  <2>1. Window(conn) = Less(RxWindow, h)
    BY DEF Window
  <2> HIDE DEF h
  <2> QED BY <1>2, <2>1 DEF Less
<1>4. w <= RxWindow - h
  <2>1. Window(conn) \in Int
    BY OfferRange
  <2> HIDE DEF w, h
  <2> QED BY <1>1, <1>2, <1>3, <2>1
<1>5. Lag((a + o) % SeqSpace, a) = o
  <2>1. a \in Nat /\ a % SeqSpace = a
    BY ModSmall, Sizes DEF Numbers
  <2>2. PICK y \in Nat : y = a
    BY <2>1
  <2>3. Lag((y + o) % SeqSpace, y % SeqSpace) = o
    BY <1>2, LagBehind
  <2> QED BY <2>1, <2>2, <2>3
<1> QED BY <1>4, <1>5 DEF Said

LEMMA MovingGranted ==
  ASSUME DataInv, DataInv', Moving, NEW s \in Sports, Granted(s)
  PROVE  Granted(s)'
<1>1. PICK p \in Sports : \E Q \in Seq(Outgoing) : Handles(p, Q)
  BY MovingHandles
<1>2. PICK Q \in Seq(Outgoing) : Handles(p, Q)
  BY <1>1
<1>3. device' = device
  BY MovingKeeps
<1>4. Buffers(s)
  BY MovingBuffers
<1> SUFFICES ASSUME Connected(s)' PROVE Granted(s)'
  BY DEF Granted
<1>5. Connected(s) /\ s \in DOMAIN connections'
  BY <1>4 DEF Connected, Buffers
<1>6. PICK o, h, o2, conn, seq, T :
        /\ o = In(s) /\ h = connections[s].rxBuffered /\ o2 = In(s)' /\ conn = connections'[s]
        /\ seq = SentNo(s) /\ T = toDevice'
  OBVIOUS
<1>7. /\ o \in Nat /\ h \in Nat /\ seq \in Numbers /\ device[s].ack \in Numbers /\ device[s].win \in Int
      /\ toDevice \in Seq(Outgoing)
  BY <1>5, <1>6, GrantedTypes
<1>8. o2 \in Nat /\ conn.rxBuffered \in Nat /\ conn.txAck \in Numbers
  <2>1. PipeTypes' /\ connections'[s] \in Connection
    BY DEF Connected, DataInv, UploadInv, StateInv, ConnectionTypes
  <2>2. In(s)' \in Nat
    BY <2>1, InNatNext
  <2> QED BY <1>6, <2>1, <2>2 DEF Connection
<1>9. /\ o2 <= o /\ o2 + conn.rxBuffered <= o + h
      /\ (conn.txAck + o2) % SeqSpace = (connections[s].txAck + o) % SeqSpace
  BY <1>4, <1>5, <1>6, BuffersGranted
<1>10. o2 + conn.rxBuffered <= RxWindow
  <2>1. o + h <= RxWindow
    BY <1>5, <1>6 DEF Granted
  <2> QED BY <1>7, <1>8, <1>9, <2>1, GrantsOut
<1>11. ASSUME device[s].open
       PROVE  /\ seq = (conn.txAck + o2) % SeqSpace
              /\ Grants(RxWindow, seq, device[s].ack, device[s].win, T, s, o2, conn.rxBuffered)
  <2>1. /\ seq = (connections[s].txAck + o) % SeqSpace
        /\ Grants(RxWindow, seq, device[s].ack, device[s].win, toDevice, s, o, h)
    BY <1>5, <1>6, <1>11 DEF Granted
  <2>2. seq = (conn.txAck + o2) % SeqSpace
    BY <1>9, <2>1
  <2>3. Grants(RxWindow, seq, device[s].ack, device[s].win, toDevice, s, o2, conn.rxBuffered)
    BY <1>7, <1>8, <1>9, <2>1, GrantsLess, GrantsOut
  <2>4. \A i \in DOMAIN Q : Q[i].sport = s =>
          Lag(seq, Q[i].ack) = o2 /\ Q[i].win <= RxWindow - conn.rxBuffered
    <3>1. CASE s = p
      <4>1. Said(Q, s, conn)
        BY <1>2, <1>5, <1>6, <3>1 DEF Handles, Speaks
      <4> QED BY <1>8, <1>10, <2>2, <4>1, SaidFits
    <3>2. CASE s # p
      BY <1>2, <3>2 DEF Handles, Speaks
    <3> QED BY <3>1, <3>2
  <2>5. T = toDevice \o Q
    BY <1>2, <1>6 DEF Handles, Speaks
  <2>6. Grants(RxWindow, seq, device[s].ack, device[s].win, toDevice \o Q, s, o2, conn.rxBuffered)
    BY <1>7, <1>8, <2>3, <2>4, GrantsTold, GrantsOut
  <2> QED BY <2>2, <2>5, <2>6
<1>12. SentNo(s)' = seq
  BY <1>3, <1>6 DEF SentNo
<1> QED BY <1>3, <1>6, <1>10, <1>11, <1>12, GrantedBy
-----------------------------------------------------------------------------
LEMMA LagOf ==
  ASSUME NEW y \in Nat, NEW x \in Numbers
  PROVE  (y - x) % SeqSpace = Lag(y % SeqSpace, x)
<1> DEFINE N == SeqSpace
           q == y \div N
           r == y % N
           l == Lag(r, x)
<1>1. y = N * q + r /\ r \in 0..(N - 1) /\ q \in Nat /\ N \in Nat \ {0}
  BY Divided, Sizes
<1>2. r \in Numbers /\ l \in Numbers /\ l \in 0..(N - 1) /\ x \in 0..(N - 1)
  BY <1>1, ModRange, LagRange DEF Numbers
<1>3. l = IF x <= r THEN r - x ELSE r - x + N
  BY <1>2, InflightIs DEF Lag
<1>4. q = 0 => (y - x) % N = l
  BY <1>1 DEF Lag
<1> HIDE DEF q, r, l, N
<1>5. CASE x <= r
  <2>1. y - x = N * q + l
    BY <1>1, <1>2, <1>3, <1>5
  <2> QED BY <1>1, <1>2, <2>1, ModOf DEF l, r, N
<1>6. CASE ~(x <= r) /\ q # 0
  <2>1. PICK k \in Nat : q = k + 1
    <3>1. q - 1 \in Nat /\ q = (q - 1) + 1
      BY <1>1, <1>6
    <3> QED BY <3>1
  <2>2. N * q = N * k + N
    BY <1>1, <2>1
  <2>3. N * k \in Nat
    BY <1>1, <2>1
  <2>4. y - x = N * k + l
    BY <1>1, <1>2, <1>3, <1>6, <2>2, <2>3
  <2> QED BY <1>1, <1>2, <2>1, <2>4, ModOf DEF l, r, N
<1> QED BY <1>4, <1>5, <1>6 DEF l, r, N

(* A call that is answered becomes a connection only while the writer is up. *)
LEMMA AcceptedUp ==
  ASSUME DataInv, Accepted, NEW s \in Sports, s = pkt.sport, Connecting(s), Connected(s)'
  PROVE  writerUp
<1> DEFINE conn == [Heard EXCEPT !.txSeq = (@ + 1) % SeqSpace, !.txAck = (@ + 1) % SeqSpace]
<1>1. writerUp \/ connections' = [connections EXCEPT ![s] = conn]
  BY DEF Accepted, Emit
<1>2. s \in DOMAIN connections /\ Heard \in Connection /\ Heard.state = "Connecting"
  BY HeardIs DEF Accepted
<1>3. conn.state = "Connecting"
  BY <1>2 DEF Connection
<1> HIDE DEF conn
<1>4. CASE connections' = [connections EXCEPT ![s] = conn]
  BY <1>2, <1>3, <1>4 DEF Connected
<1> QED BY <1>1, <1>4

LEMMA AcceptedGranted ==
  ASSUME DataInv, DataInv', Accepted, NEW s \in Sports, Granted(s), Hushed(s)
  PROVE  Granted(s)'
<1>1. PICK p \in Sports : \E Q \in Seq(Outgoing) : Answers(p, Q)
  BY AcceptedAnswers
<1>2. PICK Q \in Seq(Outgoing) : Answers(p, Q)
  BY <1>1
<1>3. /\ UNCHANGED device /\ fromDevice # <<>> /\ fromDevice' = Tail(fromDevice) /\ PipeTypes
      /\ pkt.flags = "SYN|ACK" /\ pkt.sport = p
  BY <1>2 DEF Accepted, TakePacket, DataInv, Answers
<1>4. /\ In(s) = (IF pkt.sport = s THEN pkt.len ELSE 0) + In(s)'
      /\ pkt \in Incoming /\ pkt.len \in Nat /\ In(s)' \in Nat
  BY <1>3, InTaken
<1>5. CASE s # p
  <2>1. \A i \in DOMAIN Q : Q[i].sport # s
    BY <1>2, <1>5 DEF Answers, Speaks
  <2>2. Connected(s)' => Connected(s) /\ connections'[s] = connections[s]
    BY <1>2, <1>5 DEF Answers, Connected
  <2>3. In(s)' = In(s)
    BY <1>3, <1>4, <1>5
  <2>4. toDevice' = toDevice \o Q
    BY <1>2 DEF Answers, Speaks
  <2> QED BY <1>3, <2>1, <2>2, <2>3, <2>4, OthersGranted
<1>6. CASE s = p /\ Connected(s)'
  <2>1. Connecting(s) /\ writerUp
    BY <1>2, <1>6, AcceptedUp DEF Answers
  <2>2. /\ device[s].sent = 0 /\ device[s].ack = 0 /\ device[s].win = 0
        /\ NoneIn(s) /\ OnlySyn(s) /\ connections[s].rxBuffered = 0 /\ connections[s].txAck = 0
    BY <2>1 DEF Hushed
  <2>3. In(s)' = 0
    <3>1. In(s) = 0
      BY <1>3, <2>2, InIfNone
    <3> QED BY <1>4, <3>1
  <2>4. PICK conn, a, T : conn = connections'[s] /\ a = (0 + 1) % SeqSpace /\ T = toDevice'
    OBVIOUS
  <2>5. conn.rxBuffered = 0 /\ conn.txAck = a /\ Said(Q, s, conn) /\ T = toDevice \o Q
    BY <1>2, <1>6, <2>2, <2>4 DEF Answers, Speaks
  <2>6. \A i \in DOMAIN toDevice : toDevice[i].sport # s
    <3>1. fromDevice[1] = pkt /\ 1 \in DOMAIN fromDevice
      BY <1>3 DEF PipeTypes, pkt
    <3>2. \A i \in DOMAIN toDevice : toDevice[i].sport = s => toDevice[i].flags # "SYN"
      BY <1>3, <1>6, <3>1 DEF DataInv, UInv, SynFirst
    <3> QED BY <2>2, <3>2 DEF OnlySyn
  <2>7. a \in Numbers /\ 0 \in Numbers /\ a = 1 % SeqSpace
    BY <2>4, ModRange, Sizes DEF Numbers
  <2>8. Grants(RxWindow, a, 0, 0, toDevice, s, 0, 0)
    <3>1. Lag(a, 0) \in Nat
      BY <2>7, LagRange DEF Numbers
    <3>2. Fits(RxWindow, a, 0, 0, 0, 0)
      BY <3>1, Sizes, SizesAssumption DEF Fits
    <3> QED BY <2>6, <3>2 DEF Grants
  <2>9. (a + 0) % SeqSpace = a
    BY <2>7, ModSmall DEF Numbers
  <2>10. \A i \in DOMAIN Q : Lag(a, Q[i].ack) = 0 /\ Q[i].win <= RxWindow - 0
    <3>1. PICK o \in Nat : o = 0
      OBVIOUS
    <3>2. conn.rxBuffered \in Nat /\ conn.txAck \in Numbers /\ o + conn.rxBuffered <= RxWindow
      BY <2>5, <2>7, <3>1, Sizes, SizesAssumption
    <3>3. Said(Q, s, conn)
      BY <2>5
    <3>4. \A i \in DOMAIN Q : /\ Lag((conn.txAck + o) % SeqSpace, Q[i].ack) = o
                              /\ Q[i].win <= RxWindow - conn.rxBuffered
      BY <3>2, <3>3, SaidFits
    <3> QED BY <2>5, <2>9, <3>1, <3>4
  <2>11. Grants(RxWindow, a, 0, 0, toDevice \o Q, s, 0, 0)
    <3>1. toDevice \in Seq(Outgoing) /\ 0 \in Nat
      BY DEF DataInv, PipeTypes
    <3>2. \A i \in DOMAIN Q : Q[i].sport = s => Lag(a, Q[i].ack) = 0 /\ Q[i].win <= RxWindow - 0
      BY <2>10
    <3> QED BY <2>7, <2>8, <3>1, <3>2, GrantsTold, GrantsOut
  <2>12. SentNo(s)' = a
    <3>1. SentNo(s)' = (1 + device[s].sent) % SeqSpace
      BY <1>3 DEF SentNo
    <3> QED BY <2>2, <2>4, <3>1
  <2>13. device'[s].ack = 0 /\ device'[s].win = 0 /\ 0 + 0 <= RxWindow
    BY <1>3, <2>2, Sizes, SizesAssumption
  <2>14. a = (a + 0) % SeqSpace /\ Grants(RxWindow, a, 0, 0, T, s, 0, 0)
    BY <2>5, <2>9, <2>11
  <2>15. connections'[s].rxBuffered = 0 /\ connections'[s].txAck = a /\ toDevice' = T
    BY <2>4, <2>5
  <2> QED BY <2>3, <2>12, <2>13, <2>14, <2>15, GrantedBy
<1> QED BY <1>5, <1>6 DEF Granted

LEMMA AskedGranted ==
  ASSUME DataInv, DataInv', NEW p \in Sports, Asks(p), NEW s \in Sports, Granted(s)
  PROVE  Granted(s)'
<1>1. UNCHANGED <<device, fromDevice>> /\ Nothing(p)
  BY DEF Asks
<1>2. CASE s # p
  <2>1. Connected(s)' => Connected(s) /\ connections'[s] = connections[s]
    <3>1. /\ DOMAIN connections' \subseteq DOMAIN connections \cup {p}
          /\ \A q \in DOMAIN connections : q # p => connections'[q] = connections[q]
      BY DEF Asks
    <3> QED BY <1>2, <3>1 DEF Connected
  <2>2. In(s)' = In(s)
    BY <1>1 DEF In
  <2>3. \E Q \in Seq(Outgoing) : toDevice' = toDevice \o Q /\ \A i \in DOMAIN Q : Q[i].sport # s
    <3>1. CASE toDevice' = toDevice
      <4>1. <<>> \in Seq(Outgoing) /\ toDevice' = toDevice \o <<>> /\ DOMAIN <<>> = {}
        BY <3>1 DEF DataInv, PipeTypes
      <4> QED BY <4>1
    <3>2. ASSUME NEW f \in Outgoing, toDevice' = toDevice \o <<f>>, f.sport = p
          PROVE  \E Q \in Seq(Outgoing) : toDevice' = toDevice \o Q /\ \A i \in DOMAIN Q : Q[i].sport # s
      <4>1. <<f>> \in Seq(Outgoing) /\ \A i \in DOMAIN <<f>> : <<f>>[i].sport # s
        BY <1>2, <3>2
      <4> QED BY <3>2, <4>1
    <3> QED BY <3>1, <3>2 DEF Asks
  <2> QED BY <1>1, <2>1, <2>2, <2>3, OthersGranted
<1>3. CASE s = p
  <2>1. ~Connected(s)'
    <3>1. s \notin DOMAIN connections
      BY <1>1, <1>3 DEF Nothing
    <3>2. CASE connections' = connections
      BY <3>1, <3>2 DEF Connected
    <3>3. ASSUME NEW c \in Conns, connections'[s] = NewConnection(c) PROVE ~Connected(s)'
      <4>1. NewConnection(c).state = "Connecting"
        BY DEF NewConnection
      <4> QED BY <3>3, <4>1 DEF Connected
    <3>4. connections' = connections \/ \E c \in Conns : connections'[s] = NewConnection(c)
      BY <1>3 DEF Asks
    <3> QED BY <3>2, <3>3, <3>4
  <2> QED BY <2>1 DEF Granted
<1> QED BY <1>2, <1>3
-----------------------------------------------------------------------------
(* The device hears of the window, or closes. *)
LEMMA TurnedGranted ==
  ASSUME DataInv, DataInv', NEW s \in Sports, Granted(s), connections' = connections, In(s)' = In(s),
         device'[s].open => device[s].open /\ device'[s].sent = device[s].sent,
         \/ toDevice' = toDevice /\ device'[s].ack = device[s].ack /\ device'[s].win = device[s].win
         \/ ~device'[s].open
         \/ /\ toDevice # <<>> /\ toDevice' = Tail(toDevice) /\ Head(toDevice).sport = s
            /\ device'[s].ack = Head(toDevice).ack /\ device'[s].win = Head(toDevice).win
  PROVE  Granted(s)'
<1> SUFFICES ASSUME Connected(s)' PROVE Granted(s)'
  BY DEF Granted
<1>1. Connected(s)
  BY DEF Connected
<1>2. toDevice \in Seq(Outgoing)
  BY DEF DataInv, PipeTypes
<1>3. PICK ack, win, T : ack = device'[s].ack /\ win = device'[s].win /\ T = toDevice'
  OBVIOUS
<1>4. ASSUME device'[s].open
      PROVE  /\ SentNo(s) = (connections[s].txAck + In(s)) % SeqSpace
             /\ Grants(RxWindow, SentNo(s), ack, win, T, s, In(s), connections[s].rxBuffered)
  <2>1. /\ SentNo(s) = (connections[s].txAck + In(s)) % SeqSpace
        /\ Grants(RxWindow, SentNo(s), device[s].ack, device[s].win, toDevice, s, In(s), connections[s].rxBuffered)
    BY <1>1, <1>4 DEF Granted
  <2>2. CASE toDevice' = toDevice /\ device'[s].ack = device[s].ack /\ device'[s].win = device[s].win
    BY <1>3, <2>1, <2>2
  <2>3. CASE /\ toDevice # <<>> /\ toDevice' = Tail(toDevice) /\ Head(toDevice).sport = s
             /\ device'[s].ack = Head(toDevice).ack /\ device'[s].win = Head(toDevice).win
    <3>1. Grants(RxWindow, SentNo(s), Head(toDevice).ack, Head(toDevice).win, Tail(toDevice), s, In(s),
                 connections[s].rxBuffered)
      BY <1>2, <2>1, <2>3, GrantsHeard, ZenonT(40)
    <3> QED BY <1>3, <2>1, <2>3, <3>1
  <2> QED BY <1>4, <2>2, <2>3
<1>5. In(s) + connections[s].rxBuffered <= RxWindow
  BY <1>1 DEF Granted
<1>6. device'[s].open => SentNo(s)' = SentNo(s)
  BY DEF SentNo
<1>7. CASE device'[s].open
  BY <1>3, <1>4, <1>5, <1>6, <1>7 DEF Granted
<1>8. CASE ~device'[s].open
  BY <1>5, <1>8 DEF Granted
<1> QED BY <1>7, <1>8

(* The device sends no more than it was granted. *)
LEMMA SentGranted ==
  ASSUME DataInv, NEW s \in Sports, Granted(s), connections' = connections,
         NEW G \in Seq(Incoming), fromDevice' = fromDevice \o G, \A i \in DOMAIN G : G[i].sport = s,
         Transmits(s, G)
  PROVE  Granted(s)'
<1> SUFFICES ASSUME Connected(s)' PROVE Granted(s)'
  BY DEF Granted
<1>1. Connected(s)
  BY DEF Connected
<1>2. PICK o, h, seq, ack, win, sent, a :
        /\ o = In(s) /\ h = connections[s].rxBuffered /\ seq = SentNo(s)
        /\ ack = device[s].ack /\ win = device[s].win /\ sent = device[s].sent /\ a = connections[s].txAck
  OBVIOUS
<1>3. /\ o \in Nat /\ h \in Nat /\ seq \in Numbers /\ ack \in Numbers /\ win \in Int /\ win <= RxWindow
      /\ toDevice \in Seq(Outgoing) /\ sent \in Nat /\ a \in Numbers
  BY <1>1, <1>2, GrantedTypes
<1>4. /\ o + h <= RxWindow /\ seq = (a + o) % SeqSpace
      /\ Grants(RxWindow, seq, ack, win, toDevice, s, o, h)
  BY <1>1, <1>2 DEF Granted, Transmits
<1>5. PICK n \in Nat :
        /\ n > 0 => ((1 + sent - ack) % SeqSpace) + n <= win
        /\ Says(G, "ACK", n) /\ device'[s].sent = sent + n
        /\ device'[s].ack = ack /\ device'[s].win = win
  BY <1>2 DEF Transmits
<1>6. toDevice' = toDevice /\ Len(G) = 1
  BY DEF Transmits
<1>7. In(s)' = o + n
  <2>1. 1 \in DOMAIN G /\ 0 < Len(G) /\ 0 <= Len(G) /\ 0 + 1 = 1
    BY <1>6
  <2>2. G[1].sport = s /\ G[1].len = n
    BY <1>5, <2>1 DEF Says
  <2>3. Carried(G, s, 0 + 1) = Carried(G, s, 0) + (IF G[0 + 1].sport = s THEN G[0 + 1].len ELSE 0)
    BY <2>1, CarriedStep
  <2>4. Carried(G, s, 0) = 0
    BY <2>1, LengthsIn, CarriedNat
  <2>5. Carried(G, s, Len(G)) = n
    BY <1>5, <1>6, <2>1, <2>2, <2>3, <2>4
  <2>6. In(s)' = In(s) + Carried(G, s, Len(G))
    BY InPut DEF DataInv
  <2> QED BY <1>2, <2>5, <2>6
<1>8. PICK y \in Nat : y = 1 + sent
  <2>1. 1 + sent \in Nat
    BY <1>3
  <2> QED BY <2>1
<1>9. seq = y % SeqSpace
  BY <1>2, <1>8 DEF SentNo
<1>10. (1 + sent - ack) % SeqSpace = Lag(seq, ack)
  BY <1>3, <1>8, <1>9, LagOf
<1>11. n = 0 \/ n <= win - Lag(seq, ack)
  <2>1. Lag(seq, ack) \in Int
    BY <1>3, LagRange DEF Numbers
  <2>2. PICK l \in Int : l = Lag(seq, ack)
    BY <2>1
  <2>3. n > 0 => l + n <= win
    BY <1>5, <1>10, <2>2
  <2>4. n = 0 \/ n <= win - l
    BY <1>3, <2>2, <2>3
  <2> QED BY <2>2, <2>4
<1>12. win < SeqSpace /\ RxWindow \in Int
  BY <1>3, Sizes, SizesAssumption
<1>13. /\ Grants(RxWindow, (seq + n) % SeqSpace, ack, win, toDevice, s, o + n, h)
       /\ n > 0 => o + n + h <= RxWindow
  BY <1>3, <1>4, <1>11, <1>12, GrantsSend, GrantsOut
<1>14. SentNo(s)' = (seq + n) % SeqSpace
  <2>1. SentNo(s)' = (y + n) % SeqSpace
    <3>1. 1 + (sent + n) = y + n
      BY <1>3, <1>8
    <3> QED BY <1>5, <3>1 DEF SentNo
  <2> QED BY <1>9, <2>1, ModAdded
<1>15. (seq + n) % SeqSpace = (a + (o + n)) % SeqSpace
  <2>1. PICK z \in Nat : z = a + o
    <3>1. a + o \in Nat
      BY <1>3 DEF Numbers
    <3> QED BY <3>1
  <2>2. ((z % SeqSpace) + n) % SeqSpace = (z + n) % SeqSpace
    BY ModAdded
  <2>3. z + n = a + (o + n)
    BY <1>3, <2>1 DEF Numbers
  <2> QED BY <1>4, <2>1, <2>2, <2>3
<1>16. (o + n) + h <= RxWindow
  BY <1>3, <1>4, <1>12, <1>13
<1>17. PICK m, k : m = o + n /\ k = (seq + n) % SeqSpace
  OBVIOUS
<1>18. /\ In(s)' = m /\ connections'[s].rxBuffered = h /\ connections'[s].txAck = a /\ SentNo(s)' = k
       /\ device'[s].ack = ack /\ device'[s].win = win /\ toDevice' = toDevice /\ m + h <= RxWindow
       /\ k = (a + m) % SeqSpace /\ Grants(RxWindow, k, ack, win, toDevice, s, m, h)
  BY <1>2, <1>5, <1>6, <1>7, <1>13, <1>14, <1>15, <1>16, <1>17
<1> QED BY <1>18, GrantedBy

LEMMA TurnGranted ==
  ASSUME DataInv, DataInv', DeviceActs, NEW s \in Sports, Granted(s)
  PROVE  Granted(s)'
<1>1. PICK p \in Sports : \E G \in Seq(Incoming) : Turn(p, G)
  BY DeviceTurnIs
<1>2. PICK G \in Seq(Incoming) : Turn(p, G)
  BY <1>1
<1>3. connections' = connections /\ PipeTypes
  BY DeviceActsOnly DEF DataInv
<1>4. fromDevice' = fromDevice \o G /\ \A i \in DOMAIN G : i = 1 /\ G[i].sport = p
  BY <1>2 DEF Turn
<1>5. /\ In(s)' = In(s) + Carried(G, s, Len(G)) /\ In(s) \in Nat
      /\ (\A i \in DOMAIN G : G[i].sport = s => G[i].len = 0) => Carried(G, s, Len(G)) = 0
  BY <1>3, <1>4, InPut, InNat
<1>6. (\A i \in DOMAIN G : G[i].sport = s => G[i].len = 0) => In(s)' = In(s)
  BY <1>5
<1>7. CASE s # p
  <2>1. Among(toDevice', toDevice, s)
    BY TurnPipe, PipeAmong
  <2>2. device'[s] = device[s]
    BY <1>2, <1>7 DEF Turn
  <2>3. In(s)' = In(s)
    BY <1>4, <1>6, <1>7
  <2>4. Connected(s)' => Connected(s)
    BY <1>3 DEF Connected
  <2> QED BY <1>3, <2>1, <2>2, <2>3, <2>4, GrantedSame
<1>8. CASE s = p /\ Connected(s)'
  <2>1. Connected(s)
    BY <1>3, <1>8 DEF Connected
  <2>2. ~FirstIs(s, "SYN")
    <3> SUFFICES ASSUME FirstIs(s, "SYN") PROVE FALSE
      OBVIOUS
    <3>1. toDevice \in Seq(Outgoing) /\ toDevice # <<>>
      BY DEF DataInv, PipeTypes, FirstIs
    <3>2. 1 \in DOMAIN toDevice /\ toDevice[1] = Head(toDevice)
      BY <3>1
    <3>3. toDevice[1].sport = s /\ toDevice[1].flags = "SYN"
      BY <3>2 DEF FirstIs
    <3> QED BY <2>1, <3>2, <3>3 DEF DataInv, UInv, SynFirst
  <2>3. ASSUME G = <<>> PROVE In(s)' = In(s)
    <3>1. DOMAIN G = {}
      BY <2>3
    <3> QED BY <1>6, <3>1
  <2>4. CASE Transmits(s, G)
    BY <1>3, <1>4, <1>8, <2>4, SentGranted
  <2>5. CASE Stores(s, G)
    <3>1. /\ G = <<>> /\ device[s].open /\ device'[s].sent = device[s].sent
          /\ toDevice # <<>> /\ toDevice' = Tail(toDevice) /\ Head(toDevice).sport = s
          /\ device'[s].ack = Head(toDevice).ack /\ device'[s].win = Head(toDevice).win
      BY <2>5 DEF Stores, FirstIs
    <3> QED BY <1>3, <2>3, <3>1, TurnedGranted
  <2>6. CASE Shuts(s, G)
    <3>1. G = <<>> /\ ~device'[s].open
      BY <2>6 DEF Shuts
    <3> QED BY <1>3, <2>3, <3>1, TurnedGranted
  <2>7. CASE Ignores(s, G)
    <3>1. G = <<>> /\ ~device'[s].open
      BY <2>7 DEF Ignores
    <3> QED BY <1>3, <2>3, <3>1, TurnedGranted
  <2>8. CASE Consumes(s, G)
    <3>1. /\ G = <<>> /\ device[s].open /\ device'[s].sent = device[s].sent
          /\ toDevice' = toDevice /\ device'[s].ack = device[s].ack /\ device'[s].win = device[s].win
      BY <2>8 DEF Consumes
    <3> QED BY <1>3, <2>3, <3>1, TurnedGranted
  <2>9. CASE HangsUp(s, G)
    <3>1. ~device'[s].open /\ \A i \in DOMAIN G : G[i].len = 0
      BY <2>9 DEF HangsUp, Says
    <3>2. In(s)' = In(s)
      BY <1>6, <3>1
    <3> QED BY <1>3, <3>1, <3>2, TurnedGranted
  <2>10. ~Opens(s, G) /\ ~Declines(s, G)
    BY <2>2 DEF Opens, Declines
  <2> QED BY <1>2, <1>8, <2>4, <2>5, <2>6, <2>7, <2>8, <2>9, <2>10 DEF Turn
<1> QED BY <1>7, <1>8 DEF Granted

LEMMA GrantedStep ==
  ASSUME PortsSuffice, DataInv, DataInv', Next, NEW s \in Sports, Granted(s), Hushed(s)
  PROVE  Granted(s)'
<1>1. CASE ClientActs \/ VersionReply
  <2>1. UNCHANGED <<connections, toDevice, fromDevice, device>>
    BY <1>1, ClientActsOnly DEF VersionReply
  <2> QED BY <2>1 DEF Granted, In, SentNo, Connected
<1>2. CASE DeviceActs
  BY <1>2, TurnGranted
<1>4. CASE WriteFails
  <2>1. UNCHANGED <<fromDevice, device, connections>> /\ \E n \in 0..Len(toDevice) : toDevice' = SubSeq(toDevice, 1, n)
    BY <1>4 DEF WriteFails
  <2>2. Among(toDevice', toDevice, s)
    BY <2>1, PipeAmong
  <2>3. In(s)' = In(s) /\ (Connected(s)' => Connected(s))
    BY <2>1 DEF In, Connected
  <2> QED BY <2>1, <2>2, <2>3, GrantedSame
<1>5. CASE Exit
  <2>1. ~Connected(s)'
    BY <1>5 DEF Exit, Connected
  <2> QED BY <2>1 DEF Granted
<1>6. CASE MuxConnect
  BY <1>6, ConnectAsks, AskedGranted
<1>7. CASE Accepted
  BY <1>7, AcceptedGranted
<1>8. CASE Moving
  BY <1>8, MovingGranted
<1> QED BY <1>1, <1>2, <1>4, <1>5, <1>6, <1>7, <1>8, NextIs DEF TaskActs, Moving, PacketStep
-----------------------------------------------------------------------------
(* What the task has buffered for a client is with its forwarder, or was   *)
(* written and is reported drained.                                        *)
Queued(s) ==
  Connected(s) =>
    \A c \in Conns : c = connections[s].client /\ forwarder[c].pc = "running" =>
      connections[s].rxBuffered = Total(forwarder[c].queue) + InChan(drainChan, s)

LEMMA QueuedSame ==
  ASSUME NEW s \in Sports, Queued(s), InChan(drainChan', s) = InChan(drainChan, s),
         Connected(s)' => /\ Connected(s) /\ connections'[s].client = connections[s].client
                          /\ connections'[s].rxBuffered = connections[s].rxBuffered,
         Connected(s)' => \A c \in Conns : c = connections[s].client /\ forwarder'[c].pc = "running" =>
            forwarder[c].pc = "running" /\ forwarder'[c].queue = forwarder[c].queue
  PROVE  Queued(s)'
<1> SUFFICES ASSUME Connected(s)', NEW c \in Conns, c = connections'[s].client, forwarder'[c].pc = "running"
             PROVE  connections'[s].rxBuffered = Total(forwarder'[c].queue) + InChan(drainChan', s)
  BY DEF Queued
<1>1. Connected(s) /\ c = connections[s].client /\ forwarder[c].pc = "running"
  OBVIOUS
<1>2. connections[s].rxBuffered = Total(forwarder[c].queue) + InChan(drainChan, s)
  BY <1>1 DEF Queued
<1>3. forwarder'[c].queue = forwarder[c].queue /\ connections'[s].rxBuffered = connections[s].rxBuffered
  BY <1>1
<1> QED BY <1>2, <1>3

LEMMA QueuedTypes ==
  ASSUME DataInv, NEW s, Connected(s), NEW c \in Conns, c = connections[s].client
  PROVE  /\ connections[s].rxBuffered \in Nat /\ forwarder[c].queue \in Seq(Nat)
         /\ drainChan \in Seq((0..MaxSport) \X Nat) /\ InChan(drainChan, s) \in Nat
         /\ Total(forwarder[c].queue) \in Nat /\ s \in Sports
<1>1. connections[s] \in Connection /\ s \in Sports
  BY PortUp
<1>2. drainChan \in Seq((0..MaxSport) \X Nat) /\ forwarder[c] \in [pc : {"off", "running", "done"}, queue : Seq(Nat)]
  BY DEF DataInv, UploadInv, ChannelTypes
<1>3. forwarder[c].queue \in Seq(Nat)
  BY <1>2
<1> QED BY <1>1, <1>2, <1>3, InChanNat, TotalFacts DEF Connection

LEMMA MovingQueued ==
  ASSUME DataInv, Moving, NEW s \in Sports, Queued(s)
  PROVE  Queued(s)'
<1> SUFFICES ASSUME Connected(s)', NEW c \in Conns, c = connections'[s].client, forwarder'[c].pc = "running"
             PROVE  connections'[s].rxBuffered = Total(forwarder'[c].queue) + InChan(drainChan', s)
  BY DEF Queued
<1>1. Connected(s) /\ c = connections[s].client /\ (Leaves(s) \/ Drains(s) \/ HandsOn(s))
  BY MovingBuffers DEF Buffers, Connected
<1>2. forwarder[c].pc = "running"
  BY MovingForwards
<1>3. PICK h, q, k : h = connections[s].rxBuffered /\ q = forwarder[c].queue /\ k = InChan(drainChan, s)
  OBVIOUS
<1>4. h \in Nat /\ q \in Seq(Nat) /\ k \in Nat /\ Total(q) \in Nat /\ drainChan \in Seq((0..MaxSport) \X Nat)
  BY <1>1, <1>3, QueuedTypes
<1>5. h = Total(q) + k
  BY <1>1, <1>2, <1>3 DEF Queued
<1>6. drainChan # <<>> => InChan(drainChan, s) = (IF Head(drainChan)[1] = s THEN Head(drainChan)[2] ELSE 0)
                                                   + InChan(Tail(drainChan), s)
  BY <1>4, InChanTaken
<1>7. InChan(drainChan', s) \in Nat
  <2>1. drainChan' = drainChan \/ (drainChan # <<>> /\ drainChan' = Tail(drainChan))
    BY <1>1 DEF Leaves, Drains, HandsOn
  <2>2. drainChan # <<>> => Tail(drainChan) \in Seq((0..MaxSport) \X Nat)
    BY <1>4
  <2>3. drainChan # <<>> => InChan(Tail(drainChan), s) \in Nat
    BY <2>2, InChanNat
  <2> QED BY <1>3, <1>4, <2>1, <2>3
<1>8. CASE Leaves(s)
  <2>1. InChan(drainChan', s) = k
    <3>1. CASE drainChan' = drainChan
      BY <1>3, <3>1
    <3>2. CASE drainChan # <<>> /\ drainChan' = Tail(drainChan) /\ Head(drainChan)[1] # s
      BY <1>3, <1>6, <1>7, <3>2
    <3> QED BY <1>8, <3>1, <3>2 DEF Leaves
  <2>2. connections'[s].rxBuffered = h /\ forwarder'[c].queue = q
    BY <1>1, <1>3, <1>8 DEF Leaves
  <2> QED BY <1>5, <2>1, <2>2
<1>9. CASE Drains(s)
  <2>1. PICK n : n = Head(drainChan)[2] /\ n \in Nat
    BY <1>9 DEF Drains, DataInv, UploadInv, ChannelTypes
  <2>2. PICK k2 : k2 = InChan(drainChan', s)
    OBVIOUS
  <2>3. k = n + k2
    BY <1>3, <1>6, <1>9, <2>1, <2>2 DEF Drains
  <2>4. connections'[s].rxBuffered = Less(h, n) /\ forwarder'[c].queue = q
    BY <1>3, <1>9, <2>1 DEF Drains
  <2>5. Less(h, n) = Total(q) + k2
    <3>1. PICK t \in Nat : t = Total(q)
      BY <1>4
    <3>2. k2 \in Nat /\ n \in Nat
      BY <1>7, <2>1, <2>2
    <3>3. h = t + k
      BY <1>5, <3>1
    <3>4. h - n = t + k2
      BY <2>3, <3>2, <3>3
    <3>5. h \in Nat
      BY <1>4
    <3>6. h =< n => t + k2 = 0
      BY <3>2, <3>4, <3>5
    <3>7. Less(h, n) = t + k2
      BY <3>4, <3>6 DEF Less
    <3> QED BY <3>1, <3>7
  <2> QED BY <2>2, <2>4, <2>5
<1>10. CASE HandsOn(s)
  <2>1. PICK n : n = pkt.len
    OBVIOUS
  <2>2. n \in Nat
    <3>1. fromDevice \in Seq(Incoming) /\ fromDevice # <<>>
      BY <1>10 DEF HandsOn, DataInv, PipeTypes
    <3>2. pkt \in Incoming
      BY <3>1 DEF pkt
    <3> QED BY <2>1, <3>2, LengthsIn
  <2>3. InChan(drainChan', s) = k /\ connections'[s].rxBuffered = h + n
    BY <1>3, <1>10, <2>1 DEF HandsOn
  <2>4. forwarder'[c].queue = Append(q, n)
    BY <1>1, <1>3, <1>10, <2>1 DEF HandsOn, DataInv, UploadInv, ChannelTypes
  <2>5. Total(Append(q, n)) = Total(q) + n
    BY <1>4, <2>2, TotalFacts
  <2> QED BY <1>4, <1>5, <2>2, <2>3, <2>4, <2>5
<1> QED BY <1>1, <1>8, <1>9, <1>10

LEMMA ForwarderQueued ==
  ASSUME DataInv, Claims, Quiet, NEW d \in Conns, ForwarderAct(d), NEW s \in Sports, Queued(s)
  PROVE  Queued(s)'
<1> SUFFICES ASSUME Connected(s)', NEW c \in Conns, c = connections'[s].client, forwarder'[c].pc = "running"
             PROVE  connections'[s].rxBuffered = Total(forwarder'[c].queue) + InChan(drainChan', s)
  BY DEF Queued
<1>1. connections' = connections /\ forwarder[d].pc = "running"
  BY DEF ForwarderAct, ForwarderWrites, ForwarderEnds, ForwarderStep, taskVars
<1>2. Connected(s) /\ c = connections[s].client
  BY <1>1 DEF Connected
<1>3. PICK h, q, k : h = connections[s].rxBuffered /\ q = forwarder[c].queue /\ k = InChan(drainChan, s)
  OBVIOUS
<1>4. /\ h \in Nat /\ q \in Seq(Nat) /\ k \in Nat /\ Total(q) \in Nat /\ drainChan \in Seq((0..MaxSport) \X Nat)
      /\ connections'[s].rxBuffered = h
  BY <1>1, <1>2, <1>3, QueuedTypes
<1>5. mux = "running" /\ sportOf[c] = s
  BY <1>2 DEF Quiet, Claims, Connected
<1>6. forwarder \in [Conns -> [pc : {"off", "running", "done"}, queue : Seq(Nat)]] /\ sportOf[d] \in 0..MaxSport
  BY DEF DataInv, UploadInv, ChannelTypes
<1>7. d # c => sportOf[d] # s
  <2>1. s # 0
    BY Sizes DEF Sports
  <2> QED BY <1>5, <2>1 DEF Claims
<1>8. CASE ForwarderEnds(d)
  <2>1. d # c /\ drainChan' = drainChan
    BY <1>6, <1>8 DEF ForwarderEnds
  <2>2. forwarder'[c] = forwarder[c]
    BY <1>6, <1>8, <2>1 DEF ForwarderEnds
  <2>3. h = Total(q) + k
    BY <1>2, <1>3, <2>2 DEF Queued
  <2> QED BY <1>3, <1>4, <2>1, <2>2, <2>3
<1>9. CASE ForwarderWrites(d)
  <2>1. PICK n : n = Head(forwarder[d].queue)
    OBVIOUS
  <2>2. forwarder[d].queue \in Seq(Nat) /\ forwarder[d].queue # <<>>
    BY <1>6, <1>9 DEF ForwarderWrites
  <2>3. n \in Nat
    BY <2>1, <2>2
  <2>4. /\ drainChan' = Append(drainChan, <<sportOf[d], n>>)
        /\ forwarder' = [forwarder EXCEPT ![d] = [pc |-> "running", queue |-> Tail(@.queue)]]
    BY <1>5, <1>9, <2>1 DEF ForwarderWrites
  <2>5. InChan(Append(drainChan, <<sportOf[d], n>>), s) = InChan(drainChan, s) + (IF sportOf[d] = s THEN n ELSE 0)
    BY <1>4, <1>6, <2>3, InChanPut, ZenonT(40)
  <2>6. CASE d # c
    <3>1. forwarder'[c] = forwarder[c]
      BY <1>6, <2>4, <2>6
    <3>2. InChan(drainChan', s) = k
      BY <1>3, <1>4, <1>7, <2>4, <2>5, <2>6
    <3>3. h = Total(q) + k
      BY <1>2, <1>3, <3>1 DEF Queued
    <3> QED BY <1>3, <1>4, <3>1, <3>2, <3>3
  <2>7. CASE d = c
    <3>1. h = Total(q) + k
      BY <1>1, <1>2, <1>3, <2>7 DEF Queued
    <3>2. InChan(drainChan', s) = k + n
      BY <1>3, <1>5, <2>4, <2>5, <2>7
    <3>3. forwarder'[c].queue = Tail(q)
      BY <1>3, <1>6, <2>4, <2>7
    <3>4. Total(q) = n + Total(Tail(q)) /\ Total(Tail(q)) \in Nat
      <4>1. q # <<>> /\ n = Head(q) /\ Tail(q) \in Seq(Nat)
        BY <1>3, <2>1, <2>2, <2>7
      <4> QED BY <1>4, <4>1, TotalFacts
    <3> QED BY <1>4, <2>3, <3>1, <3>2, <3>3, <3>4
  <2> QED BY <2>6, <2>7
<1> QED BY <1>8, <1>9 DEF ForwarderAct

LEMMA AcceptedQueued ==
  ASSUME DataInv, Claims, Accepted, NEW s \in Sports, Queued(s), Hushed(s)
  PROVE  Queued(s)'
<1>1. PICK p \in Sports, d \in Conns : Begins(p, d)
  BY AcceptedBegins
<1>2. drainChan' = drainChan
  BY <1>1 DEF Begins
<1>3. CASE s # p
  <2>1. Connected(s)' => /\ Connected(s) /\ connections'[s] = connections[s] /\ connections[s].client # d
    BY <1>1, <1>3 DEF Begins, Connected
  <2>2. \A c \in Conns : c # d => forwarder'[c] = forwarder[c]
    BY <1>1 DEF Begins, Rest
  <2> QED BY <1>2, <2>1, <2>2, QueuedSame
<1>4. CASE s = p
  <2> SUFFICES ASSUME Connected(s)', NEW c \in Conns, c = connections'[s].client, forwarder'[c].pc = "running"
               PROVE  connections'[s].rxBuffered = Total(forwarder'[c].queue) + InChan(drainChan', s)
    BY DEF Queued
  <2>1. Connecting(s) /\ Unclaimed(s) /\ Idle(d) /\ c = d
    BY <1>1, <1>4 DEF Begins
  <2>2. forwarder'[c].queue = <<>>
    <3>1. connections'[s].state = "Connected"
      BY DEF Connected
    <3>2. forwarder'[c].queue = forwarder[c].queue
      BY <1>1, <1>4, <2>1, <3>1 DEF Begins
    <3> QED BY <2>1, <3>2 DEF Idle
  <2>3. connections'[s].rxBuffered = 0
    <3>1. PICK r \in Sports : \E Q \in Seq(Outgoing) : Answers(r, Q)
      BY AcceptedAnswers
    <3>2. s \in DOMAIN connections'
      BY DEF Connected
    <3>3. connections'[s].rxBuffered = connections[s].rxBuffered
      BY <3>1, <3>2 DEF Answers
    <3> QED BY <2>1, <3>3 DEF Hushed
  <2>4. InChan(drainChan', s) = 0
    <3>1. drainChan \in Seq((0..MaxSport) \X Nat)
      BY DEF DataInv, UploadInv, ChannelTypes
    <3>2. InChan(drainChan, s) = 0
      BY <2>1, <3>1, InChanNat DEF Unclaimed
    <3> QED BY <1>2, <3>2
  <2>5. Total(<<>>) = 0
    <3>1. Len(<<>>) = 0
      OBVIOUS
    <3> QED BY <3>1, SumOfNone DEF Total
  <2> QED BY <2>2, <2>3, <2>4, <2>5
<1> QED BY <1>3, <1>4

LEMMA QueuedStep ==
  ASSUME PortsSuffice, DataInv, Claims, Quiet, Next, NEW s \in Sports, Queued(s), Hushed(s)
  PROVE  Queued(s)'
<1>1. CASE UNCHANGED <<connections, forwarder, drainChan>>
  BY <1>1, QueuedSame DEF Connected
<1>2. CASE DeviceActs \/ VersionReply \/ WriteFails
  <2>1. UNCHANGED <<connections, forwarder, drainChan>>
    BY <1>2, DeviceActsOnly DEF VersionReply, WriteFails
  <2> QED BY <1>1, <2>1
<1>3. CASE ClientActs
  <2>1. CASE CallShutdown
    BY <1>1, <2>1 DEF CallShutdown
  <2>2. ASSUME NEW d \in Conns, PumpAct(d) PROVE Queued(s)'
    <3>1. UNCHANGED <<connections, forwarder, drainChan>>
      BY <2>2 DEF PumpAct, PumpChecks, PumpNotified, PumpReads, PumpSends, PumpStep, taskVars
    <3> QED BY <1>1, <3>1
  <2>3. ASSUME NEW d \in Conns, UserAct(d) PROVE Queued(s)'
    <3>1. UNCHANGED <<connections, forwarder, drainChan>>
      BY <2>3 DEF UserAct, CallConnect, UserWrites, UserReads, UserShuts, UserDrops, UserStep, taskVars
    <3> QED BY <1>1, <3>1
  <2>4. ASSUME NEW d \in Conns, ForwarderAct(d) PROVE Queued(s)'
    BY <2>4, ForwarderQueued
  <2> QED BY <1>3, <2>1, <2>2, <2>3, <2>4 DEF ClientActs
<1>4. CASE Exit
  <2>1. ~Connected(s)'
    BY <1>4 DEF Exit, Connected
  <2> QED BY <2>1 DEF Queued
<1>5. CASE MuxConnect
  <2>1. PICK p \in Sports : Asks(p)
    BY <1>5, ConnectAsks
  <2>2. UNCHANGED <<forwarder, drainChan>> /\ Nothing(p)
    BY <2>1 DEF Asks
  <2>3. CASE s # p
    <3>1. /\ DOMAIN connections' \subseteq DOMAIN connections \cup {p}
          /\ \A q \in DOMAIN connections : q # p => connections'[q] = connections[q]
      BY <2>1 DEF Asks
    <3>2. Connected(s)' => Connected(s) /\ connections'[s] = connections[s]
      BY <2>3, <3>1 DEF Connected
    <3> QED BY <2>2, <3>2, QueuedSame
  <2>4. CASE s = p
    <3>1. s \notin DOMAIN connections
      BY <2>2, <2>4 DEF Nothing
    <3>2. CASE connections' = connections
      BY <3>1, <3>2 DEF Connected, Queued
    <3>3. ASSUME NEW c \in Conns, connections'[s] = NewConnection(c) PROVE Queued(s)'
      <4>1. NewConnection(c).state = "Connecting"
        BY DEF NewConnection
      <4> QED BY <3>3, <4>1 DEF Connected, Queued
    <3>4. connections' = connections \/ \E c \in Conns : connections'[s] = NewConnection(c)
      BY <2>1, <2>4 DEF Asks
    <3> QED BY <3>2, <3>3, <3>4
  <2> QED BY <2>3, <2>4
<1>6. CASE Accepted
  BY <1>6, AcceptedQueued
<1>7. CASE Moving
  BY <1>7, MovingQueued
<1> QED BY <1>2, <1>3, <1>4, <1>5, <1>6, <1>7, NextIs DEF TaskActs, Moving, PacketStep
-----------------------------------------------------------------------------
HostInv == \A s \in Sports : Hushed(s) /\ Granted(s) /\ Queued(s)

LEMMA HostInvInit == Init => HostInv
<1> SUFFICES ASSUME Init, NEW s \in Sports PROVE Hushed(s) /\ Granted(s) /\ Queued(s)
  BY DEF HostInv
<1>1. DOMAIN connections = {}
  BY DEF Init
<1> QED BY <1>1 DEF Hushed, Granted, Queued, Connecting, Connected

LEMMA HostInvStep ==
  ASSUME PortsSuffice, DataInv, DataInv', Claims, Quiet, HostInv, Next
  PROVE  HostInv'
<1>1. ASSUME NEW s \in Sports PROVE Hushed(s)' /\ Granted(s)' /\ Queued(s)'
  <2>1. Hushed(s) /\ Granted(s) /\ Queued(s)
    BY DEF HostInv
  <2> QED BY <2>1, HushedStep, GrantedStep, QueuedStep
<1> QED BY <1>1 DEF HostInv

LEMMA HostInvAlways ==
  ASSUME PortsSuffice
  PROVE  Spec => [](DataInv /\ HostInv)
<1>1. /\ DataInv /\ DataInv' /\ LedgerInv /\ EndInv /\ HostInv
      /\ [Next /\ UNCHANGED load]_<<vars, load>>
      => HostInv'
  <2> SUFFICES ASSUME DataInv, DataInv', LedgerInv, EndInv, HostInv, Next \/ UNCHANGED vars PROVE HostInv'
    BY DEF vars
  <2>1. CASE UNCHANGED vars
    <3>1. UNCHANGED <<writerUp, connections, drainChan, toDevice, fromDevice, forwarder, device>>
      BY <2>1 DEF vars
    <3> QED BY <3>1 DEF HostInv, Hushed, Granted, Queued, Connecting, Connected, NoneIn, OnlySyn, In, SentNo
  <2>2. CASE Next
    BY <2>2, HostInvStep DEF LedgerInv, EndInv
  <2> QED BY <2>1, <2>2
<1>2. Init => HostInv
  BY HostInvInit
<1>3. Spec => [](DataInv /\ LedgerInv)
  BY LedgerInvAlways
<1>4. Spec => [](DataInv /\ EndInv)
  BY EndInvAlways
<1> QED BY <1>1, <1>2, <1>3, <1>4, PTL DEF Spec

LEMMA WithinIfHostInv == DataInv /\ HostInv => HostNotOverrun
<1> SUFFICES ASSUME DataInv, HostInv, NEW s \in Sports, Connected(s)
             PROVE  /\ connections[s].rxBuffered <= RxWindow
                    /\ forwarder[connections[s].client].pc = "running" =>
                         connections[s].rxBuffered =
                           Total(forwarder[connections[s].client].queue) + InChan(drainChan, s)
  BY DEF HostNotOverrun
<1>1. In(s) + connections[s].rxBuffered <= RxWindow
  BY DEF HostInv, Granted
<1>2. In(s) \in Nat /\ connections[s].rxBuffered \in Nat /\ RxWindow \in Nat
  BY GrantedTypes, Sizes, SizesAssumption
<1>3. connections[s].rxBuffered <= RxWindow
  BY <1>1, <1>2
<1>4. connections[s].client \in Conns
  BY PortUp DEF Connection
<1> QED BY <1>3, <1>4 DEF HostInv, Queued

(* As long as a task is not called more often than there are source ports,  *)
(* the throttle holds: what the task, the channel and the pump hold of a    *)
(* client's bytes stays below the high mark, a full channel and one chunk   *)
(* (the pump's tx_pause loop, run, flush_pending).                          *)
THEOREM ThrottleHolds ==
  ASSUME PortsSuffice
  PROVE  Spec => []PendingBounded
<1>1. FillInv => PendingBounded
  BY PendingIfFillInv
<1>2. Spec => []FillInv
  BY FillInvAlways
<1> QED BY <1>1, <1>2, PTL

(* Under the same condition the state keeps its types. That no window is    *)
(* negative is part of it: what the device holds never exceeds its buffer,  *)
(* so the window of its next frame, and the one the task notes from it      *)
(* (handle_incoming), is a number of bytes.                                 *)
THEOREM TypesHold ==
  ASSUME PortsSuffice
  PROVE  Spec => []TypeOK
<1>1. LedgerInv /\ Windows => TypeOK
  BY TypesIf
<1>2. Spec => [](LedgerInv /\ Windows)
  BY WindowsAlways
<1> QED BY <1>1, <1>2, PTL

(* Under the same condition writing is finished before closing: the reset   *)
(* of a client that has shut its side down is behind every byte it wrote,   *)
(* in what the device took and on the pipe (run, handle_incoming).           *)
THEOREM WrittenBeforeClosing ==
  ASSUME PortsSuffice
  PROVE  Spec => []NoTruncation
<1>1. DataInv /\ EndInv => NoTruncation
  BY WholeIfEndInv
<1>2. Spec => [](DataInv /\ EndInv)
  BY EndInvAlways
<1> QED BY <1>1, <1>2, PTL

(* Under the same condition a slow client holds back at most RX_WINDOW      *)
(* bytes of a device that keeps to the windows it was told, and what is     *)
(* counted as held is with the forwarder or was written and is reported     *)
(* drained (handle_incoming, the forwarder, run, send_tcp).                 *)
THEOREM WindowKept ==
  ASSUME PortsSuffice
  PROVE  Spec => []HostNotOverrun
<1>1. DataInv /\ HostInv => HostNotOverrun
  BY WithinIfHostInv
<1>2. Spec => [](DataInv /\ HostInv)
  BY HostInvAlways
<1> QED BY <1>1, <1>2, PTL
=============================================================================
