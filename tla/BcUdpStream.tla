----------------------------- MODULE BcUdpStream -----------------------------
(***************************************************************************)
(* The data path of class BcUdpStream (src/bcudp/BcUdpStream.ts) once      *)
(* connect() has returned: an ARQ protocol over UDP between the client and *)
(* a camera.  The client's half is translated from the class; the camera   *)
(* and the network are external and modelled from how the class uses them. *)
(*                                                                         *)
(* The payload of the n-th packet of a direction is n itself, so the       *)
(* properties can tell which packet a chunk is; on the wire it carries the *)
(* 32-bit id n % IdSpace.  Payload `Foreign' belongs to another session.   *)
(*                                                                         *)
(* C2D_HB and C2D_A datagrams only keep the camera's session alive; the    *)
(* camera modelled here never times out, so they are not put on the wire.  *)
(***************************************************************************)
EXTENDS Integers, Sequences, FiniteSets, FiniteSetsExt

CONSTANTS
  IdSpace,       \* size of the packet id space (2^32 in the code)
  MaxAck,        \* MAX_ACK_PAYLOAD_BYTES (200 in the code)
  Ports,         \* UDP ports the camera may send from
  MaxRx,         \* bound: packets the camera sends
  MaxTx,         \* bound: packets the client writes
  MaxFragments,  \* bound: packets one write() is split into
  MaxMoves,      \* bound: times the camera changes its port
  MaxThrows,     \* bound: times a 'data' listener throws
  NetCap,        \* bound: datagrams in flight per direction, more are dropped
  MayDuplicate,  \* the network may deliver a datagram twice
  MayClose       \* the owner may close the stream, the camera may disconnect

ASSUME ConstantsAssumption ==
  /\ IdSpace \in Nat /\ IdSpace > 1
  /\ MaxAck \in Nat /\ MaxAck > 0
  /\ Ports # {}
  /\ MaxRx \in Nat /\ MaxTx \in Nat /\ MaxFragments \in Nat
  /\ MaxMoves \in Nat /\ MaxThrows \in Nat /\ NetCap \in Nat
  /\ MayDuplicate \in BOOLEAN /\ MayClose \in BOOLEAN

VARIABLES
  sock,               \* the socket is open (this.sock is defined)
  remote,             \* port the client sends to
  sendPacketId,       \* id of the next packet written
  written,            \* history: number of packets written
  sent,               \* Map id -> packet, unacknowledged packets of the client
  received,           \* Map id -> payload, packets buffered out of order
  packetsWant,        \* id of the next packet in order; never wrapped
  pendingData,        \* chunks to be emitted
  pendingDataOffset,  \* chunks of pendingData already emitted
  drainScheduled,     \* a setImmediate of scheduleDrain is outstanding
  lastAckPacket,      \* the acknowledgement the 10 ms timer sends
  delivered,          \* history: the chunks handed to the 'data' listener
  throws,             \* history: number of times the listener threw
  camNext,            \* camera: number of packets sent
  camUnacked,         \* camera: packets it still retransmits
  camGot,             \* camera: packets received from the client
  camPort,            \* camera: the port it uses now
  camMoves,           \* history: number of port changes
  toCam,              \* datagrams on their way to the camera
  toCli               \* datagrams on their way to the client

clientVars == <<sock, remote, sendPacketId, written, sent, received,
                packetsWant, pendingData, pendingDataOffset, drainScheduled,
                lastAckPacket, delivered, throws>>
camVars == <<camNext, camUnacked, camGot, camPort, camMoves>>
netVars == <<toCam, toCli>>
vars == <<clientVars, camVars, netVars>>

rxVars == <<received, packetsWant, pendingData, pendingDataOffset,
            drainScheduled, lastAckPacket, delivered, throws>>
txVars == <<sendPacketId, written, sent>>

-----------------------------------------------------------------------------
(* Packets, acknowledgements and the network.                              *)

Foreign == -1
EmptyAckId == IdSpace - 1            \* 0xffffffff: "nothing received yet"

Entry(id, n) == [id |-> id, data |-> n]
Has(map, id) == \E e \in map : e.id = id
Get(map, id) == (CHOOSE e \in map : e.id = id).data
Put(map, id, n) == {e \in map : e.id # id} \cup {Entry(id, n)}

\* The first id from `from' on that the map does not hold.
FirstMissing(map, from) ==
  CHOOSE n \in from .. IdSpace :
    /\ ~Has(map, n)
    /\ \A k \in from .. n - 1 : Has(map, k)

Ack(id, payload) == [id |-> id, payload |-> payload]

\* Mutant: the truth table is read from one place too early.
Covers_TableShifted(ack, id) ==
  /\ ack.id # EmptyAckId
  /\ \/ id <= ack.id
     \/ \E i \in DOMAIN ack.payload :
          ack.payload[i] = 1 /\ id = (ack.id + i - 1) % IdSpace

\* An acknowledgement covers every id up to its own, and the ones its
\* truth table marks; the special empty one covers nothing.
Covers(ack, id) ==
  /\ ack.id # EmptyAckId
  /\ \/ id <= ack.id
     \/ \E i \in DOMAIN ack.payload :
          ack.payload[i] = 1 /\ id = (ack.id + i) % IdSpace

\* The truth table from firstMissing on: up to the largest buffered id, but
\* no longer than `cap'.
AckTable(map, firstMissing, cap) ==
  LET max == Max({firstMissing - 1} \cup {e.id : e \in map})
      len == Min({max - firstMissing + 1, cap})
  IN [i \in 1 .. len |-> IF Has(map, firstMissing + i - 1) THEN 1 ELSE 0]

\* Mutants: the ACK names the first missing id itself; the truth table is one
\* byte longer than allowed.
AckFor_OneTooMany(map, want) ==
  IF want = 0 THEN Ack(EmptyAckId, <<>>)
  ELSE Ack(want % IdSpace, AckTable(map, want, MaxAck))
AckFor_LongTable(map, want) ==
  IF want = 0 THEN Ack(EmptyAckId, <<>>)
  ELSE Ack((want - 1) % IdSpace, AckTable(map, want, MaxAck + 1))

\* buildAckPayload: the last id in order, then the truth table.
AckFor(map, want) ==
  IF want = 0 THEN Ack(EmptyAckId, <<>>)
  ELSE LET firstMissing == FirstMissing(map, want)
       IN Ack((firstMissing - 1) % IdSpace, AckTable(map, firstMissing, MaxAck))

DataTo(port, e) == [kind |-> "data", port |-> port, body |-> e]
AckTo(port, a) == [kind |-> "ack", port |-> port, body |-> a]

\* Datagrams to the client carry the connection they belong to.
Inbound(kind, port, conn, body) ==
  [kind |-> kind, port |-> port, conn |-> conn, body |-> body]
None == Entry(0, Foreign)

\* A batch of datagrams enters the network, or is lost when it is full.
Send(net, batch) ==
  IF Cardinality(net \cup batch) <= NetCap THEN net \cup batch ELSE net

Take(net, m) == IF MayDuplicate THEN {net, net \ {m}} ELSE {net \ {m}}

-----------------------------------------------------------------------------
(* The client.                                                             *)

\* write(): the buffer is cut into k packets, each remembered and sent.
Write(k) ==
  /\ sock
  /\ written + k <= MaxTx
  /\ LET new == {Entry((sendPacketId + i) % IdSpace, written + i) : i \in 0 .. k - 1}
     IN /\ sent' = {e \in sent : ~Has(new, e.id)} \cup new
        /\ toCam' = Send(toCam, {DataTo(remote, e) : e \in new})
  /\ sendPacketId' = (sendPacketId + k) % IdSpace
  /\ written' = written + k
  /\ UNCHANGED <<sock, remote, rxVars, camVars, toCli>>

\* The 10 ms timer: sendAckFast().
AckTick ==
  /\ sock
  /\ toCam' = Send(toCam, {AckTo(remote, lastAckPacket)})
  /\ UNCHANGED <<clientVars, camVars, toCli>>

\* The 500 ms timer: resendOutstanding().
ResendTick ==
  /\ sock
  /\ toCam' = Send(toCam, {DataTo(remote, e) : e \in sent})
  /\ UNCHANGED <<clientVars, camVars, toCli>>

\* handlePacket: a datagram of another connection changes nothing.
RecvStale(m) ==
  /\ sock
  /\ m \in toCli /\ m.conn = "old"
  /\ toCli' \in Take(toCli, m)
  /\ UNCHANGED <<clientVars, camVars, toCam>>

\* Mutants: the connection id is not compared; the source is not followed.
Accepts_AnyConnection(m) ==
  /\ sock
  /\ m \in toCli
  /\ toCli' \in Take(toCli, m)
  /\ remote' = m.port
Accepts_FixedRemote(m) ==
  /\ sock
  /\ m \in toCli /\ m.conn = "cur"
  /\ toCli' \in Take(toCli, m)
  /\ remote' = remote

\* The datagram is this connection's; updateRemote() follows its source.
Accepts(m) ==
  /\ sock
  /\ m \in toCli /\ m.conn = "cur"
  /\ toCli' \in Take(toCli, m)
  /\ remote' = m.port

\* Mutant: the drain is scheduled only for a second chunk.
ScheduleDrain_OffByOne(pending) ==
  drainScheduled \/ Len(pending) > pendingDataOffset + 1

\* The end of flushReceived() and the flag of scheduleDrain().
ScheduleDrain(pending) ==
  drainScheduled \/ Len(pending) > pendingDataOffset

\* handlePacket, kind "data", with flushReceived() and updateAckPacket():
\* the contiguous run moves to pendingData and a drain is scheduled.
RecvData(m) ==
  /\ m.kind = "data"
  /\ Accepts(m)
  /\ IF m.body.id < packetsWant
     THEN UNCHANGED rxVars
     ELSE LET buffered == Put(received, m.body.id, m.body.data)
              want == FirstMissing(buffered, packetsWant)
              run == [i \in 1 .. want - packetsWant |->
                        Get(buffered, packetsWant + i - 1)]
              rest == {e \in buffered : e.id >= want}
          IN /\ received' = rest
             /\ packetsWant' = want
             /\ pendingData' = pendingData \o run
             /\ drainScheduled' = ScheduleDrain(pendingData')
             /\ lastAckPacket' = AckFor(rest, want)
             /\ UNCHANGED <<pendingDataOffset, delivered, throws>>
  /\ UNCHANGED <<sock, txVars, camVars, toCam>>

\* handlePacket, kind "ack", with handleAckFromCamera().
RecvAck(m) ==
  /\ m.kind = "ack"
  /\ Accepts(m)
  /\ sent' = {e \in sent : ~Covers(m.body, e.id)}
  /\ UNCHANGED <<sock, sendPacketId, written, rxVars, camVars, toCam>>

\* handlePacket, D2C_HB or a late D2C_T: only the remote address is followed.
RecvProbe(m) ==
  /\ m.kind = "probe"
  /\ Accepts(m)
  /\ UNCHANGED <<sock, txVars, rxVars, camVars, toCam>>

\* handlePacket, D2C_DISC: the error is emitted and the stream closes itself.
\* This branch does not follow the source address.
RecvDisc(m) ==
  /\ sock
  /\ m \in toCli /\ m.kind = "disc" /\ m.conn = "cur"
  /\ toCli' \in Take(toCli, m)
  /\ sock' = FALSE
  /\ UNCHANGED <<remote, txVars, rxVars, camVars, toCam>>

\* close(): the timers stop with the socket; maps and queues are left as is.
Close ==
  /\ MayClose
  /\ sock
  /\ sock' = FALSE
  /\ UNCHANGED <<remote, txVars, rxVars, camVars, netVars>>

\* Mutants of the `finally' block: the queue, or the offset, is not reset.
Drain_KeepsQueue ==
  /\ drainScheduled
  /\ drainScheduled' = FALSE
  /\ delivered' = delivered \o SubSeq(pendingData, pendingDataOffset + 1, Len(pendingData))
  /\ UNCHANGED <<sock, remote, txVars, received, packetsWant, lastAckPacket,
                 pendingData, pendingDataOffset, throws, camVars, netVars>>
Drain_KeepsOffset ==
  /\ drainScheduled
  /\ drainScheduled' = FALSE
  /\ delivered' = delivered \o SubSeq(pendingData, pendingDataOffset + 1, Len(pendingData))
  /\ pendingData' = <<>>
  /\ pendingDataOffset' = Len(pendingData)
  /\ UNCHANGED <<sock, remote, txVars, received, packetsWant, lastAckPacket,
                 throws, camVars, netVars>>

\* The setImmediate of scheduleDrain(): every chunk not yet emitted is.  The
\* 'close' event precedes the setImmediate and its handler has removed the
\* listeners, so that after close() the chunks are emitted to nobody.
Drain ==
  /\ drainScheduled
  /\ drainScheduled' = FALSE
  /\ delivered' = IF sock
                  THEN delivered \o SubSeq(pendingData, pendingDataOffset + 1,
                                           Len(pendingData))
                  ELSE delivered
  /\ pendingData' = <<>>
  /\ pendingDataOffset' = 0
  /\ UNCHANGED <<sock, remote, txVars, received, packetsWant, lastAckPacket,
                 throws, camVars, netVars>>

\* The same setImmediate when the listener throws at the k-th chunk: the loop
\* ends before the offset is advanced past it, and nothing is rescheduled.
DrainThrow(k) ==
  /\ throws < MaxThrows
  /\ sock
  /\ drainScheduled
  /\ k \in pendingDataOffset + 1 .. Len(pendingData)
  /\ drainScheduled' = FALSE
  /\ delivered' = delivered \o SubSeq(pendingData, pendingDataOffset + 1, k)
  /\ pendingDataOffset' = k - 1
  /\ throws' = throws + 1
  /\ UNCHANGED <<sock, remote, txVars, received, packetsWant, pendingData,
                 lastAckPacket, camVars, netVars>>

-----------------------------------------------------------------------------
(* The camera (external): the same protocol from the other end.            *)

CamData(n) == Inbound("data", camPort, "cur", Entry(n % IdSpace, n))

CamSend ==
  /\ camNext < MaxRx
  /\ camNext' = camNext + 1
  /\ camUnacked' = camUnacked \cup {camNext}
  /\ toCli' = Send(toCli, {CamData(camNext)})
  /\ UNCHANGED <<clientVars, camGot, camPort, camMoves, toCam>>

CamResend(n) ==
  /\ n \in camUnacked
  /\ toCli' = Send(toCli, {CamData(n)})
  /\ UNCHANGED <<clientVars, camVars, toCam>>

CamRecvAck ==
  \E m \in toCam :
    /\ m.kind = "ack" /\ m.port = camPort
    /\ toCam' \in Take(toCam, m)
    /\ camUnacked' = {n \in camUnacked : ~Covers(m.body, n % IdSpace)}
    /\ UNCHANGED <<clientVars, camNext, camGot, camPort, camMoves, toCli>>

CamRecvData(m) ==
  /\ m \in toCam
  /\ m.kind = "data" /\ m.port = camPort
  /\ toCam' \in Take(toCam, m)
  /\ camGot' = camGot \cup {m.body.data}
  /\ UNCHANGED <<clientVars, camNext, camUnacked, camPort, camMoves, toCli>>

\* Packets from 0 on that the camera holds without a gap.
CamInOrder(got) ==
  CHOOSE n \in 0 .. MaxTx : n \notin got /\ 0 .. n - 1 \subseteq got

CamAck ==
  LET first == CamInOrder(camGot)
      max == Max({first - 1} \cup camGot)
  IN IF first = 0 THEN Ack(EmptyAckId, <<>>)
     ELSE Ack((first - 1) % IdSpace,
              [i \in 1 .. max - first + 1 |-> IF first + i - 1 \in camGot THEN 1 ELSE 0])

CamSendAck ==
  /\ toCli' = Send(toCli, {Inbound("ack", camPort, "cur", CamAck)})
  /\ UNCHANGED <<clientVars, camVars, toCam>>

CamProbe ==
  /\ toCli' = Send(toCli, {Inbound("probe", camPort, "cur", None)})
  /\ UNCHANGED <<clientVars, camVars, toCam>>

CamDisc ==
  /\ MayClose
  /\ toCli' = Send(toCli, {Inbound("disc", camPort, "cur", None)})
  /\ UNCHANGED <<clientVars, camVars, toCam>>

\* Discovery happens on one port, the stream may come from another.
CamMovePort(p) ==
  /\ camMoves < MaxMoves
  /\ p \in Ports /\ p # camPort
  /\ camPort' = p
  /\ camMoves' = camMoves + 1
  /\ UNCHANGED <<clientVars, camNext, camUnacked, camGot, netVars>>

\* The network loses a datagram.
LoseToCam ==
  /\ \E m \in toCam : toCam' = toCam \ {m}
  /\ UNCHANGED <<clientVars, camVars, toCli>>

LoseToCli ==
  /\ \E m \in toCli : toCli' = toCli \ {m}
  /\ UNCHANGED <<clientVars, camVars, toCam>>

-----------------------------------------------------------------------------
\* Datagrams of an earlier session that may still be in flight.
Stale == {Inbound("data", p, "old", Entry(0, Foreign)) : p \in Ports}
           \cup {Inbound("ack", p, "old", Ack(0, <<>>)) : p \in Ports}

\* The state startTimers() leaves: nothing sent, the empty ACK prepared.
Init ==
  /\ sock = TRUE
  /\ remote \in Ports
  /\ camPort = remote
  /\ sendPacketId = 0 /\ written = 0
  /\ sent = {} /\ received = {}
  /\ packetsWant = 0
  /\ pendingData = <<>> /\ pendingDataOffset = 0
  /\ drainScheduled = FALSE
  /\ lastAckPacket = Ack(EmptyAckId, <<>>)
  /\ delivered = <<>> /\ throws = 0
  /\ camNext = 0 /\ camUnacked = {} /\ camGot = {} /\ camMoves = 0
  /\ toCam = {}
  /\ toCli \in {{}} \cup {{m} : m \in Stale}

ClientStep ==
  \/ \E k \in 1 .. MaxFragments : Write(k)
  \/ AckTick
  \/ ResendTick
  \/ \E m \in toCli : RecvStale(m)
  \/ \E m \in toCli : RecvData(m)
  \/ \E m \in toCli : RecvAck(m)
  \/ \E m \in toCli : RecvProbe(m)
  \/ \E m \in toCli : RecvDisc(m)
  \/ Close
  \/ Drain
  \/ \E k \in 1 .. Len(pendingData) : DrainThrow(k)

CamStep ==
  \/ CamSend
  \/ \E n \in camUnacked : CamResend(n)
  \/ CamRecvAck
  \/ \E m \in toCam : CamRecvData(m)
  \/ CamSendAck
  \/ CamProbe
  \/ CamDisc
  \/ \E p \in Ports : CamMovePort(p)

Next == ClientStep \/ CamStep \/ LoseToCam \/ LoseToCli

Spec == Init /\ [][Next]_vars

(* Fairness: Node runs a due interval and a queued setImmediate eventually; *)
(* the camera retransmits what is not acknowledged, acknowledges and probes *)
(* periodically; a datagram sent again and again is eventually received.    *)
ReceiveIndex(n) == \E m \in toCli : m.kind = "data" /\ m.body.data = n /\ RecvData(m)
CamReceiveIndex(n) == \E m \in toCam : m.kind = "data" /\ m.body.data = n /\ CamRecvData(m)

Fairness ==
  /\ WF_vars(AckTick) /\ WF_vars(ResendTick) /\ WF_vars(Drain)
  /\ WF_vars(CamSendAck) /\ WF_vars(CamProbe)
  /\ SF_vars(CamRecvAck)
  /\ SF_vars(\E m \in toCli : RecvAck(m))
  /\ SF_vars(\E m \in toCli : RecvProbe(m))
  /\ \A n \in 0 .. MaxRx - 1 : WF_vars(CamResend(n)) /\ SF_vars(ReceiveIndex(n))
  /\ \A n \in 0 .. MaxTx - 1 : SF_vars(CamReceiveIndex(n))

FairSpec == Spec /\ Fairness

-----------------------------------------------------------------------------
(* Properties.                                                             *)

\* Type invariant of the state that BcUdpStream's fields hold.
TypeOK ==
  /\ sock \in BOOLEAN /\ remote \in Ports /\ camPort \in Ports
  /\ written \in 0 .. MaxTx
  /\ sendPacketId = written % IdSpace
  /\ sent \subseteq [id : 0 .. IdSpace - 1, data : 0 .. written - 1]
  /\ received \subseteq [id : 0 .. IdSpace - 1, data : 0 .. camNext - 1]
  /\ packetsWant \in 0 .. IdSpace
  /\ pendingData \in Seq(Int)
  /\ pendingDataOffset \in 0 .. Len(pendingData)
  /\ drainScheduled \in BOOLEAN
  /\ lastAckPacket.id \in 0 .. IdSpace - 1
  /\ delivered \in Seq(Int)
  /\ throws \in 0 .. MaxThrows
  /\ camNext \in 0 .. MaxRx /\ camUnacked \subseteq 0 .. camNext - 1
  /\ camGot \subseteq 0 .. written - 1
  /\ camMoves \in 0 .. MaxMoves

\* As long as no listener throws, what the 'data' listener has seen is the
\* camera's stream without a gap, a duplicate or a swap, whatever order
\* datagrams arrived in (handlePacket, flushReceived, scheduleDrain).
DeliveredInOrder ==
  throws = 0 => \A i \in 1 .. Len(delivered) : delivered[i] = i - 1

\* A packet the camera no longer retransmits has been taken off the wire: it
\* is buffered or it is part of the run already moved to pendingData.  An ACK
\* that covers a packet never received would lose it for good.
NoRxLoss ==
  \A n \in 0 .. camNext - 1 :
    \/ n \in camUnacked
    \/ n < packetsWant
    \/ \E e \in received : e.data = n

\* A packet write() was given stays in `sent' until the camera has it, so that
\* resendOutstanding() repeats it (handleAckFromCamera deletes nothing else).
NoTxLoss ==
  \A n \in 0 .. written - 1 : n \in camGot \/ \E e \in sent : e.data = n

\* The truth table of an ACK in flight marks only ids that the client holds or
\* has consumed, and stays within MAX_ACK_PAYLOAD_BYTES: a camera disconnects
\* when it grows beyond.
AckTruthful ==
  \A m \in toCam : m.kind = "ack" =>
    /\ Len(m.body.payload) <= MaxAck
    /\ \A id \in 0 .. IdSpace - 1 :
         Covers(m.body, id) => id < packetsWant \/ Has(received, id)

\* A chunk in pendingData always has a drain to come, as long as no listener
\* throws: scheduleDrain() is never skipped by its drainScheduled flag.
DrainPending ==
  throws = 0 /\ pendingDataOffset < Len(pendingData) => drainScheduled

\* Every packet the camera sends reaches the listener, and the camera stops
\* retransmitting it, unless the stream closes.
EverythingDelivered ==
  \A n \in 0 .. MaxRx - 1 :
    camNext > n ~> \/ Len(delivered) > n /\ n \notin camUnacked
                   \/ ~sock

\* Every packet written reaches the camera, and is then forgotten, unless the
\* stream closes: `sent' does not keep a packet that will be resent for ever.
EverythingAcknowledged ==
  \A n \in 0 .. MaxTx - 1 :
    written > n ~> \/ n \in camGot /\ ~\E e \in sent : e.data = n
                   \/ ~sock

\* The chunks the listener has seen, one it threw on counted once.
Repeats == {i \in 2 .. Len(delivered) : delivered[i] = delivered[i - 1]}
SeenOnce ==
  [i \in 1 .. Len(delivered) - Cardinality(Repeats) |->
     delivered[CHOOSE j \in DOMAIN delivered \ Repeats :
                 j - Cardinality(Repeats \cap 1 .. j) = i]]

\* The stream implements two FIFO channels.  A 'data' listener that throws costs
\* no chunk and no order: it sees the chunk it threw on twice and nothing else
\* changes (scheduleDrain keeps the chunk it could not hand over).
Channel == INSTANCE ReliableChannel
             WITH open <- sock, offered <- camNext, delivered <- SeenOnce,
                  arrived <- CamInOrder(camGot)
ImplementsChannel == Channel!Spec
=============================================================================
