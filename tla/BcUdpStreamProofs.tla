-------------------------- MODULE BcUdpStreamProofs --------------------------
(***************************************************************************)
(* Safety of the BCUDP data path, and that it implements the two FIFO      *)
(* channels of ReliableChannel, for every value of the constants, as long  *)
(* as the packet ids of a session do not wrap (a session in which they do  *)
(* is outside the theorems).                                               *)
(***************************************************************************)
EXTENDS BcUdpStream, FiniteSetsExt, FiniteSetTheorems, SequenceTheorems,
        WellFoundedInduction, TLAPS

NoWrap == MaxRx <= IdSpace /\ MaxTx <= IdSpace

Ids == 0 .. IdSpace - 1

\* The id has been consumed in order or is in the buffer.
Held(want, map, id) == id < want \/ Has(map, id)

-----------------------------------------------------------------------------
(* Least and greatest elements of bounded sets of integers: the facts the  *)
(* proofs need about the CHOOSE expressions of the model.                  *)

\* A non-empty set of naturals has a least element.
LEMMA LeastNatural ==
  ASSUME NEW T, T \subseteq Nat, T # {}
  PROVE  \E n \in T : \A k \in T : n <= k
<1>1. \E x \in T : \A y \in T : ~(<<y, x>> \in OpToRel(<, Nat))
  BY NatLessThanWellFounded, WFMin, Zenon
<1>2. PICK x \in T : \A y \in T : ~(<<y, x>> \in OpToRel(<, Nat))
  BY <1>1
<1>3. \A y \in T : ~(y < x)
  BY <1>2 DEF OpToRel
<1>4. QED
  BY <1>3

\* The CHOOSE idiom "first n from `from' on that satisfies Q" is defined as
\* soon as some candidate up to `to' satisfies it.
LEMMA LeastInRange ==
  ASSUME NEW from \in Nat, NEW to \in Nat, NEW Q, to \in Q, from <= to
  PROVE  \E n \in from .. to : n \in Q /\ \A k \in from .. n - 1 : k \notin Q
<1> DEFINE T == {n \in from .. to : n \in Q}
<1>1. T \subseteq Nat /\ T # {}
  OBVIOUS
<1>2. PICK n \in T : \A k \in T : n <= k
  BY <1>1, LeastNatural
<1>3. QED
  BY <1>2

\* Max is defined on a non-empty set of integers with an upper bound.
LEMMA MaxProperties ==
  ASSUME NEW S, S \subseteq Int, S # {}, NEW b \in Int, \A x \in S : x <= b
  PROVE  Max(S) \in S /\ \A x \in S : x <= Max(S)
<1> DEFINE T == {n \in Nat : \E x \in S : n = b - x}
<1>1. T # {}
  <2>1. PICK x \in S : TRUE
    OBVIOUS
  <2>2. b - x \in T
    BY <2>1
  <2>3. QED
    BY <2>2
<1>2. PICK d \in T : \A k \in T : d <= k
  BY <1>1, LeastNatural
<1>3. PICK m \in S : d = b - m
  OBVIOUS
<1>4. \A x \in S : b - m <= b - x
  <2>1. SUFFICES ASSUME NEW x \in S PROVE b - m <= b - x
    OBVIOUS
  <2>2. b - x \in T
    OBVIOUS
  <2>3. QED
    BY <1>2, <1>3, <2>2
<1>5. \A x \in S : m >= x
  BY <1>4
<1>6. QED
  BY <1>3, <1>5 DEF Max

\* Min of two integers.
LEMMA MinOfTwo ==
  ASSUME NEW x \in Int, NEW y \in Int
  PROVE  Min({x, y}) = IF x <= y THEN x ELSE y
  BY DEF Min

\* Remainders of small numbers.
LEMMA ModSmall ==
  ASSUME NEW n \in Nat, NEW d \in Nat, n < d
  PROVE  n % d = n
  OBVIOUS

-----------------------------------------------------------------------------
(* Lemmas about the operators of the model.                                *)

\* FirstMissing is defined, and finds the first id the map does not hold.
LEMMA FirstMissingProperties ==
  ASSUME NEW map, \A e \in map : e.id \in Ids, NEW from \in 0 .. IdSpace
  PROVE  /\ FirstMissing(map, from) \in from .. IdSpace
         /\ ~Has(map, FirstMissing(map, from))
         /\ \A k \in from .. FirstMissing(map, from) - 1 : Has(map, k)
<1> DEFINE Q == {n \in from .. IdSpace : ~Has(map, n)}
<1>1. IdSpace \in Q
  BY ConstantsAssumption DEF Has, Ids
<1> HIDE DEF Q
<1>2. PICK n \in from .. IdSpace : n \in Q /\ \A k \in from .. n - 1 : k \notin Q
  <2>1. from \in Nat /\ IdSpace \in Nat /\ from <= IdSpace
    BY ConstantsAssumption
  <2>2. QED
    BY <1>1, <2>1, LeastInRange
<1> USE DEF Q
<1>3. ~Has(map, n) /\ \A k \in from .. n - 1 : Has(map, k)
  BY <1>2, ConstantsAssumption
<1>4. QED
  BY <1>3 DEF FirstMissing

\* The truth table is no longer than its cap and marks only buffered ids.
LEMMA AckTableProperties ==
  ASSUME NEW map, \A e \in map : e.id \in Ids, NEW first \in 0 .. IdSpace,
         NEW cap \in Nat
  PROVE  LET t == AckTable(map, first, cap)
         IN  /\ \E len \in Int : DOMAIN t = 1 .. len
             /\ t \in Seq({0, 1}) /\ Len(t) <= cap
             /\ \A i \in DOMAIN t : t[i] = 1 => Has(map, first + i - 1)
<1> DEFINE S == {first - 1} \cup {e.id : e \in map}
           max == Max(S)
           len == Min({max - first + 1, cap})
           f == [i \in 1 .. len |-> IF Has(map, first + i - 1) THEN 1 ELSE 0]
<1>1. max \in S /\ \A x \in S : x <= max
  <2>1. S \subseteq Int /\ S # {} /\ \A x \in S : x <= IdSpace
    BY ConstantsAssumption DEF Ids
  <2>2. IdSpace \in Int
    BY ConstantsAssumption
  <2>3. QED
    BY <2>1, <2>2, MaxProperties
<1>2. max \in Int /\ first - 1 <= max
  BY <1>1, ConstantsAssumption DEF Ids
<1>3. len \in Nat /\ len <= cap
  <2>1. len = IF max - first + 1 <= cap THEN max - first + 1 ELSE cap
    BY <1>2, MinOfTwo
  <2>2. QED
    BY <1>2, <2>1
<1>4. AckTable(map, first, cap) = f
  BY DEF AckTable
<1> HIDE DEF len
<1>5. f \in [1 .. len -> {0, 1}]
  OBVIOUS
<1>6. f \in Seq({0, 1}) /\ Len(f) = len
  BY <1>3, <1>5
<1>7. QED
  BY <1>3, <1>4, <1>5, <1>6

\* An ACK built from the receive state covers only ids that are held.
LEMMA AckForTruthful ==
  ASSUME NEW map, \A e \in map : e.id \in Ids, NEW want \in 0 .. IdSpace
  PROVE  LET a == AckFor(map, want)
         IN  /\ a.id \in Ids
             /\ Len(a.payload) <= MaxAck
             /\ \A id \in Ids : Covers(a, id) => Held(want, map, id)
<1> USE ConstantsAssumption
<1>1. CASE want = 0
  BY <1>1 DEF AckFor, Ack, Covers, EmptyAckId, Ids
<1>2. CASE want # 0
  <2> DEFINE first == FirstMissing(map, want)
             t == AckTable(map, first, MaxAck)
  <2>1. /\ first \in want .. IdSpace
        /\ \A k \in want .. first - 1 : Has(map, k)
    BY FirstMissingProperties
  <2> HIDE DEF first
  <2>2. /\ \E len \in Int : DOMAIN t = 1 .. len
        /\ Len(t) <= MaxAck
        /\ \A i \in DOMAIN t : t[i] = 1 => Has(map, first + i - 1)
    BY <2>1, AckTableProperties
  <2> HIDE DEF t
  <2>3. (first - 1) % IdSpace = first - 1
    BY <1>2, <2>1, ModSmall
  <2>4. AckFor(map, want) = Ack(first - 1, t)
    BY <1>2, <2>3 DEF AckFor, first, t
  <2>5. ASSUME NEW id \in Ids, Covers(Ack(first - 1, t), id)
        PROVE  Held(want, map, id)
    <3>1. CASE id <= first - 1
      BY <2>1, <3>1 DEF Held, Ids
    <3>2. CASE \E i \in DOMAIN t : t[i] = 1 /\ id = (first - 1 + i) % IdSpace
      <4>1. PICK i \in DOMAIN t : t[i] = 1 /\ id = (first - 1 + i) % IdSpace
        BY <3>2
      <4>2. Has(map, first + i - 1) /\ i \in Nat
        BY <2>2, <4>1
      <4>3. first + i - 1 \in Ids /\ first + i - 1 = first - 1 + i
        BY <2>1, <4>2 DEF Has, Ids
      <4>4. (first - 1 + i) % IdSpace = first - 1 + i
        BY <4>3, ModSmall DEF Ids
      <4>5. QED
        BY <4>1, <4>2, <4>3, <4>4 DEF Held
    <3>3. QED
      BY <2>5, <3>1, <3>2 DEF Covers, Ack
  <2>6. first - 1 \in Ids
    BY <1>2, <2>1 DEF Ids
  <2>7. QED
    BY <2>2, <2>4, <2>5, <2>6 DEF Ack
<1>3. QED
  BY <1>1, <1>2

\* The camera's ACKs, likewise, cover only packets it has received.
LEMMA CamAckTruthful ==
  ASSUME camGot \subseteq 0 .. MaxTx - 1, MaxTx <= IdSpace
  PROVE  \A id \in Ids : Covers(CamAck, id) => id \in camGot
<1> USE ConstantsAssumption
<1> DEFINE first == CamInOrder(camGot)
           S == {first - 1} \cup camGot
           max == Max(S)
           t == [i \in 1 .. max - first + 1 |->
                   IF first + i - 1 \in camGot THEN 1 ELSE 0]
<1>1. first \in 0 .. MaxTx /\ first \notin camGot /\ 0 .. first - 1 \subseteq camGot
  <2> DEFINE Q == (0 .. MaxTx) \ camGot
  <2>1. MaxTx \in Q
    OBVIOUS
  <2> HIDE DEF Q
  <2>2. PICK n \in 0 .. MaxTx : n \in Q /\ \A k \in 0 .. n - 1 : k \notin Q
    <3>1. 0 \in Nat /\ MaxTx \in Nat /\ 0 <= MaxTx
      OBVIOUS
    <3>2. QED
      BY <2>1, <3>1, LeastInRange
  <2> USE DEF Q
  <2>3. n \notin camGot /\ 0 .. n - 1 \subseteq camGot
    BY <2>2
  <2>4. QED
    BY <2>3 DEF CamInOrder
<1> HIDE DEF first
<1>2. max \in Int
  <2>1. S \subseteq Int /\ S # {} /\ MaxTx \in Int /\ \A x \in S : x <= MaxTx
    BY <1>1
  <2>2. QED
    BY <2>1, MaxProperties
<1> HIDE DEF max
<1>3. CASE first = 0
  BY <1>3 DEF CamAck, Covers, Ack, first
<1>4. CASE first # 0
  <2>1. (first - 1) % IdSpace = first - 1
    BY <1>1, <1>4, ModSmall
  <2>2. CamAck = Ack(first - 1, t)
    BY <1>4, <2>1 DEF CamAck, first, max
  <2>3. ASSUME NEW id \in Ids, Covers(Ack(first - 1, t), id)
        PROVE  id \in camGot
    <3>1. CASE id <= first - 1
      BY <1>1, <3>1 DEF Ids
    <3>2. CASE \E i \in DOMAIN t : t[i] = 1 /\ id = (first - 1 + i) % IdSpace
      <4>1. PICK i \in DOMAIN t : t[i] = 1 /\ id = (first - 1 + i) % IdSpace
        BY <3>2
      <4>2. i \in Nat /\ first + i - 1 \in camGot
        BY <1>2, <4>1
      <4>3. first - 1 + i \in Nat /\ first - 1 + i < IdSpace
        BY <1>1, <4>2
      <4>4. (first - 1 + i) % IdSpace = first - 1 + i
        BY <4>3, ModSmall
      <4>5. QED
        BY <1>1, <4>1, <4>2, <4>4
    <3>3. QED
      BY <2>3, <3>1, <3>2 DEF Covers, Ack
  <2>4. QED
    BY <2>2, <2>3
<1>5. QED
  BY <1>3, <1>4

-----------------------------------------------------------------------------
(* The inductive invariant.                                                *)

\* A packet as it travels and as it is buffered: its id is its index.
IsPacket(e, n) == e.data \in 0 .. n - 1 /\ e.id = e.data

\* What is in flight towards the client is the camera's stream and truthful
\* ACKs; datagrams of other sessions are marked as such.
ToCliOK ==
  \A m \in toCli :
    /\ m.port \in Ports
    /\ m.kind = "data" /\ m.conn = "cur" => IsPacket(m.body, camNext)
    /\ m.kind = "ack" /\ m.conn = "cur" =>
         \A id \in Ids : Covers(m.body, id) => id \in camGot

ToCamOK ==
  \A m \in toCam :
    /\ m.kind = "data" => IsPacket(m.body, written)
    /\ m.kind = "ack" => /\ Len(m.body.payload) <= MaxAck
                         /\ \A id \in Ids : Covers(m.body, id) => Held(packetsWant, received, id)

RxOK ==
  /\ remote \in Ports /\ camPort \in Ports
  /\ camNext \in 0 .. MaxRx /\ camUnacked \subseteq 0 .. camNext - 1
  /\ packetsWant \in 0 .. camNext
  /\ received \in SUBSET [id : Ids, data : 0 .. camNext - 1]
  /\ \A e \in received : IsPacket(e, camNext)
  /\ lastAckPacket.id \in Ids
  /\ Len(lastAckPacket.payload) <= MaxAck
  /\ \A id \in Ids : Covers(lastAckPacket, id) => Held(packetsWant, received, id)
  /\ \A n \in 0 .. camNext - 1 : n \in camUnacked \/ Held(packetsWant, received, n)

TxOK ==
  /\ written \in 0 .. MaxTx
  /\ sendPacketId = written % IdSpace
  /\ sent \in SUBSET [id : Ids, data : 0 .. written - 1]
  /\ \A e \in sent : IsPacket(e, written)
  /\ camGot \subseteq 0 .. written - 1
  /\ NoTxLoss

\* The queue of the drain: what is pending continues what was delivered.
QueueOK ==
  /\ sock \in BOOLEAN /\ drainScheduled \in BOOLEAN
  /\ pendingData \in Seq(Int) /\ delivered \in Seq(Int)
  /\ pendingDataOffset \in 0 .. Len(pendingData)
  /\ throws \in 0 .. MaxThrows /\ camMoves \in 0 .. MaxMoves
  /\ throws = 0 =>
       /\ pendingDataOffset = 0
       /\ DrainPending
       /\ DeliveredInOrder
       /\ sock => /\ Len(delivered) + Len(pendingData) = packetsWant
                  /\ \A i \in 1 .. Len(pendingData) :
                       pendingData[i] = Len(delivered) + i - 1

Inv == ToCliOK /\ ToCamOK /\ RxOK /\ TxOK /\ QueueOK

LEMMA InitInv ==
  ASSUME NoWrap, Init PROVE Inv
<1> USE ConstantsAssumption, NoWrap DEF Init, NoWrap
<1>1. lastAckPacket.id \in Ids /\ Len(lastAckPacket.payload) <= MaxAck
        /\ \A id \in Ids : ~Covers(lastAckPacket, id)
  BY DEF Ack, EmptyAckId, Ids, Covers
<1>2. ToCliOK
  BY DEF ToCliOK, Stale, Inbound
<1>3. ToCamOK
  BY DEF ToCamOK
<1>4. RxOK
  BY <1>1 DEF RxOK
<1>5. TxOK
  BY DEF TxOK, NoTxLoss, Ids
<1>6. QueueOK
  <2>1. sock \in BOOLEAN /\ drainScheduled \in BOOLEAN
    BY Zenon
  <2>2. pendingData = <<>> /\ delivered = <<>> /\ pendingData \in Seq(Int) /\ delivered \in Seq(Int)
    OBVIOUS
  <2>3. Len(pendingData) = 0 /\ Len(delivered) = 0
    BY <2>2
  <2>4. DrainPending /\ DeliveredInOrder
    BY <2>3 DEF DrainPending, DeliveredInOrder
  <2>5. pendingDataOffset = 0 /\ packetsWant = 0 /\ throws = 0 /\ camMoves = 0
    OBVIOUS
  <2>6. QED
    BY ONLY <2>1, <2>2, <2>3, <2>4, <2>5, ConstantsAssumption DEF QueueOK
<1>7. QED
  BY <1>2, <1>3, <1>4, <1>5, <1>6 DEF Inv

-----------------------------------------------------------------------------
(* Each part of the invariant depends on few variables.                    *)

\* Sending adds at most the batch to the network, receiving adds nothing.
LEMMA NetworkSteps ==
  ASSUME NEW net, NEW batch, NEW m
  PROVE  /\ \A x \in Send(net, batch) : x \in net \/ x \in batch
         /\ \A n \in Take(net, m) : n \subseteq net
BY DEF Send, Take

LEMMA ToCliUnchanged ==
  ASSUME ToCliOK, toCli' \subseteq toCli, camNext' = camNext, camGot' = camGot
  PROVE  ToCliOK'
BY DEF ToCliOK, IsPacket, Covers

LEMMA ToCamUnchanged ==
  ASSUME ToCamOK, toCam' \subseteq toCam, written' = written,
         packetsWant' = packetsWant, received' = received
  PROVE  ToCamOK'
BY DEF ToCamOK, IsPacket, Covers, Held, Has

LEMMA RxUnchanged ==
  ASSUME RxOK, remote' \in Ports, camPort' \in Ports, camNext' = camNext,
         camUnacked' = camUnacked, packetsWant' = packetsWant,
         received' = received, lastAckPacket' = lastAckPacket
  PROVE  RxOK'
BY DEF RxOK, IsPacket, Covers, Held, Has

LEMMA TxUnchanged ==
  ASSUME TxOK, UNCHANGED <<written, sendPacketId, sent, camGot>>
  PROVE  TxOK'
BY DEF TxOK, NoTxLoss, IsPacket

LEMMA QueueUnchanged ==
  ASSUME QueueOK, sock' \in {sock, FALSE},
         UNCHANGED <<drainScheduled, pendingData, delivered, pendingDataOffset,
                     throws, packetsWant>>,
         camMoves' \in 0 .. MaxMoves
  PROVE  QueueOK'
<1>1. sock' \in BOOLEAN /\ drainScheduled' \in BOOLEAN
  BY Zenon DEF QueueOK
<1>2. sock' => sock
  BY Zenon DEF QueueOK
<1>3. DrainPending => DrainPending'
  BY Zenon DEF DrainPending
<1>4. DeliveredInOrder => DeliveredInOrder'
  BY DEF DeliveredInOrder
<1>5. QED
  BY <1>1, <1>2, <1>3, <1>4 DEF QueueOK

-----------------------------------------------------------------------------
(* The steps of the client.                                                *)

LEMMA WriteInv ==
  ASSUME NoWrap, Inv, NEW k \in 1 .. MaxFragments, Write(k)
  PROVE  Inv'
<1> USE ConstantsAssumption, NoWrap DEF NoWrap
<1> DEFINE new == {Entry((sendPacketId + i) % IdSpace, written + i) : i \in 0 .. k - 1}
<1>1. /\ written \in Nat /\ k \in Nat /\ k > 0 /\ written + k <= MaxTx /\ written' = written + k
      /\ sendPacketId = written
  <2>1. written \in Nat /\ k \in Nat /\ k > 0 /\ written + k <= MaxTx /\ written' = written + k
    BY DEF Write, Inv, TxOK
  <2>2. written < IdSpace
    BY <2>1
  <2>3. QED
    BY <2>1, <2>2, ModSmall DEF Inv, TxOK
<1>2. new = {Entry(written + i, written + i) : i \in 0 .. k - 1}
  <2>1. \A i \in 0 .. k - 1 : (sendPacketId + i) % IdSpace = written + i
    BY <1>1, ModSmall
  <2>2. QED
    BY <2>1
<1> HIDE DEF new
<1>3. \A e \in new : e \in [id : Ids, data : 0 .. written' - 1] /\ IsPacket(e, written') /\ e.id >= written
  BY <1>1, <1>2 DEF IsPacket, Entry, Ids
<1>4. sent' = {e \in sent : ~Has(new, e.id)} \cup new
  BY DEF Write, new
<1>5. TxOK'
  <2>1. sendPacketId' = written' % IdSpace
    BY <1>1 DEF Write
  <2>2. /\ written' \in 0 .. MaxTx
        /\ sent' \in SUBSET [id : Ids, data : 0 .. written' - 1]
        /\ \A e \in sent' : IsPacket(e, written')
    BY <1>1, <1>3, <1>4 DEF Inv, TxOK, IsPacket
  <2>3. camGot' \subseteq 0 .. written' - 1
    BY <1>1 DEF Write, camVars, Inv, TxOK
  <2>4. ASSUME NEW n \in 0 .. written' - 1
        PROVE  n \in camGot' \/ \E e \in sent' : e.data = n
    <3>1. CASE n < written
      <4>1. n \in camGot \/ \E e \in sent : e.data = n
        BY <1>1, <3>1 DEF Inv, TxOK, NoTxLoss
      <4>2. \A e \in sent : e.data = n => ~Has(new, e.id)
        BY <1>1, <1>3, <3>1 DEF Inv, TxOK, IsPacket, Has
      <4>3. QED
        BY <1>4, <4>1, <4>2 DEF Write, camVars
    <3>2. CASE n >= written
      <4>1. n - written \in 0 .. k - 1 /\ written + (n - written) = n
        BY <1>1, <3>2
      <4>2. Entry(n, n) \in new
        BY <1>2, <4>1
      <4>3. QED
        BY <1>4, <4>2 DEF Entry
    <3>3. QED
      BY <1>1, <3>1, <3>2
  <2>5. QED
    BY <2>1, <2>2, <2>3, <2>4 DEF TxOK, NoTxLoss
<1>6. ToCamOK'
  <2>1. \A m \in toCam' : m \in toCam \/ \E e \in new : m = DataTo(remote, e)
    BY NetworkSteps DEF Write, new
  <2>2. \A m \in toCam : m.kind = "data" => IsPacket(m.body, written')
    BY <1>1 DEF Inv, ToCamOK, IsPacket
  <2>3. packetsWant' = packetsWant /\ received' = received
    BY DEF Write, rxVars
  <2>4. QED
    BY <1>3, <2>1, <2>2, <2>3 DEF Inv, ToCamOK, DataTo, Covers, Held, Has
<1>7. ToCliOK'
  BY ToCliUnchanged DEF Write, Inv, camVars
<1>8. RxOK'
  BY RxUnchanged DEF Write, Inv, RxOK, rxVars, camVars
<1>9. QueueOK'
  BY QueueUnchanged DEF Write, Inv, QueueOK, rxVars, camVars
<1>10. QED
  BY <1>5, <1>6, <1>7, <1>8, <1>9 DEF Inv

LEMMA AckTickInv ==
  ASSUME Inv, AckTick PROVE Inv'
<1>1. ToCamOK'
  <2>1. \A m \in toCam' : m \in toCam \/ m = AckTo(remote, lastAckPacket)
    BY NetworkSteps DEF AckTick
  <2>2. UNCHANGED <<written, packetsWant, received>>
    BY DEF AckTick, clientVars
  <2>3. QED
    BY <2>1, <2>2 DEF Inv, ToCamOK, RxOK, AckTo, IsPacket, Covers, Held, Has
<1>2. ToCliOK'
  BY ToCliUnchanged DEF AckTick, Inv, camVars
<1>3. RxOK'
  BY RxUnchanged DEF AckTick, Inv, RxOK, clientVars, camVars
<1>4. TxOK'
  BY TxUnchanged DEF AckTick, Inv, clientVars, camVars
<1>5. QueueOK'
  BY QueueUnchanged DEF AckTick, Inv, QueueOK, clientVars, camVars
<1>6. QED
  BY <1>1, <1>2, <1>3, <1>4, <1>5 DEF Inv

LEMMA ResendTickInv ==
  ASSUME Inv, ResendTick PROVE Inv'
<1>1. ToCamOK'
  <2>1. \A m \in toCam' : m \in toCam \/ \E e \in sent : m = DataTo(remote, e)
    BY NetworkSteps DEF ResendTick
  <2>2. UNCHANGED <<written, packetsWant, received>>
    BY DEF ResendTick, clientVars
  <2>3. QED
    BY <2>1, <2>2 DEF Inv, ToCamOK, TxOK, DataTo, IsPacket, Covers, Held, Has
<1>2. ToCliOK'
  BY ToCliUnchanged DEF ResendTick, Inv, camVars
<1>3. RxOK'
  BY RxUnchanged DEF ResendTick, Inv, RxOK, clientVars, camVars
<1>4. TxOK'
  BY TxUnchanged DEF ResendTick, Inv, clientVars, camVars
<1>5. QueueOK'
  BY QueueUnchanged DEF ResendTick, Inv, QueueOK, clientVars, camVars
<1>6. QED
  BY <1>1, <1>2, <1>3, <1>4, <1>5 DEF Inv

\* Steps that at most consume a datagram, move the remote or close the socket.
LEMMA IdleStepInv ==
  ASSUME Inv, toCli' \subseteq toCli, toCam' \subseteq toCam,
         remote' \in Ports, sock' \in {sock, FALSE},
         UNCHANGED <<txVars, rxVars, camVars>>
  PROVE  Inv'
<1>1. ToCliOK'
  BY ToCliUnchanged DEF Inv, camVars
<1>2. ToCamOK'
  BY ToCamUnchanged DEF Inv, txVars, rxVars
<1>3. RxOK'
  BY RxUnchanged DEF Inv, RxOK, rxVars, camVars
<1>4. TxOK'
  BY TxUnchanged DEF Inv, txVars, camVars
<1>5. QueueOK'
  BY QueueUnchanged DEF Inv, QueueOK, rxVars, camVars
<1>6. QED
  BY <1>1, <1>2, <1>3, <1>4, <1>5 DEF Inv

LEMMA AcceptsSteps ==
  ASSUME Inv, NEW m, Accepts(m)
  PROVE  sock /\ m \in toCli /\ m.conn = "cur" /\ toCli' \subseteq toCli /\ remote' \in Ports
BY NetworkSteps DEF Accepts, Inv, ToCliOK

LEMMA RecvStaleInv ==
  ASSUME Inv, NEW m, RecvStale(m) PROVE Inv'
<1>1. toCli' \subseteq toCli
  BY NetworkSteps DEF RecvStale
<1>2. QED
  BY <1>1, IdleStepInv DEF RecvStale, Inv, RxOK, clientVars, txVars, rxVars

LEMMA RecvProbeInv ==
  ASSUME Inv, NEW m, RecvProbe(m) PROVE Inv'
<1>1. toCli' \subseteq toCli /\ remote' \in Ports
  BY AcceptsSteps DEF RecvProbe
<1>2. QED
  BY <1>1, IdleStepInv DEF RecvProbe

LEMMA CloseInv ==
  ASSUME Inv, Close \/ \E m \in toCli : RecvDisc(m) PROVE Inv'
<1>1. CASE Close
  BY <1>1, IdleStepInv DEF Close, Inv, RxOK, netVars
<1>2. ASSUME NEW m \in toCli, RecvDisc(m) PROVE Inv'
  <2>1. toCli' \subseteq toCli
    BY <1>2, NetworkSteps DEF RecvDisc
  <2>2. QED
    BY <1>2, <2>1, IdleStepInv DEF RecvDisc, Inv, RxOK
<1>3. QED
  BY <1>1, <1>2

LEMMA RecvAckInv ==
  ASSUME Inv, NEW m, RecvAck(m) PROVE Inv'
<1>1. m \in toCli /\ m.conn = "cur" /\ m.kind = "ack" /\ toCli' \subseteq toCli /\ remote' \in Ports
  BY AcceptsSteps DEF RecvAck
<1>2. TxOK'
  <2>1. \A e \in sent : Covers(m.body, e.id) => e.data \in camGot
    BY <1>1 DEF Inv, TxOK, ToCliOK, IsPacket
  <2>2. \A n \in 0 .. written - 1 : n \in camGot \/ \E e \in sent' : e.data = n
    BY <2>1 DEF RecvAck, Inv, TxOK, NoTxLoss
  <2>3. sent' \subseteq sent /\ UNCHANGED <<written, sendPacketId, camGot>>
    BY DEF RecvAck, camVars
  <2>4. QED
    BY <2>2, <2>3 DEF Inv, TxOK, NoTxLoss, IsPacket
<1>3. ToCliOK'
  BY <1>1, ToCliUnchanged DEF RecvAck, Inv, camVars
<1>4. ToCamOK'
  BY ToCamUnchanged DEF RecvAck, Inv, rxVars
<1>5. RxOK'
  BY <1>1, RxUnchanged DEF RecvAck, Inv, RxOK, rxVars, camVars
<1>6. QueueOK'
  BY QueueUnchanged DEF RecvAck, Inv, QueueOK, rxVars, camVars
<1>7. QED
  BY <1>2, <1>3, <1>4, <1>5, <1>6 DEF Inv

\* A run of consecutive packets, and what appending one to a queue gives.
IsRun(run, from, to) ==
  run \in Seq(Int) /\ Len(run) = to - from /\ \A i \in 1 .. Len(run) : run[i] = from + i - 1

\* A queue that continues d delivered chunks up to packet `want'.
Continues(q, d, want) ==
  d + Len(q) = want /\ \A i \in 1 .. Len(q) : q[i] = d + i - 1

LEMMA QueueAppend ==
  ASSUME NEW p \in Seq(Int), NEW want \in Nat, NEW want2 \in Nat, want <= want2,
         NEW run, IsRun(run, want, want2)
  PROVE  /\ p \o run \in Seq(Int)
         /\ Len(p \o run) = Len(p) + (want2 - want)
         /\ \A d \in Nat : Continues(p, d, want) => Continues(p \o run, d, want2)
<1> DEFINE n == want2 - want
           q == p \o run
<1>1. n \in Nat
  OBVIOUS
<1> HIDE DEF n
<1>3. run \in Seq(Int) /\ Len(run) = n /\ \A i \in 1 .. n : run[i] = want + i - 1
  BY DEF IsRun, n
<1>4. /\ q \in Seq(Int) /\ Len(q) = Len(p) + n
      /\ \A i \in 1 .. Len(p) + n : q[i] = IF i <= Len(p) THEN p[i] ELSE run[i - Len(p)]
  BY ONLY p \in Seq(Int), <1>3, ConcatProperties
<1> HIDE DEF q
<1>5. ASSUME NEW d \in Nat, d + Len(p) = want, \A i \in 1 .. Len(p) : p[i] = d + i - 1,
             NEW i \in 1 .. Len(q)
      PROVE  q[i] = d + i - 1
  <2>1. Len(p) \in Nat /\ i \in Nat
    BY <1>1, <1>4
  <2>2. CASE i <= Len(p)
    BY <1>4, <1>5, <2>1, <2>2
  <2>3. CASE i > Len(p)
    <3>1. i - Len(p) \in 1 .. n /\ i \in 1 .. Len(p) + n
      BY ONLY <1>1, <1>4, <2>1, <2>3, i \in 1 .. Len(q)
    <3>2. q[i] = run[i - Len(p)]
      BY ONLY <1>4, <2>1, <2>3, <3>1
    <3>3. run[i - Len(p)] = want + (i - Len(p)) - 1
      BY ONLY <1>3, <3>1
    <3>4. QED
      BY ONLY want \in Nat, d \in Nat, d + Len(p) = want, <2>1, <3>2, <3>3
  <2>4. QED
    BY <2>1, <2>2, <2>3
<1>6. ASSUME NEW d \in Nat, Continues(p, d, want) PROVE Continues(q, d, want2)
  <2>1. d + Len(p) = want /\ \A i \in 1 .. Len(p) : p[i] = d + i - 1
    BY <1>6 DEF Continues
  <2>2. d + Len(q) = want2
    <3>1. Len(p) \in Nat /\ Len(q) = Len(p) + n /\ d + Len(p) = want /\ want2 = want + n
      BY <1>4, <2>1 DEF n
    <3>2. PICK x \in Nat : x = Len(p)
      BY <3>1
    <3>3. QED
      BY ONLY <1>1, <3>1, <3>2, d \in Nat, want \in Nat, want2 \in Nat
  <2>3. \A i \in 1 .. Len(q) : q[i] = d + i - 1
    BY <1>5, <2>1
  <2>4. QED
    BY <2>2, <2>3 DEF Continues
<1>7. QED
  BY <1>4, <1>6 DEF n, q

\* The receive state after a packet at or beyond packetsWant.
LEMMA RecvDataStep ==
  ASSUME NoWrap, Inv, NEW m, RecvData(m), ~(m.body.id < packetsWant)
  PROVE  /\ packetsWant' \in packetsWant .. camNext
         /\ received' \in SUBSET [id : Ids, data : 0 .. camNext - 1]
         /\ \A e \in received' : IsPacket(e, camNext)
         /\ \A id \in Ids : Held(packetsWant, received, id) => Held(packetsWant', received', id)
         /\ lastAckPacket' = AckFor(received', packetsWant')
         /\ \E run : IsRun(run, packetsWant, packetsWant') /\ pendingData' = pendingData \o run
         /\ drainScheduled' = (drainScheduled \/ Len(pendingData') > pendingDataOffset)
         /\ UNCHANGED <<pendingDataOffset, delivered, throws>>
<1> USE ConstantsAssumption, NoWrap DEF NoWrap
<1> DEFINE id0 == m.body.id
           buffered == Put(received, id0, m.body.data)
           want == FirstMissing(buffered, packetsWant)
           run == [i \in 1 .. want - packetsWant |-> Get(buffered, packetsWant + i - 1)]
           rest == {e \in buffered : e.id >= want}
<1>1. m \in toCli /\ m.kind = "data" /\ m.conn = "cur"
  BY AcceptsSteps DEF RecvData
<1>2. camNext \in Nat /\ camNext <= IdSpace /\ packetsWant \in 0 .. camNext
  BY DEF Inv, RxOK
<1>3. m.body.data = id0 /\ id0 \in 0 .. camNext - 1 /\ id0 >= packetsWant
  BY <1>1, <1>2 DEF Inv, ToCliOK, IsPacket
<1>4. buffered = {e \in received : e.id # id0} \cup {Entry(id0, id0)}
  BY <1>3 DEF Put
<1>5. /\ \A e \in buffered : e \in [id : Ids, data : 0 .. camNext - 1] /\ IsPacket(e, camNext)
      /\ \A k \in Ids : Has(buffered, k) <=> Has(received, k) \/ k = id0
  <2>1. Entry(id0, id0).id = id0 /\ Entry(id0, id0).data = id0
    BY DEF Entry
  <2>2. Entry(id0, id0) \in [id : Ids, data : 0 .. camNext - 1] /\ IsPacket(Entry(id0, id0), camNext)
    BY <1>2, <1>3 DEF Entry, IsPacket, Ids
  <2>3. \A e \in received : e \in [id : Ids, data : 0 .. camNext - 1] /\ IsPacket(e, camNext)
    BY DEF Inv, RxOK
  <2>4. \A k \in Ids : Has(buffered, k) <=> Has(received, k) \/ k = id0
    BY <1>4, <2>1 DEF Has
  <2>5. QED
    BY <1>4, <2>2, <2>3, <2>4
<1>6. /\ received' = rest
      /\ packetsWant' = want
      /\ pendingData' = pendingData \o run
      /\ drainScheduled' = (drainScheduled \/ Len(pendingData') > pendingDataOffset)
      /\ lastAckPacket' = AckFor(rest, want)
      /\ UNCHANGED <<pendingDataOffset, delivered, throws>>
  BY DEF RecvData, ScheduleDrain
<1> HIDE DEF buffered
<1>7. /\ want \in packetsWant .. IdSpace
      /\ \A k \in packetsWant .. want - 1 : Has(buffered, k)
  <2>1. \A e \in buffered : e.id \in Ids
    BY ONLY <1>5
  <2>2. packetsWant \in 0 .. IdSpace
    BY ONLY <1>2, ConstantsAssumption
  <2>3. QED
    BY ONLY <2>1, <2>2, FirstMissingProperties
<1> HIDE DEF want
<1>8. want \in packetsWant .. camNext
  <2>1. CASE want = packetsWant
    BY <1>2, <2>1
  <2>2. CASE want > packetsWant
    <3>1. Has(buffered, want - 1)
      BY <1>2, <1>7, <2>2
    <3>2. want - 1 < camNext
      BY <1>2, <1>5, <3>1 DEF Has, IsPacket
    <3>3. QED
      BY <1>2, <1>7, <3>2
  <2>3. QED
    BY <1>2, <1>7, <2>1, <2>2
<1>9. ASSUME NEW id \in Ids, Held(packetsWant, received, id)
      PROVE  Held(want, rest, id)
  BY <1>2, <1>5, <1>8, <1>9 DEF Held, Has, Ids
<1>10. IsRun(run, packetsWant, want)
  <2> DEFINE n == want - packetsWant
  <2>1. n \in Nat /\ \A i \in 1 .. n : packetsWant + i - 1 \in packetsWant .. want - 1
    BY <1>2, <1>8
  <2>2. \A k \in packetsWant .. want - 1 : Get(buffered, k) = k
    BY <1>5, <1>7 DEF Get, Has, IsPacket
  <2> HIDE DEF n
  <2>3. run = [i \in 1 .. n |-> Get(buffered, packetsWant + i - 1)]
    BY DEF n
  <2>4. \A i \in 1 .. n : Get(buffered, packetsWant + i - 1) = packetsWant + i - 1
    BY <2>1, <2>2
  <2> HIDE DEF run
  <2>5. run \in [1 .. n -> Int] /\ \A i \in 1 .. n : run[i] = packetsWant + i - 1
    <3>1. \A i \in 1 .. n : Get(buffered, packetsWant + i - 1) \in Int
      BY <1>2, <2>1, <2>4
    <3>2. DOMAIN run = 1 .. n /\ \A i \in 1 .. n : run[i] = Get(buffered, packetsWant + i - 1)
      BY <2>3
    <3>3. run \in [1 .. n -> Int]
      BY <2>3, <3>1
    <3>4. QED
      BY <2>4, <3>2, <3>3
  <2>6. run \in Seq(Int) /\ Len(run) = n
    BY <2>1, <2>5
  <2>7. QED
    BY <2>5, <2>6 DEF IsRun, n
<1> HIDE DEF run
<1>11. QED
  BY <1>5, <1>6, <1>8, <1>9, <1>10

LEMMA RecvDataInv ==
  ASSUME NoWrap, Inv, NEW m, RecvData(m) PROVE Inv'
<1> USE ConstantsAssumption
<1>1. toCli' \subseteq toCli /\ remote' \in Ports /\ sock
  BY AcceptsSteps DEF RecvData
<1>2. CASE m.body.id < packetsWant
  BY <1>1, <1>2, IdleStepInv DEF RecvData
<1>3. CASE ~(m.body.id < packetsWant)
  <2>1. /\ packetsWant' \in packetsWant .. camNext
        /\ received' \in SUBSET [id : Ids, data : 0 .. camNext - 1]
        /\ \A e \in received' : IsPacket(e, camNext)
        /\ \A id \in Ids : Held(packetsWant, received, id) => Held(packetsWant', received', id)
        /\ lastAckPacket' = AckFor(received', packetsWant')
    BY <1>3, RecvDataStep
  <2>2. UNCHANGED <<sock, txVars, camVars, toCam>>
    BY DEF RecvData
  <2>3. /\ camNext \in 0 .. MaxRx /\ camNext <= IdSpace /\ packetsWant \in 0 .. camNext
    BY DEF Inv, RxOK, NoWrap
  <2>4. ToCliOK'
    BY <1>1, <2>2, ToCliUnchanged DEF Inv, camVars
  <2>5. ToCamOK'
    BY <2>1, <2>2 DEF Inv, ToCamOK, txVars, Covers, IsPacket
  <2>6. TxOK'
    BY <2>2, TxUnchanged DEF Inv, txVars, camVars
  <2>7. RxOK'
    <3>1. /\ lastAckPacket'.id \in Ids
          /\ Len(lastAckPacket'.payload) <= MaxAck
          /\ \A id \in Ids : Covers(lastAckPacket', id) => Held(packetsWant', received', id)
      <4>1. packetsWant' \in 0 .. IdSpace /\ \A e \in received' : e.id \in Ids
        BY <2>1, <2>3
      <4>2. QED
        BY <2>1, <4>1, AckForTruthful
    <3>2. /\ remote' \in Ports /\ camPort' \in Ports
          /\ camNext' \in 0 .. MaxRx /\ camUnacked' \subseteq 0 .. camNext' - 1
      BY <1>1, <2>2 DEF Inv, RxOK, camVars
    <3>3. \A n \in 0 .. camNext - 1 : n \in camUnacked \/ Held(packetsWant', received', n)
      BY <2>1, <2>3 DEF Inv, RxOK, Ids
    <3>4. UNCHANGED <<camNext, camUnacked>>
      BY <2>2 DEF camVars
    <3>5. packetsWant' \in 0 .. camNext
      BY <2>1, <2>3
    <3>6. QED
      BY <2>1, <3>1, <3>2, <3>3, <3>4, <3>5 DEF RxOK, Covers, IsPacket
  <2>8. QueueOK'
    <3>1. /\ \E run : IsRun(run, packetsWant, packetsWant') /\ pendingData' = pendingData \o run
          /\ drainScheduled' = (drainScheduled \/ Len(pendingData') > pendingDataOffset)
          /\ UNCHANGED <<pendingDataOffset, delivered, throws>>
      BY <1>3, RecvDataStep
    <3>2. packetsWant \in Nat /\ packetsWant' \in Nat /\ packetsWant <= packetsWant'
      BY <2>1, <2>3
    <3>3. pendingData \in Seq(Int) /\ pendingDataOffset \in 0 .. Len(pendingData) /\ delivered \in Seq(Int)
      BY DEF Inv, QueueOK
    <3>4. /\ pendingData' \in Seq(Int)
          /\ Len(pendingData') = Len(pendingData) + (packetsWant' - packetsWant)
          /\ \A d \in Nat : Continues(pendingData, d, packetsWant) => Continues(pendingData', d, packetsWant')
      <4>1. PICK run : IsRun(run, packetsWant, packetsWant') /\ pendingData' = pendingData \o run
        BY <3>1
      <4>2. \A w \in Nat : packetsWant <= w /\ IsRun(run, packetsWant, w) =>
               /\ pendingData \o run \in Seq(Int)
               /\ Len(pendingData \o run) = Len(pendingData) + (w - packetsWant)
               /\ \A d \in Nat : Continues(pendingData, d, packetsWant) => Continues(pendingData \o run, d, w)
        BY <3>2, <3>3, QueueAppend
      <4>3. QED
        BY <3>2, <4>1, <4>2, Zenon
    <3>5. sock' \in BOOLEAN /\ drainScheduled' \in BOOLEAN
      BY <1>1, <2>2, <3>1, Zenon
    <3>6. DrainPending'
      BY <3>1 DEF DrainPending
    <3>7. throws' \in 0 .. MaxThrows /\ camMoves' \in 0 .. MaxMoves /\ delivered' \in Seq(Int)
      BY <2>2, <3>1 DEF Inv, QueueOK, camVars
    <3>8. pendingDataOffset' \in 0 .. Len(pendingData')
      BY <3>1, <3>2, <3>3, <3>4
    <3>9. ASSUME throws = 0
          PROVE  /\ pendingDataOffset' = 0
                 /\ DeliveredInOrder'
                 /\ Len(delivered') + Len(pendingData') = packetsWant'
                 /\ \A i \in 1 .. Len(pendingData') : pendingData'[i] = Len(delivered') + i - 1
      <4>1. /\ pendingDataOffset = 0 /\ DeliveredInOrder
            /\ Continues(pendingData, Len(delivered), packetsWant)
        BY <1>1, <3>9 DEF Inv, QueueOK, Continues
      <4>2. DeliveredInOrder'
        BY <3>1, <4>1 DEF DeliveredInOrder
      <4>3. Continues(pendingData', Len(delivered), packetsWant')
        BY <3>3, <3>4, <4>1
      <4>6. delivered' = delivered
        BY <3>1
      <4>7. QED
        BY <3>1, <4>1, <4>2, <4>3, <4>6 DEF Continues
    <3>10. throws' = throws
      BY <3>1
    <3>11. QED
      BY <3>4, <3>5, <3>6, <3>7, <3>8, <3>9, <3>10 DEF QueueOK
  <2>9. QED
    BY <2>4, <2>5, <2>6, <2>7, <2>8 DEF Inv
<1>4. QED
  BY <1>2, <1>3

\* What is left of the queue after its first `off' chunks.
LEMMA QueueTail ==
  ASSUME NEW p \in Seq(Int), NEW off \in 0 .. Len(p), NEW to \in off .. Len(p)
  PROVE  /\ SubSeq(p, off + 1, to) \in Seq(Int)
         /\ Len(SubSeq(p, off + 1, to)) = to - off
         /\ \A i \in 1 .. to - off : SubSeq(p, off + 1, to)[i] = p[off + i]
<1>1. Len(p) \in Nat /\ off \in Nat /\ to \in Nat
  OBVIOUS
<1>2. \A i \in off + 1 .. to : i \in 1 .. Len(p)
  BY <1>1
<1>3. QED
  BY <1>1, <1>2, SubSeqProperties

LEMMA DrainQueue ==
  ASSUME Inv, Drain \/ \E k \in 1 .. Len(pendingData) : DrainThrow(k)
  PROVE  QueueOK'
<1> USE ConstantsAssumption
<1>1. /\ pendingData \in Seq(Int) /\ delivered \in Seq(Int)
      /\ pendingDataOffset \in 0 .. Len(pendingData)
      /\ Len(pendingData) \in Nat /\ Len(delivered) \in Nat
      /\ throws \in 0 .. MaxThrows /\ camMoves \in 0 .. MaxMoves
  BY DEF Inv, QueueOK
<1>2. CASE Drain
  <2> DEFINE tail == SubSeq(pendingData, pendingDataOffset + 1, Len(pendingData))
  <2>1. /\ tail \in Seq(Int)
        /\ Len(tail) = Len(pendingData) - pendingDataOffset
        /\ \A i \in 1 .. Len(pendingData) - pendingDataOffset :
             tail[i] = pendingData[pendingDataOffset + i]
    <3>1. Len(pendingData) \in pendingDataOffset .. Len(pendingData)
      BY <1>1
    <3>2. QED
      BY <1>1, <3>1, QueueTail
  <2>2. /\ delivered' = IF sock THEN delivered \o tail ELSE delivered
        /\ pendingData' = <<>> /\ pendingDataOffset' = 0
        /\ drainScheduled' = FALSE
        /\ UNCHANGED <<sock, packetsWant, throws, camMoves>>
    BY <1>2 DEF Drain, camVars
  <2> HIDE DEF tail
  <2>3. sock' \in BOOLEAN /\ drainScheduled' \in BOOLEAN
    BY <2>2, Zenon DEF Inv, QueueOK
  <2>4. pendingData' \in Seq(Int) /\ Len(pendingData') = 0
    BY <2>2
  <2>5. /\ delivered \o tail \in Seq(Int)
        /\ Len(delivered \o tail) = Len(delivered) + Len(tail)
        /\ \A i \in 1 .. Len(delivered) + Len(tail) :
             (delivered \o tail)[i] = IF i <= Len(delivered) THEN delivered[i] ELSE tail[i - Len(delivered)]
    BY <1>1, <2>1, ConcatProperties
  <2>6. delivered' \in Seq(Int)
    BY <1>1, <2>2, <2>5
  <2>7. ASSUME throws = 0
        PROVE  DeliveredInOrder' /\ (sock' => Len(delivered') = packetsWant')
    <3>1. /\ pendingDataOffset = 0 /\ DeliveredInOrder
          /\ sock => Continues(pendingData, Len(delivered), packetsWant)
      BY <2>7 DEF Inv, QueueOK, Continues
    <3>2. CASE sock
      <4>1. Len(delivered) + Len(pendingData) = packetsWant
            /\ \A i \in 1 .. Len(pendingData) : pendingData[i] = Len(delivered) + i - 1
        BY <3>1, <3>2 DEF Continues
      <4>2. Len(tail) = Len(pendingData) /\ \A i \in 1 .. Len(pendingData) : tail[i] = Len(delivered) + i - 1
        BY <1>1, <2>1, <3>1, <4>1
      <4>3. ASSUME NEW i \in 1 .. Len(delivered) + Len(tail)
            PROVE  (delivered \o tail)[i] = i - 1
        <5>1. CASE i <= Len(delivered)
          BY <1>1, <2>5, <2>7, <3>1, <5>1 DEF DeliveredInOrder
        <5>2. CASE i > Len(delivered)
          <6>1. i - Len(delivered) \in 1 .. Len(pendingData) /\ i \in Nat
            BY <1>1, <4>2, <5>2
          <6>2. tail[i - Len(delivered)] = Len(delivered) + (i - Len(delivered)) - 1
            BY <4>2, <6>1
          <6>3. (delivered \o tail)[i] = tail[i - Len(delivered)]
            BY <1>1, <2>5, <5>2, <6>1
          <6>4. QED
            BY <1>1, <6>1, <6>2, <6>3
        <5>3. QED
          BY <1>1, <4>2, <5>1, <5>2
      <4>4. delivered' = delivered \o tail /\ packetsWant' = packetsWant
        BY <2>2, <3>2
      <4>5. QED
        BY <2>5, <4>1, <4>2, <4>3, <4>4 DEF DeliveredInOrder
    <3>3. CASE ~sock
      BY <2>2, <3>1, <3>3 DEF DeliveredInOrder
    <3>4. QED
      BY <3>2, <3>3
  <2>8. DrainPending'
    BY <2>2, <2>4 DEF DrainPending
  <2>9. Len(delivered') \in Nat
    BY <2>6
  <2>10. QED
    BY <1>1, <2>2, <2>3, <2>4, <2>6, <2>7, <2>8, <2>9 DEF QueueOK
<1>3. ASSUME NEW k \in 1 .. Len(pendingData), DrainThrow(k) PROVE QueueOK'
  <2>1. /\ throws < MaxThrows /\ throws' = throws + 1
        /\ k \in pendingDataOffset + 1 .. Len(pendingData)
        /\ delivered' = delivered \o SubSeq(pendingData, pendingDataOffset + 1, k)
        /\ pendingDataOffset' = k - 1 /\ pendingData' = pendingData
        /\ drainScheduled' = FALSE /\ UNCHANGED <<sock, camMoves>>
    BY <1>3 DEF DrainThrow, camVars
  <2>2. SubSeq(pendingData, pendingDataOffset + 1, k) \in Seq(Int)
    <3>1. k \in pendingDataOffset .. Len(pendingData)
      BY <1>1, <2>1
    <3>2. QED
      BY <1>1, <3>1, QueueTail
  <2>3. delivered' \in Seq(Int)
    BY <1>1, <2>1, <2>2, ConcatProperties
  <2>4. sock' \in BOOLEAN /\ drainScheduled' \in BOOLEAN
    BY <2>1, Zenon DEF Inv, QueueOK
  <2>5. throws' \in 0 .. MaxThrows /\ throws' # 0
    BY <1>1, <2>1
  <2>6. QED
    BY <1>1, <2>1, <2>3, <2>4, <2>5 DEF QueueOK
<1>4. QED
  BY <1>2, <1>3

LEMMA DrainInv ==
  ASSUME Inv, Drain \/ \E k \in 1 .. Len(pendingData) : DrainThrow(k)
  PROVE  Inv'
<1>1. UNCHANGED <<sock, remote, txVars, received, packetsWant, lastAckPacket, camVars, netVars>>
  BY DEF Drain, DrainThrow
<1>2. ToCliOK'
  BY <1>1, ToCliUnchanged DEF Inv, camVars, netVars
<1>3. ToCamOK'
  BY <1>1, ToCamUnchanged DEF Inv, txVars, netVars
<1>4. RxOK'
  BY <1>1, RxUnchanged DEF Inv, RxOK, camVars
<1>5. TxOK'
  BY <1>1, TxUnchanged DEF Inv, txVars, camVars
<1>6. QED
  BY <1>2, <1>3, <1>4, <1>5, DrainQueue DEF Inv

-----------------------------------------------------------------------------
(* The steps of the camera and of the network.                             *)

\* A camera step that sends one truthful datagram and keeps its receive side.
LEMMA CamSends ==
  ASSUME Inv, UNCHANGED <<clientVars, camGot, camPort, camMoves, toCam>>,
         camNext' \in camNext .. MaxRx,
         camUnacked' \subseteq 0 .. camNext' - 1,
         camUnacked \subseteq camUnacked',
         \A n \in 0 .. camNext' - 1 : n \in camUnacked' \/ n \in 0 .. camNext - 1,
         NEW kind, NEW body,
         toCli' = Send(toCli, {Inbound(kind, camPort, "cur", body)}),
         kind = "data" => IsPacket(body, camNext'),
         kind = "ack" => \A id \in Ids : Covers(body, id) => id \in camGot
  PROVE  Inv'
<1>1. camNext \in Nat /\ camNext' \in Nat /\ camNext <= camNext' /\ packetsWant \in 0 .. camNext /\ MaxRx \in Nat
  BY ConstantsAssumption DEF Inv, RxOK
<1>2. ToCliOK'
  <2>1. \A m \in toCli' : m \in toCli \/ m = Inbound(kind, camPort, "cur", body)
    BY NetworkSteps
  <2>2. \A m \in toCli : m.kind = "data" /\ m.conn = "cur" => IsPacket(m.body, camNext')
    BY <1>1 DEF Inv, ToCliOK, IsPacket
  <2>3. camPort \in Ports
    BY DEF Inv, RxOK
  <2>4. ASSUME NEW m \in toCli, camGot' = camGot
        PROVE  /\ m.port \in Ports
               /\ m.kind = "data" /\ m.conn = "cur" => IsPacket(m.body, camNext')
               /\ m.kind = "ack" /\ m.conn = "cur" =>
                    \A id \in Ids : Covers(m.body, id) => id \in camGot
    BY <2>2 DEF Inv, ToCliOK
  <2>5. ASSUME NEW m, m = Inbound(kind, camPort, "cur", body)
        PROVE  /\ m.port \in Ports
               /\ m.kind = "data" /\ m.conn = "cur" => IsPacket(m.body, camNext')
               /\ m.kind = "ack" /\ m.conn = "cur" =>
                    \A id \in Ids : Covers(m.body, id) => id \in camGot
    BY <2>3, <2>5 DEF Inbound
  <2>6. \A m \in toCli' :
          /\ m.port \in Ports
          /\ m.kind = "data" /\ m.conn = "cur" => IsPacket(m.body, camNext')
          /\ m.kind = "ack" /\ m.conn = "cur" =>
               \A id \in Ids : Covers(m.body, id) => id \in camGot
    BY <2>1, <2>4, <2>5
  <2>7. QED
    BY <2>6 DEF ToCliOK, IsPacket, Covers
<1>3. ToCamOK'
  BY ToCamUnchanged DEF Inv, clientVars
<1>4. RxOK'
  <2>1. UNCHANGED <<remote, packetsWant, received, lastAckPacket, camPort>>
    BY DEF clientVars
  <2>2. \A e \in received : e \in [id : Ids, data : 0 .. camNext' - 1] /\ IsPacket(e, camNext')
    BY <1>1 DEF Inv, RxOK, IsPacket
  <2>3. camNext' \in 0 .. MaxRx /\ camUnacked' \subseteq 0 .. camNext' - 1 /\ packetsWant \in 0 .. camNext'
    <3>1. PICK x \in Nat, y \in Nat, w \in Nat : x = camNext /\ y = camNext' /\ w = packetsWant
      BY <1>1
    <3>2. x <= y /\ w <= x /\ y <= MaxRx
      BY ONLY <1>1, <3>1, camNext' \in camNext .. MaxRx
    <3>3. camNext' \in 0 .. MaxRx
      BY ONLY <1>1, <3>1, <3>2
    <3>4. packetsWant \in 0 .. camNext'
      BY ONLY <1>1, <3>1, <3>2
    <3>5. QED
      BY <3>3, <3>4
  <2>4. \A n \in 0 .. camNext' - 1 : n \in camUnacked' \/ Held(packetsWant, received, n)
    BY DEF Inv, RxOK
  <2>5. QED
    BY <2>1, <2>2, <2>3, <2>4 DEF Inv, RxOK, Covers, Held, Has
<1>5. TxOK'
  BY TxUnchanged DEF Inv, clientVars
<1>6. QueueOK'
  BY QueueUnchanged DEF Inv, QueueOK, clientVars
<1>7. QED
  BY <1>2, <1>3, <1>4, <1>5, <1>6 DEF Inv

LEMMA CamDataIsPacket ==
  ASSUME NoWrap, NEW n \in 0 .. MaxRx - 1, NEW next \in Nat, n < next
  PROVE  IsPacket(Entry(n % IdSpace, n), next)
<1>1. n % IdSpace = n
  BY ConstantsAssumption, ModSmall DEF NoWrap
<1>2. QED
  BY <1>1 DEF Entry, IsPacket

LEMMA CamSendInv ==
  ASSUME NoWrap, Inv, CamSend \/ (\E n \in camUnacked : CamResend(n))
         \/ CamSendAck \/ CamProbe \/ CamDisc
  PROVE  Inv'
<1> USE ConstantsAssumption
<1>1. camNext \in 0 .. MaxRx /\ camUnacked \subseteq 0 .. camNext - 1
  BY DEF Inv, RxOK
<1>2. CASE CamSend
  <2>1. camNext' = camNext + 1 /\ camNext < MaxRx
    BY <1>2 DEF CamSend
  <2>2. /\ camUnacked' \subseteq 0 .. camNext' - 1 /\ camUnacked \subseteq camUnacked'
        /\ \A n \in 0 .. camNext' - 1 : n \in camUnacked' \/ n \in 0 .. camNext - 1
    BY <1>1, <1>2, <2>1 DEF CamSend
  <2>3. IsPacket(Entry(camNext % IdSpace, camNext), camNext')
    BY <1>1, <2>1, CamDataIsPacket
  <2>4. toCli' = Send(toCli, {Inbound("data", camPort, "cur", Entry(camNext % IdSpace, camNext))})
    BY <1>2 DEF CamSend, CamData
  <2>5. camNext' \in camNext .. MaxRx /\ UNCHANGED <<clientVars, camGot, camPort, camMoves, toCam>>
    BY <1>1, <1>2, <2>1 DEF CamSend
  <2>6. QED
    BY <2>2, <2>3, <2>4, <2>5, CamSends, "data" # "ack"
<1>3. ASSUME UNCHANGED <<clientVars, camVars, toCam>>, NEW kind, NEW body,
             toCli' = Send(toCli, {Inbound(kind, camPort, "cur", body)}),
             kind = "data" => IsPacket(body, camNext),
             kind = "ack" => \A id \in Ids : Covers(body, id) => id \in camGot
      PROVE  Inv'
  <2>1. camNext' = camNext /\ camUnacked' = camUnacked
        /\ UNCHANGED <<clientVars, camGot, camPort, camMoves, toCam>>
    BY <1>3 DEF camVars
  <2>2. /\ camNext' \in camNext .. MaxRx
        /\ camUnacked' \subseteq 0 .. camNext' - 1 /\ camUnacked \subseteq camUnacked'
        /\ \A n \in 0 .. camNext' - 1 : n \in camUnacked' \/ n \in 0 .. camNext - 1
    BY <1>1, <2>1
  <2>3. QED
    BY <1>3, <2>1, <2>2, CamSends
<1>4. ASSUME NEW n \in camUnacked, CamResend(n) PROVE Inv'
  <2>1. IsPacket(Entry(n % IdSpace, n), camNext)
    BY <1>1, CamDataIsPacket
  <2>2. toCli' = Send(toCli, {Inbound("data", camPort, "cur", Entry(n % IdSpace, n))})
    BY <1>4 DEF CamResend, CamData
  <2>3. UNCHANGED <<clientVars, camVars, toCam>>
    BY <1>4 DEF CamResend
  <2>4. QED
    BY <1>3, <2>1, <2>2, <2>3
<1>5. CASE CamSendAck
  <2>1. MaxTx <= IdSpace /\ camGot \subseteq 0 .. MaxTx - 1
    BY DEF NoWrap, Inv, TxOK
  <2>2. \A id \in Ids : Covers(CamAck, id) => id \in camGot
    BY <2>1, CamAckTruthful
  <2>3. QED
    BY <1>3, <1>5, <2>2 DEF CamSendAck
<1>6. CASE CamProbe
  BY <1>3, <1>6 DEF CamProbe
<1>7. CASE CamDisc
  BY <1>3, <1>7 DEF CamDisc
<1>8. QED
  BY <1>2, <1>4, <1>5, <1>6, <1>7

LEMMA CamRecvAckInv ==
  ASSUME NoWrap, Inv, CamRecvAck PROVE Inv'
<1> USE ConstantsAssumption
<1>1. PICK m \in toCam :
        /\ m.kind = "ack"
        /\ toCam' \in Take(toCam, m)
        /\ camUnacked' = {n \in camUnacked : ~Covers(m.body, n % IdSpace)}
        /\ UNCHANGED <<clientVars, camNext, camGot, camPort, camMoves, toCli>>
  BY DEF CamRecvAck
<1>2. toCam' \subseteq toCam
  BY <1>1, NetworkSteps
<1>3. RxOK'
  <2>1. camNext \in 0 .. MaxRx /\ MaxRx <= IdSpace /\ IdSpace \in Nat /\ MaxRx \in Nat
    BY DEF Inv, RxOK, NoWrap
  <2>2. ASSUME NEW n \in 0 .. camNext - 1
        PROVE  n \in camUnacked' \/ Held(packetsWant, received, n)
    <3>1. n % IdSpace = n /\ n \in Ids
      BY <2>1, ModSmall DEF Ids
    <3>2. Covers(m.body, n) => Held(packetsWant, received, n)
      BY <1>1, <3>1 DEF Inv, ToCamOK
    <3>3. n \in camUnacked \/ Held(packetsWant, received, n)
      BY DEF Inv, RxOK
    <3>4. QED
      BY <1>1, <3>1, <3>2, <3>3
  <2>3. UNCHANGED <<remote, packetsWant, received, lastAckPacket, camPort, camNext>>
    BY <1>1 DEF clientVars
  <2>4. camUnacked' \subseteq camUnacked
    BY <1>1
  <2>5. QED
    BY <2>2, <2>3, <2>4 DEF Inv, RxOK, Covers, IsPacket, Held, Has
<1>4. ToCliOK'
  BY <1>1, ToCliUnchanged DEF Inv
<1>5. ToCamOK'
  BY <1>1, <1>2, ToCamUnchanged DEF Inv, clientVars
<1>6. TxOK'
  BY <1>1, TxUnchanged DEF Inv, clientVars
<1>7. QueueOK'
  BY <1>1, QueueUnchanged DEF Inv, QueueOK, clientVars
<1>8. QED
  BY <1>3, <1>4, <1>5, <1>6, <1>7 DEF Inv

LEMMA CamRecvDataInv ==
  ASSUME Inv, NEW m, CamRecvData(m) PROVE Inv'
<1>1. /\ m \in toCam /\ m.kind = "data"
      /\ toCam' \in Take(toCam, m)
      /\ camGot' = camGot \cup {m.body.data}
      /\ UNCHANGED <<clientVars, camNext, camUnacked, camPort, camMoves, toCli>>
  BY DEF CamRecvData
<1>2. toCam' \subseteq toCam
  BY <1>1, NetworkSteps
<1>3. TxOK'
  <2>1. m.body.data \in 0 .. written - 1
    BY <1>1 DEF Inv, ToCamOK, IsPacket
  <2>2. UNCHANGED <<written, sendPacketId, sent>>
    BY <1>1 DEF clientVars
  <2>3. QED
    BY <1>1, <2>1, <2>2 DEF Inv, TxOK, NoTxLoss, IsPacket
<1>4. ToCliOK'
  BY <1>1 DEF Inv, ToCliOK, Covers, IsPacket
<1>5. ToCamOK'
  BY <1>1, <1>2, ToCamUnchanged DEF Inv, clientVars
<1>6. RxOK'
  BY <1>1, RxUnchanged DEF Inv, RxOK, clientVars
<1>7. QueueOK'
  BY <1>1, QueueUnchanged DEF Inv, QueueOK, clientVars
<1>8. QED
  BY <1>3, <1>4, <1>5, <1>6, <1>7 DEF Inv

LEMMA CamMovePortInv ==
  ASSUME Inv, NEW p \in Ports, CamMovePort(p) PROVE Inv'
<1>1. /\ camPort' = p /\ camMoves' \in 0 .. MaxMoves
      /\ UNCHANGED <<clientVars, camNext, camUnacked, camGot, netVars>>
  BY ConstantsAssumption DEF CamMovePort, Inv, QueueOK
<1>2. ToCliOK'
  BY <1>1, ToCliUnchanged DEF Inv, netVars
<1>3. ToCamOK'
  BY <1>1, ToCamUnchanged DEF Inv, clientVars, netVars
<1>4. RxOK'
  BY <1>1, RxUnchanged DEF Inv, RxOK, clientVars
<1>5. TxOK'
  BY <1>1, TxUnchanged DEF Inv, clientVars
<1>6. QueueOK'
  BY <1>1, QueueUnchanged DEF Inv, QueueOK, clientVars
<1>7. QED
  BY <1>2, <1>3, <1>4, <1>5, <1>6 DEF Inv

\* Losing a datagram, or doing nothing.
LEMMA NetworkInv ==
  ASSUME Inv, LoseToCam \/ LoseToCli \/ UNCHANGED vars PROVE Inv'
<1>1. toCam' \subseteq toCam /\ toCli' \subseteq toCli /\ UNCHANGED <<clientVars, camVars>>
  BY DEF LoseToCam, LoseToCli, vars, netVars
<1>2. remote' \in Ports /\ sock' \in {sock, FALSE} /\ UNCHANGED <<txVars, rxVars, camVars>>
  BY <1>1 DEF clientVars, txVars, rxVars, Inv, RxOK
<1>3. QED
  BY <1>1, <1>2, IdleStepInv

LEMMA NextInv ==
  ASSUME NoWrap, Inv, [Next]_vars PROVE Inv'
<1>1. CASE ClientStep
  <2>1. CASE \E k \in 1 .. MaxFragments : Write(k)
    BY <2>1, WriteInv
  <2>2. CASE \E m \in toCli : RecvData(m) \/ RecvAck(m) \/ RecvProbe(m) \/ RecvStale(m)
    BY <2>2, RecvDataInv, RecvAckInv, RecvProbeInv, RecvStaleInv
  <2>3. CASE Close \/ \E m \in toCli : RecvDisc(m)
    BY <2>3, CloseInv
  <2>4. CASE Drain \/ \E k \in 1 .. Len(pendingData) : DrainThrow(k)
    BY <2>4, DrainInv
  <2>5. CASE AckTick \/ ResendTick
    BY <2>5, AckTickInv, ResendTickInv
  <2>6. QED
    BY <1>1, <2>1, <2>2, <2>3, <2>4, <2>5 DEF ClientStep
<1>2. CASE CamStep
  <2>1. CASE CamSend \/ (\E n \in camUnacked : CamResend(n)) \/ CamSendAck \/ CamProbe \/ CamDisc
    BY <2>1, CamSendInv
  <2>2. CASE CamRecvAck
    BY <2>2, CamRecvAckInv
  <2>3. CASE \E m \in toCam : CamRecvData(m)
    BY <2>3, CamRecvDataInv
  <2>4. CASE \E p \in Ports : CamMovePort(p)
    BY <2>4, CamMovePortInv
  <2>5. QED
    BY <1>2, <2>1, <2>2, <2>3, <2>4 DEF CamStep
<1>3. CASE LoseToCam \/ LoseToCli \/ UNCHANGED vars
  BY <1>3, NetworkInv
<1>4. QED
  BY <1>1, <1>2, <1>3 DEF Next

-----------------------------------------------------------------------------
(* The theorems.                                                           *)

\* The invariant holds in every reachable state of an unwrapped session.
THEOREM Invariance ==
  ASSUME NoWrap PROVE Spec => []Inv
<1>1. Init => Inv
  BY InitInv
<1>2. Inv /\ [Next]_vars => Inv'
  BY NextInv
<1>3. QED
  BY <1>1, <1>2, PTL DEF Spec

\* Type correctness of the fields of BcUdpStream.
THEOREM TypeCorrect ==
  ASSUME NoWrap PROVE Spec => []TypeOK
<1>1. Inv => TypeOK
  <2> SUFFICES ASSUME Inv PROVE TypeOK
    OBVIOUS
  <2>1. /\ camNext \in 0 .. MaxRx /\ packetsWant \in 0 .. IdSpace
        /\ packetsWant \in 0 .. camNext
    BY ConstantsAssumption DEF Inv, RxOK, NoWrap
  <2>2. sock \in BOOLEAN /\ drainScheduled \in BOOLEAN
    BY Zenon DEF Inv, QueueOK
  <2>3. QED
    BY <2>1, <2>2 DEF TypeOK, Inv, RxOK, TxOK, QueueOK, Ids
<1>2. QED
  BY <1>1, Invariance, PTL

\* The listener sees the camera's stream in order, without gap or duplicate,
\* over any network, as long as no listener throws.
THEOREM InOrder ==
  ASSUME NoWrap PROVE Spec => []DeliveredInOrder
<1>1. Inv => DeliveredInOrder
  BY DEF Inv, QueueOK, DeliveredInOrder
<1>2. QED
  BY <1>1, Invariance, PTL

\* No packet of the camera is lost between its retransmission and the queue.
THEOREM RxLossless ==
  ASSUME NoWrap PROVE Spec => []NoRxLoss
<1>1. Inv => NoRxLoss
  BY DEF Inv, RxOK, NoRxLoss, Held, Has, IsPacket
<1>2. QED
  BY <1>1, Invariance, PTL

\* No packet of the client is forgotten before the camera has it.
THEOREM TxLossless ==
  ASSUME NoWrap PROVE Spec => []NoTxLoss
<1>1. Inv => NoTxLoss
  BY DEF Inv, TxOK
<1>2. QED
  BY <1>1, Invariance, PTL

\* Every acknowledgement on the wire is truthful and within its bound.
THEOREM AcksTruthful ==
  ASSUME NoWrap PROVE Spec => []AckTruthful
<1>1. Inv => AckTruthful
  BY DEF Inv, ToCamOK, AckTruthful, Held, Ids
<1>2. QED
  BY <1>1, Invariance, PTL

\* No chunk waits for a drain that was never scheduled.
THEOREM DrainScheduled ==
  ASSUME NoWrap PROVE Spec => []DrainPending
<1>1. Inv => DrainPending
  BY Zenon DEF Inv, QueueOK, DrainPending
<1>2. QED
  BY <1>1, Invariance, PTL

-----------------------------------------------------------------------------
(* The refinement mapping.                                                 *)

\* The run of packets the camera holds only grows, and consists of packets
\* that were written.
LEMMA CamInOrderProperties ==
  ASSUME NEW got \in SUBSET (0 .. MaxTx - 1)
  PROVE  /\ CamInOrder(got) \in 0 .. MaxTx
         /\ CamInOrder(got) \notin got
         /\ 0 .. CamInOrder(got) - 1 \subseteq got
<1> USE ConstantsAssumption
<1> DEFINE Q == (0 .. MaxTx) \ got
<1>1. MaxTx \in Q
  OBVIOUS
<1> HIDE DEF Q
<1>2. PICK n \in 0 .. MaxTx : n \in Q /\ \A k \in 0 .. n - 1 : k \notin Q
  <2>1. 0 \in Nat /\ MaxTx \in Nat /\ 0 <= MaxTx
    OBVIOUS
  <2>2. QED
    BY <1>1, <2>1, LeastInRange
<1> USE DEF Q
<1>3. n \notin got /\ 0 .. n - 1 \subseteq got
  BY <1>2
<1>4. QED
  BY <1>3 DEF CamInOrder

LEMMA CamInOrderGrows ==
  ASSUME NEW n \in 0 .. MaxTx, NEW old \in SUBSET (0 .. n - 1),
         NEW got \in SUBSET (0 .. n - 1), old \subseteq got
  PROVE  CamInOrder(got) = CamInOrder(old) \/ CamInOrder(got) \in CamInOrder(old) + 1 .. n
<1> USE ConstantsAssumption
<1> DEFINE before == CamInOrder(old)
           after == CamInOrder(got)
<1>1. /\ before \in 0 .. MaxTx /\ 0 .. before - 1 \subseteq old
      /\ after \in 0 .. MaxTx /\ after \notin got /\ 0 .. after - 1 \subseteq got
  <2>1. old \in SUBSET (0 .. MaxTx - 1) /\ got \in SUBSET (0 .. MaxTx - 1)
    OBVIOUS
  <2>2. QED
    BY <2>1, CamInOrderProperties
<1> HIDE DEF before, after
<1>2. before <= after
  <2>1. after < before => after \in 0 .. before - 1
    BY <1>1
  <2>2. QED
    BY <1>1, <2>1
<1>3. after <= n
  <2>1. n < after => n \in 0 .. after - 1
    BY <1>1
  <2>2. QED
    BY <1>1, <2>1
<1>4. QED
  BY <1>1, <1>2, <1>3 DEF before, after

-----------------------------------------------------------------------------
(* What the listener hears.  A chunk it throws on comes again with the next *)
(* drain, so that a sequence of chunks is in order when each one is the     *)
(* successor of the one before, or the same one again.                      *)

\* The places of d that repeat the one before, and the number of other places.
Again(d) == {i \in 2 .. Len(d) : d[i] = d[i - 1]}
Heard(d) == Len(d) - Cardinality(Again(d))

\* Up to its repetitions d counts from 0.
Counts(d) ==
  /\ d \in Seq(Int)
  /\ \A j \in 1 .. Len(d) : d[j] = j - Cardinality(Again(d) \cap 1 .. j) - 1

\* The first chunk of the queue, handed over or not.
First == packetsWant - Len(pendingData)

\* While the connection is open the drain continues with the chunk after the
\* last one that was heard, or with that one when the listener threw on it.
HeardOK ==
  /\ Counts(delivered) /\ Heard(delivered) <= packetsWant
  /\ sock => /\ First >= 0 /\ Continues(pendingData, First, packetsWant)
             /\ First + pendingDataOffset \in {Heard(delivered) - 1, Heard(delivered)}

LEMMA AgainFinite ==
  ASSUME NEW d \in Seq(Int)
  PROVE  /\ Again(d) \subseteq 2 .. Len(d) /\ IsFiniteSet(Again(d))
         /\ Cardinality(Again(d)) \in Nat
         /\ Again(d) \cap 1 .. Len(d) = Again(d)
         /\ \A j \in Int : Cardinality(Again(d) \cap 1 .. j) \in Nat
<1>1. Again(d) \subseteq 2 .. Len(d)
  BY DEF Again
<1>2. IsFiniteSet(2 .. Len(d))
  BY FS_Interval
<1>3. \A S \in SUBSET Again(d) : IsFiniteSet(S) /\ Cardinality(S) \in Nat
  BY <1>1, <1>2, FS_Subset, FS_CardinalityType
<1>4. QED
  BY <1>1, <1>3

\* The last chunk of a sequence that counts.
LEMMA LastCounts ==
  ASSUME NEW d, Counts(d)
  PROVE  /\ Heard(d) \in 0 .. Len(d)
         /\ Len(d) = 0 => Heard(d) = 0
         /\ Len(d) > 0 => Heard(d) > 0 /\ d[Len(d)] = Heard(d) - 1
<1>1. d \in Seq(Int) /\ Len(d) \in Nat
  BY DEF Counts
<1>2. CASE Len(d) = 0
  <2>1. Again(d) = {}
    BY <1>1, <1>2 DEF Again
  <2>2. QED
    BY <1>2, <2>1, FS_EmptySet DEF Heard
<1>3. CASE Len(d) > 0
  <2> DEFINE n == Cardinality(Again(d))
  <2>1. n \in Nat /\ Again(d) \cap 1 .. Len(d) = Again(d) /\ Again(d) \subseteq 2 .. Len(d)
    BY <1>1, AgainFinite
  <2>2. d[Len(d)] = Len(d) - n - 1
    <3>1. Len(d) \in 1 .. Len(d)
      BY <1>1, <1>3
    <3>2. QED
      BY <2>1, <3>1 DEF Counts
  <2> HIDE DEF n
  <2>3. IsFiniteSet(2 .. Len(d)) /\ Cardinality(2 .. Len(d)) = Len(d) - 1
    BY <1>1, <1>3, FS_Interval
  <2>4. n <= Len(d) - 1
    BY <2>1, <2>3, FS_Subset DEF n
  <2>5. QED
    BY <1>1, <1>3, <2>1, <2>2, <2>4 DEF Heard, n
<1>4. QED
  BY <1>1, <1>2, <1>3

\* What a drain adds to a sequence that counts: a run that begins after the last
\* chunk, or with it.
LEMMA RunHeard ==
  ASSUME NEW d, Counts(d), NEW from \in Nat, from \in {Heard(d) - 1, Heard(d)},
         NEW to \in Nat, from < to, NEW run, IsRun(run, from, to)
  PROVE  Counts(d \o run) /\ Heard(d \o run) = to
<1> DEFINE c == d \o run
           n == to - from
           again == IF from = Heard(d) THEN {} ELSE {Len(d) + 1}
<1>1. /\ d \in Seq(Int) /\ Len(d) \in Nat /\ n \in Nat /\ n > 0
      /\ run \in Seq(Int) /\ Len(run) = n /\ \A i \in 1 .. n : run[i] = from + i - 1
  BY DEF Counts, IsRun
<1>2. /\ c \in Seq(Int) /\ Len(c) = Len(d) + n /\ Len(c) \in Nat
      /\ \A i \in 1 .. Len(d) + n : c[i] = IF i <= Len(d) THEN d[i] ELSE run[i - Len(d)]
  <2>1. \A i \in 1 .. Len(d) + Len(run) :
          c[i] = IF i <= Len(d) THEN d[i] ELSE run[i - Len(d)]
    BY ONLY <1>1, ConcatProperties
  <2>2. c \in Seq(Int) /\ Len(c) = Len(d) + Len(run)
    BY ONLY <1>1, ConcatProperties
  <2>3. QED
    BY ONLY <1>1, <2>1, <2>2
<1> HIDE DEF c, n
<1>3. \A i \in 1 .. Len(d) : c[i] = d[i]
  BY <1>1, <1>2
<1>4. ASSUME NEW i \in Len(d) + 1 .. Len(d) + n PROVE c[i] = from + (i - Len(d)) - 1
  <2>1. i - Len(d) \in 1 .. n /\ i \in 1 .. Len(d) + n /\ ~(i <= Len(d))
    BY <1>1
  <2>2. QED
    BY <1>1, <1>2, <2>1
<1>5. /\ Heard(d) \in 0 .. Len(d)
      /\ Len(d) = 0 => Heard(d) = 0
      /\ Len(d) > 0 => d[Len(d)] = Heard(d) - 1
  BY LastCounts
<1>6. ASSUME NEW i \in 2 .. Len(d) + n PROVE i \in Again(c) <=> i \in Again(d) \cup again
  <2>1. i \in Again(c) <=> c[i] = c[i - 1]
    BY <1>2 DEF Again
  <2>2. CASE i <= Len(d)
    <3>1. i \in 2 .. Len(d) /\ i \in 1 .. Len(d) /\ i - 1 \in 1 .. Len(d) /\ i \notin again
      BY <1>1, <2>2
    <3>2. QED
      BY <1>3, <2>1, <3>1 DEF Again
  <2>3. CASE i = Len(d) + 1
    <3>1. Len(d) > 0 /\ i - 1 = Len(d) /\ i \notin Again(d) /\ (i \in again <=> from # Heard(d))
      BY <1>1, <2>3 DEF Again
    <3>2. c[i] = from /\ c[i - 1] = Heard(d) - 1
      <4>1. i \in Len(d) + 1 .. Len(d) + n /\ i - 1 \in 1 .. Len(d)
        BY <1>1, <2>3, <3>1
      <4>2. c[i] = from + (i - Len(d)) - 1
        BY <1>4, <4>1
      <4>3. QED
        BY <1>1, <1>3, <1>5, <2>3, <3>1, <4>1, <4>2
    <3>3. QED
      BY <1>5, <2>1, <3>1, <3>2
  <2>4. CASE i > Len(d) + 1
    <3>1. i \in Len(d) + 1 .. Len(d) + n /\ i - 1 \in Len(d) + 1 .. Len(d) + n
      BY <1>1, <2>4
    <3>2. c[i] = from + (i - Len(d)) - 1 /\ c[i - 1] = from + (i - 1 - Len(d)) - 1
      BY <1>4, <3>1
    <3>3. i \notin Again(d) \cup again
      BY <1>1, <2>4 DEF Again
    <3>4. QED
      BY <1>1, <2>1, <3>2, <3>3
  <2>5. QED
    BY <1>1, <2>2, <2>3, <2>4
<1>7. Again(c) = Again(d) \cup again
  <2>1. Again(c) \subseteq 2 .. Len(d) + n /\ Again(d) \subseteq 2 .. Len(d) + n
    BY <1>1, <1>2 DEF Again
  <2>2. again \subseteq 2 .. Len(d) + n
    <3>1. from # Heard(d) => Len(d) > 0
      BY <1>5
    <3>2. QED
      BY <1>1, <3>1
  <2>3. QED
    BY <1>6, <2>1, <2>2
<1>8. /\ Cardinality(Again(d)) \in Nat /\ Heard(d) = Len(d) - Cardinality(Again(d))
      /\ Cardinality(Again(c)) = Cardinality(Again(d)) + (IF from = Heard(d) THEN 0 ELSE 1)
  <2>1. IsFiniteSet(Again(d)) /\ Cardinality(Again(d)) \in Nat /\ Len(d) + 1 \notin Again(d)
    BY <1>1, AgainFinite
  <2>2. CASE from = Heard(d)
    BY <1>7, <2>1, <2>2 DEF Heard
  <2>3. CASE from # Heard(d)
    <3>1. Again(c) = Again(d) \cup {Len(d) + 1}
      BY <1>7, <2>3
    <3>2. QED
      BY <2>1, <2>3, <3>1, FS_AddElement DEF Heard
  <2>4. QED
    BY <2>2, <2>3
<1>9. PICK l \in Nat, k \in Nat :
        l = Len(d) /\ k = Cardinality(Again(c)) /\ from + k = l
  <2>1. PICK l \in Nat, a \in Nat : l = Len(d) /\ a = Cardinality(Again(d)) /\ Heard(d) = l - a
    BY <1>1, <1>8
  <2>2. CASE from = Heard(d)
    BY <1>8, <2>1, <2>2
  <2>3. CASE from # Heard(d)
    <3>1. from = l - a - 1 /\ Cardinality(Again(c)) = a + 1
      BY <1>8, <2>1, <2>3
    <3>2. a + 1 \in Nat /\ from + (a + 1) = l
      BY ONLY <2>1, <3>1, from \in Nat
    <3>3. QED
      BY <2>1, <3>1, <3>2
  <2>4. QED
    BY <2>2, <2>3
<1>10. Heard(c) = to
  <2>1. Heard(c) = (l + (to - from)) - k
    BY <1>2, <1>9 DEF Heard, n
  <2>2. QED
    BY ONLY <1>9, <2>1, from \in Nat, to \in Nat
<1>11. ASSUME NEW j \in 1 .. Len(c) PROVE c[j] = j - Cardinality(Again(c) \cap 1 .. j) - 1
  <2>1. CASE j <= Len(d)
    <3>1. j \in 1 .. Len(d)
      BY <1>1, <1>2, <2>1
    <3>2. Again(c) \cap 1 .. j = Again(d) \cap 1 .. j
      BY <1>1, <1>7, <3>1
    <3>3. QED
      BY <1>3, <3>1, <3>2 DEF Counts
  <2>2. CASE j > Len(d)
    <3>1. j \in Len(d) + 1 .. Len(d) + n
      BY <1>1, <1>2, <2>2
    <3>2. Again(c) \cap 1 .. j = Again(c)
      <4>1. Again(d) \subseteq 1 .. j /\ again \subseteq 1 .. j
        BY <1>1, <3>1 DEF Again
      <4>2. QED
        BY <1>7, <4>1
    <3>3. c[j] = from + (j - Len(d)) - 1
      BY <1>4, <3>1
    <3>4. j - Cardinality(Again(c)) - 1 = from + (j - Len(d)) - 1
      <4>1. j \in Nat /\ j - k - 1 = from + (j - l) - 1
        BY <1>1, <1>9, <3>1
      <4>2. QED
        BY <1>9, <4>1
    <3>5. QED
      BY <3>2, <3>3, <3>4
  <2>3. QED
    BY <1>1, <1>2, <2>1, <2>2
<1>12. QED
  BY <1>2, <1>10, <1>11 DEF Counts, c

\* SeenOnce of any sequence.
SeenIn(d) ==
  [i \in 1 .. Heard(d) |->
     d[CHOOSE j \in DOMAIN d \ Again(d) : j - Cardinality(Again(d) \cap 1 .. j) = i]]

LEMMA SeenIs == SeenOnce = SeenIn(delivered) /\ SeenOnce' = SeenIn(delivered')
BY DEF SeenOnce, SeenIn, Repeats, Heard, Again

\* In a sequence that counts SeenIn keeps the first occurrence of each chunk.
LEMMA SeenCounts ==
  ASSUME NEW d, Counts(d) PROVE SeenIn(d) = [i \in 1 .. Heard(d) |-> i - 1]
<1> DEFINE Rank(j) == j - Cardinality(Again(d) \cap 1 .. j)
           Kept(i) == CHOOSE j \in DOMAIN d \ Again(d) : Rank(j) = i
<1>1. /\ d \in Seq(Int) /\ Len(d) \in Nat /\ DOMAIN d = 1 .. Len(d)
      /\ \A j \in 1 .. Len(d) : d[j] = Rank(j) - 1 /\ d[j] \in Int
      /\ Heard(d) \in 0 .. Len(d)
      /\ Len(d) > 0 => d[Len(d)] = Heard(d) - 1
      /\ Len(d) = 0 => Heard(d) = 0
  BY LastCounts DEF Counts
<1>2. SeenIn(d) = [i \in 1 .. Heard(d) |-> d[Kept(i)]]
  BY DEF SeenIn
<1>3. \A j \in 1 .. Len(d) : Rank(j) = d[j] + 1
  <2>1. \A j \in Int : Cardinality(Again(d) \cap 1 .. j) \in Nat
    BY <1>1, AgainFinite
  <2>2. \A j \in 1 .. Len(d) : Rank(j) \in Int
    BY <1>1, <2>1
  <2> HIDE DEF Rank
  <2>3. QED
    BY <1>1, <2>2
<1> HIDE DEF Rank
<1>4. ASSUME NEW i \in 1 .. Heard(d) PROVE \E j \in DOMAIN d \ Again(d) : Rank(j) = i
  <2> DEFINE T == {j \in 1 .. Len(d) : d[j] >= i - 1}
  <2>1. Len(d) \in T /\ T \subseteq Nat
    BY <1>1
  <2> HIDE DEF T
  <2>2. PICK j \in T : \A k \in T : j <= k
    BY <2>1, LeastNatural
  <2>3. j \in 1 .. Len(d) /\ d[j] >= i - 1
    BY <2>2 DEF T
  <2>4. CASE j = 1
    <3>1. 1 \notin Again(d) /\ Again(d) \cap 1 .. 1 = {}
      BY DEF Again
    <3>2. Rank(1) = 1
      BY <3>1, FS_EmptySet DEF Rank
    <3>3. i = 1
      BY <1>1, <1>3, <2>3, <2>4, <3>2
    <3>4. QED
      BY <1>1, <2>3, <2>4, <3>1, <3>2, <3>3
  <2>5. CASE j > 1
    <3>1. j - 1 \in 1 .. Len(d) /\ j \in 2 .. Len(d) /\ j \in Nat
      BY <1>1, <2>3, <2>5
    <3>2. d[j - 1] < i - 1
      BY <1>1, <2>2, <3>1 DEF T
    <3>3. j \notin Again(d)
      BY <1>1, <2>3, <3>1, <3>2 DEF Again
    <3>4. Again(d) \cap 1 .. j = Again(d) \cap 1 .. j - 1
      BY <3>1, <3>3
    <3>5. Rank(j) = Rank(j - 1) + 1
      <4>1. \A k \in Int : Cardinality(Again(d) \cap 1 .. k) \in Nat
        BY <1>1, AgainFinite
      <4>2. PICK n \in Nat : n = Cardinality(Again(d) \cap 1 .. j - 1)
        BY <3>1, <4>1
      <4>3. Rank(j) = j - n /\ Rank(j - 1) = j - 1 - n
        BY <3>4, <4>2 DEF Rank
      <4>4. QED
        BY <3>1, <4>2, <4>3
    <3>6. d[j] = d[j - 1] + 1
      <4>1. Rank(j) = d[j] + 1 /\ Rank(j - 1) = d[j - 1] + 1
        BY <1>3, <2>3, <3>1
      <4>2. d[j] \in Int /\ d[j - 1] \in Int
        BY <1>1, <2>3, <3>1
      <4>3. QED
        BY <3>5, <4>1, <4>2
    <3>7. Rank(j) = i
      BY <1>1, <1>3, <2>3, <3>1, <3>2, <3>6
    <3>8. QED
      BY <1>1, <2>3, <3>3, <3>7
  <2>6. QED
    BY <1>1, <2>3, <2>4, <2>5
<1>5. ASSUME NEW i \in 1 .. Heard(d) PROVE d[Kept(i)] = i - 1
  <2>1. Kept(i) \in 1 .. Len(d) /\ Rank(Kept(i)) = i
    BY <1>1, <1>4
  <2>2. QED
    BY <1>1, <1>3, <2>1
<1> HIDE DEF Kept
<1>6. QED
  BY <1>2, <1>5

-----------------------------------------------------------------------------
(* The queue under a listener that throws.                                 *)

Quiescent == UNCHANGED <<sock, camNext, delivered, written, camGot>>
QueueKept == UNCHANGED <<packetsWant, pendingData, pendingDataOffset>>

LEMMA StepShapes ==
  ASSUME [Next]_vars
  PROVE  \/ /\ QueueKept
            /\ \/ Quiescent
               \/ sock /\ sock' = FALSE /\ UNCHANGED <<camNext, delivered, written, camGot>>
               \/ /\ sock /\ \E k \in 1 .. MaxFragments : written' = written + k
                  /\ UNCHANGED <<sock, camNext, delivered, camGot>>
               \/ camNext' = camNext + 1 /\ UNCHANGED <<sock, delivered, written, camGot>>
               \/ camGot \subseteq camGot' /\ UNCHANGED <<sock, camNext, delivered, written>>
         \/ \E m \in toCli : RecvData(m)
         \/ Drain
         \/ \E k \in 1 .. Len(pendingData) : DrainThrow(k)
<1> USE DEF QueueKept
<1>1. CASE ClientStep
  <2>1. CASE \E k \in 1 .. MaxFragments : Write(k)
    BY <2>1 DEF Write, rxVars, camVars
  <2>2. CASE Close \/ \E m \in toCli : RecvDisc(m)
    BY <2>2 DEF Close, RecvDisc, txVars, rxVars, camVars
  <2>3. CASE AckTick \/ ResendTick
    BY <2>3 DEF AckTick, ResendTick, clientVars, camVars, Quiescent
  <2>4. CASE \E m \in toCli : RecvStale(m) \/ RecvAck(m) \/ RecvProbe(m)
    BY <2>4 DEF RecvStale, RecvAck, RecvProbe, clientVars, txVars, rxVars, camVars, Quiescent
  <2>5. QED
    BY <1>1, <2>1, <2>2, <2>3, <2>4 DEF ClientStep
<1>2. CASE CamStep
  <2>1. CASE CamSend
    BY <2>1 DEF CamSend, clientVars
  <2>2. CASE \E m \in toCam : CamRecvData(m)
    BY <2>2 DEF CamRecvData, clientVars
  <2>3. CASE \/ \E n \in camUnacked : CamResend(n)
             \/ CamRecvAck \/ CamSendAck \/ CamProbe \/ CamDisc
             \/ \E p \in Ports : CamMovePort(p)
    BY <2>3 DEF CamResend, CamRecvAck, CamSendAck, CamProbe, CamDisc, CamMovePort,
       clientVars, camVars, Quiescent
  <2>4. QED
    BY <1>2, <2>1, <2>2, <2>3 DEF CamStep
<1>3. CASE LoseToCam \/ LoseToCli \/ UNCHANGED vars
  BY <1>3 DEF LoseToCam, LoseToCli, vars, clientVars, camVars, Quiescent
<1>4. QED
  BY <1>1, <1>2, <1>3 DEF Next

LEMMA HeardInit ==
  ASSUME Init PROVE HeardOK /\ SeenOnce = <<>>
<1>1. delivered = <<>> /\ pendingData = <<>> /\ packetsWant = 0 /\ pendingDataOffset = 0
  BY DEF Init
<1>2. Len(delivered) = 0 /\ Again(delivered) = {}
  BY <1>1 DEF Again
<1>3. Heard(delivered) = 0 /\ Counts(delivered)
  BY <1>1, <1>2, FS_EmptySet DEF Heard, Counts
<1>4. HeardOK
  BY <1>1, <1>3 DEF HeardOK, First, Continues
<1>5. SeenOnce = <<>>
  BY <1>1, <1>3, SeenIs, SeenCounts
<1>6. QED
  BY <1>4, <1>5

\* A packet that completes a run only prolongs the queue.
LEMMA RecvDataHeard ==
  ASSUME NoWrap, Inv, HeardOK, NEW m, RecvData(m)
  PROVE  HeardOK' /\ Quiescent
<1>1. UNCHANGED <<sock, camNext, written, camGot>>
  BY DEF RecvData, txVars, camVars
<1>2. CASE m.body.id < packetsWant
  <2>1. UNCHANGED <<packetsWant, pendingData, pendingDataOffset, delivered>>
    BY <1>2 DEF RecvData, rxVars
  <2>2. QED
    BY <1>1, <2>1 DEF HeardOK, First, Quiescent
<1>3. CASE ~(m.body.id < packetsWant)
  <2>1. /\ packetsWant' \in packetsWant .. camNext
        /\ UNCHANGED <<pendingDataOffset, delivered>>
    BY <1>3, RecvDataStep
  <2>2. PICK run : IsRun(run, packetsWant, packetsWant') /\ pendingData' = pendingData \o run
    BY <1>3, RecvDataStep
  <2>3. /\ packetsWant \in Nat /\ packetsWant' \in Nat /\ packetsWant <= packetsWant'
        /\ pendingData \in Seq(Int) /\ Len(pendingData) \in Nat
    BY <2>1, ConstantsAssumption DEF Inv, RxOK, QueueOK
  <2>4. /\ Len(pendingData') = Len(pendingData) + (packetsWant' - packetsWant)
        /\ \A d \in Nat : Continues(pendingData, d, packetsWant)
                            => Continues(pendingData', d, packetsWant')
    BY <2>2, <2>3, QueueAppend
  <2>5. First' = First /\ First \in Int
    BY <2>3, <2>4 DEF First
  <2>6. Heard(delivered) \in Nat
    BY LastCounts DEF HeardOK
  <2>7. Heard(delivered') <= packetsWant' /\ Counts(delivered')
    BY <2>1, <2>3, <2>6 DEF HeardOK
  <2>8. sock' => /\ First' >= 0 /\ Continues(pendingData', First', packetsWant')
                 /\ First' + pendingDataOffset' \in {Heard(delivered') - 1, Heard(delivered')}
    BY <1>1, <2>1, <2>4, <2>5 DEF HeardOK
  <2>9. QED
    BY <1>1, <2>1, <2>7, <2>8 DEF HeardOK, Quiescent
<1>4. QED
  BY <1>2, <1>3

\* The chunks from the offset up to `to' are handed over.
LEMMA HandOver ==
  ASSUME Inv, HeardOK, sock, NEW to \in pendingDataOffset .. Len(pendingData),
         delivered' = delivered \o SubSeq(pendingData, pendingDataOffset + 1, to)
  PROVE  IF to = pendingDataOffset
         THEN delivered' = delivered
         ELSE Counts(delivered') /\ Heard(delivered') = First + to
<1> DEFINE off == pendingDataOffset
           tail == SubSeq(pendingData, off + 1, to)
<1>1. /\ pendingData \in Seq(Int) /\ delivered \in Seq(Int) /\ off \in 0 .. Len(pendingData)
      /\ Len(pendingData) \in Nat /\ off \in Nat /\ to \in Nat
      /\ packetsWant \in Nat
  BY ConstantsAssumption DEF Inv, QueueOK, RxOK
<1>2. /\ tail \in Seq(Int) /\ Len(tail) = to - off
      /\ \A i \in 1 .. to - off : tail[i] = pendingData[off + i]
  BY <1>1, QueueTail
<1>3. /\ Counts(delivered) /\ First \in Nat
      /\ \A i \in 1 .. Len(pendingData) : pendingData[i] = First + i - 1
      /\ First + off \in {Heard(delivered) - 1, Heard(delivered)}
  BY <1>1 DEF HeardOK, First, Continues
<1> HIDE DEF tail, off
<1>4. CASE to = off
  <2>1. tail = <<>>
    BY <1>1, <1>2, <1>4
  <2>2. delivered' = delivered \o tail
    BY DEF tail, off
  <2>3. QED
    BY <1>1, <1>4, <2>1, <2>2 DEF off
<1>5. CASE to # off
  <2>1. /\ First + off \in Nat /\ First + to \in Nat /\ First + off < First + to
        /\ (First + to) - (First + off) = to - off
    BY <1>1, <1>3, <1>5 DEF off
  <2>2. IsRun(tail, First + off, First + to)
    <3>1. ASSUME NEW i \in 1 .. to - off PROVE tail[i] = First + off + i - 1
      <4>1. off + i \in 1 .. Len(pendingData)
        BY <1>1 DEF off
      <4>2. tail[i] = First + (off + i) - 1
        BY <1>2, <1>3, <4>1
      <4>3. QED
        BY <1>1, <1>3, <4>2
    <3>2. QED
      BY <1>2, <2>1, <3>1 DEF IsRun
  <2>3. Counts(delivered \o tail) /\ Heard(delivered \o tail) = First + to
    BY <1>3, <2>1, <2>2, RunHeard
  <2>4. QED
    BY <1>5, <2>3 DEF tail, off
<1>6. QED
  BY <1>4, <1>5 DEF off

\* What a drain adds to what was heard was sent by the camera, whether it ends
\* with the queue or with a listener that throws.
LEMMA DrainHeard ==
  ASSUME Inv, HeardOK, Drain \/ \E k \in 1 .. Len(pendingData) : DrainThrow(k)
  PROVE  /\ HeardOK'
         /\ UNCHANGED <<sock, camNext, written, camGot>>
         /\ delivered' # delivered => sock /\ Heard(delivered') \in Heard(delivered) .. camNext
<1> DEFINE len == Len(pendingData)
           off == pendingDataOffset
<1>1. /\ pendingData \in Seq(Int) /\ off \in 0 .. len /\ len \in Nat /\ off \in Nat
      /\ packetsWant \in Nat /\ packetsWant \in 0 .. camNext /\ camNext \in Nat
      /\ Heard(delivered) \in Nat /\ Heard(delivered) <= packetsWant
      /\ First \in Int /\ First + len = packetsWant
  BY LastCounts, ConstantsAssumption DEF Inv, QueueOK, RxOK, HeardOK, First
<1>2. UNCHANGED <<sock, packetsWant, camNext, written, camGot>>
  BY DEF Drain, DrainThrow, txVars, camVars
<1>3. CASE Drain
  <2>1. /\ pendingData' = <<>> /\ pendingDataOffset' = 0 /\ Len(pendingData') = 0
        /\ delivered' = IF sock THEN delivered \o SubSeq(pendingData, off + 1, len) ELSE delivered
    BY <1>3 DEF Drain
  <2>2. First' = packetsWant /\ Continues(pendingData', First', packetsWant')
    BY <1>1, <1>2, <2>1 DEF First, Continues
  <2>3. CASE sock
    <3>1. len \in off .. len /\ First + off \in {Heard(delivered) - 1, Heard(delivered)}
      BY <1>1, <2>3 DEF HeardOK
    <3>2. IF len = off THEN delivered' = delivered
                       ELSE Counts(delivered') /\ Heard(delivered') = First + len
      BY <2>1, <2>3, <3>1, HandOver
    <3>3. Counts(delivered') /\ Heard(delivered') = packetsWant
      <4>1. CASE len = off
        BY <1>1, <3>1, <3>2, <4>1 DEF HeardOK
      <4>2. CASE len # off
        BY <1>1, <3>2, <4>2
      <4>3. QED
        BY <4>1, <4>2
    <3>4. HeardOK'
      BY <1>1, <1>2, <2>1, <2>2, <3>3 DEF HeardOK
    <3>5. QED
      BY <1>1, <1>2, <2>3, <3>3, <3>4
  <2>4. CASE ~sock
    BY <1>2, <2>1, <2>4 DEF HeardOK
  <2>5. QED
    BY <2>3, <2>4
<1>4. ASSUME NEW k \in 1 .. Len(pendingData), DrainThrow(k)
      PROVE  HeardOK' /\ sock /\ Heard(delivered') \in Heard(delivered) .. camNext
  <2>1. /\ sock /\ k \in off + 1 .. len
        /\ delivered' = delivered \o SubSeq(pendingData, off + 1, k)
        /\ pendingDataOffset' = k - 1 /\ pendingData' = pendingData
    BY <1>4 DEF DrainThrow
  <2>2. k \in off .. len /\ k # off /\ k \in Nat
    BY <1>1, <2>1
  <2>3. Counts(delivered') /\ Heard(delivered') = First + k
    BY <2>1, <2>2, HandOver
  <2>4. First + off \in {Heard(delivered) - 1, Heard(delivered)} /\ First >= 0
        /\ Continues(pendingData, First, packetsWant)
    BY <2>1 DEF HeardOK
  <2>5. First' = First
    BY <1>2, <2>1 DEF First
  <2>6. Heard(delivered') \in Heard(delivered) .. packetsWant
    BY <1>1, <2>1, <2>2, <2>3, <2>4
  <2>7. First + (k - 1) = Heard(delivered') - 1
    BY <1>1, <2>2, <2>3
  <2>8. HeardOK'
    BY <1>1, <1>2, <2>1, <2>3, <2>4, <2>5, <2>6, <2>7 DEF HeardOK
  <2>9. QED
    BY <1>1, <2>1, <2>6, <2>8
<1>5. QED
  BY <1>2, <1>3, <1>4

-----------------------------------------------------------------------------
(* Every step is a step of the channels, or a stutter.                     *)

LEMMA StepHeard ==
  ASSUME NoWrap, Inv, HeardOK, [Next]_vars PROVE HeardOK'
<1>1. CASE QueueKept /\ delivered' = delivered /\ (sock' => sock)
  <2>1. First' = First
    BY <1>1 DEF QueueKept, First
  <2>2. Counts(delivered') /\ Heard(delivered') <= packetsWant'
    BY <1>1 DEF QueueKept, HeardOK
  <2>3. sock' => /\ First' >= 0 /\ Continues(pendingData', First', packetsWant')
                 /\ First' + pendingDataOffset' \in {Heard(delivered') - 1, Heard(delivered')}
    BY <1>1, <2>1 DEF QueueKept, HeardOK
  <2>4. QED
    BY <2>2, <2>3 DEF HeardOK
<1>2. CASE \E m \in toCli : RecvData(m)
  BY <1>2, RecvDataHeard
<1>3. CASE Drain \/ \E k \in 1 .. Len(pendingData) : DrainThrow(k)
  BY <1>3, DrainHeard
<1>4. QED
  BY <1>1, <1>2, <1>3, StepShapes DEF Quiescent

LEMMA StepRefines ==
  ASSUME NoWrap, Inv, Inv', HeardOK, HeardOK', [Next]_vars
  PROVE  [Channel!Next]_(Channel!channelVars)
<1> USE DEF Channel!Next, Channel!channelVars
<1>1. ASSUME delivered' = delivered PROVE SeenOnce' = SeenOnce
  BY <1>1 DEF SeenOnce, Repeats
<1>2. camGot' = camGot => CamInOrder(camGot)' = CamInOrder(camGot)
  BY DEF CamInOrder
<1>3. CASE Quiescent
  BY <1>1, <1>2, <1>3 DEF Quiescent
<1>4. CASE sock /\ sock' = FALSE /\ UNCHANGED <<camNext, delivered, written, camGot>>
  BY <1>1, <1>2, <1>4 DEF Channel!Close
<1>5. CASE /\ sock /\ \E k \in 1 .. MaxFragments : written' = written + k
           /\ UNCHANGED <<sock, camNext, delivered, camGot>>
  <2>1. written' > written /\ written' \in Nat
    BY <1>5, ConstantsAssumption DEF Inv, TxOK
  <2>2. QED
    BY <1>1, <1>2, <1>5, <2>1 DEF Channel!Write
<1>6. CASE camNext' = camNext + 1 /\ UNCHANGED <<sock, delivered, written, camGot>>
  BY <1>1, <1>2, <1>6 DEF Channel!Offer
<1>7. CASE camGot \subseteq camGot' /\ UNCHANGED <<sock, camNext, delivered, written>>
  <2>1. written \in 0 .. MaxTx /\ camGot \in SUBSET (0 .. written - 1)
    BY DEF Inv, TxOK
  <2>2. camGot' \in SUBSET (0 .. written - 1)
    BY <1>7 DEF Inv, TxOK
  <2>3. \/ CamInOrder(camGot') = CamInOrder(camGot)
        \/ CamInOrder(camGot') \in CamInOrder(camGot) + 1 .. written
    BY <1>7, <2>1, <2>2, CamInOrderGrows
  <2>4. CamInOrder(camGot)' = CamInOrder(camGot')
    BY DEF CamInOrder
  <2>5. QED
    BY <1>1, <1>7, <2>3, <2>4 DEF Channel!Arrive
<1>8. CASE Drain \/ \E k \in 1 .. Len(pendingData) : DrainThrow(k)
  <2>1. /\ UNCHANGED <<sock, camNext, written, camGot>>
        /\ delivered' # delivered => sock /\ Heard(delivered') \in Heard(delivered) .. camNext
    BY <1>8, DrainHeard
  <2>2. SeenOnce = [i \in 1 .. Heard(delivered) |-> i - 1] /\ Heard(delivered) \in Nat
    BY SeenIs, SeenCounts, LastCounts DEF HeardOK
  <2>3. SeenOnce' = [i \in 1 .. Heard(delivered') |-> i - 1]
    BY SeenIs, SeenCounts DEF HeardOK
  <2>4. CASE Heard(delivered') = Heard(delivered)
    BY <1>2, <2>1, <2>2, <2>3, <2>4
  <2>5. CASE Heard(delivered') # Heard(delivered)
    <3>1. sock /\ Heard(delivered') \in Heard(delivered) + 1 .. camNext
      BY <2>1, <2>2, <2>5 DEF Inv, RxOK
    <3>2. Len(SeenOnce) = Heard(delivered)
      BY <2>2
    <3>3. QED
      BY <1>2, <2>1, <2>3, <3>1, <3>2 DEF Channel!Deliver
  <2>6. QED
    BY <2>4, <2>5
<1>9. CASE \E m \in toCli : RecvData(m)
  BY <1>3, <1>9, RecvDataHeard
<1>10. QED
  BY <1>3, <1>4, <1>5, <1>6, <1>7, <1>8, <1>9, StepShapes

LEMMA InitRefines ==
  ASSUME Init PROVE Channel!Init
<1>1. CamInOrder(camGot) = 0
  <2>1. camGot = {} /\ camGot \in SUBSET (0 .. MaxTx - 1)
    BY DEF Init
  <2>2. 0 .. CamInOrder(camGot) - 1 = {} /\ CamInOrder(camGot) \in 0 .. MaxTx
    BY <2>1, CamInOrderProperties
  <2>3. CamInOrder(camGot) > 0 => 0 \in 0 .. CamInOrder(camGot) - 1
    BY <2>2, ConstantsAssumption
  <2>4. QED
    BY <2>2, <2>3, ConstantsAssumption
<1>2. QED
  BY <1>1, HeardInit DEF Init, Channel!Init

-----------------------------------------------------------------------------
\* The stream implements two FIFO channels and a connection that closes once,
\* over any network and with a listener that throws at any chunks, in a session
\* that does not wrap: who throws on a chunk sees that chunk again, and no other
\* chunk is lost, repeated or swapped.
THEOREM Implementation ==
  ASSUME NoWrap PROVE Spec => ImplementsChannel
<1>1. Init => Channel!Init /\ HeardOK
  BY InitRefines, HeardInit
<1>2. Inv /\ HeardOK /\ [Next]_vars => HeardOK'
  BY StepHeard
<1>3. Inv /\ Inv' /\ HeardOK /\ HeardOK' /\ [Next]_vars => [Channel!Next]_(Channel!channelVars)
  BY StepRefines
<1>4. Spec => []Inv
  BY Invariance
<1>5. QED
  BY <1>1, <1>2, <1>3, <1>4, PTL DEF Spec, ImplementsChannel, Channel!Spec
=============================================================================
