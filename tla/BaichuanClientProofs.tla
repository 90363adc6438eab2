------------------------ MODULE BaichuanClientProofs ------------------------
(***************************************************************************)
(* The login state of a client and what its calls wait for, for every      *)
(* number of callers and of login attempts.                                *)
(***************************************************************************)
EXTENDS BaichuanClient, FiniteSetTheorems, TLAPS

-----------------------------------------------------------------------------
(* The inductive invariant.                                                *)

CallRecord ==
  [at : Places, kind : {"request", "login", "logout", "ghost"},
   via : {"none", "tcp", "udp"}, left : 0 .. LoginAttempts]

ConnTyped ==
  /\ mode \in {"tcp", "udp", "auto"} /\ mode \in Modes
  /\ tcp \in {"none", "connecting", "open", "dead"}
  /\ udp \in {"none", "opening", "open"}
  /\ transport \in {"tcp", "udp"}
  /\ loggedIn \in BOOLEAN /\ session \in {"none", "tcp", "udp"}
  /\ call \in [Calls -> CallRecord]

UseTyped ==
  /\ pinging \in BOOLEAN /\ failures \in 0 .. MaxPingFailures
  /\ timer \in {"off", "armed", "early"} /\ unkicked \in BOOLEAN
  /\ active \in BOOLEAN /\ permit \in BOOLEAN /\ subs \in BOOLEAN
  /\ sibling \in BOOLEAN /\ registered \in BOOLEAN

\* The socket of a client with one transport is there.
There == IF mode = "tcp" THEN TcpThere ELSE udp = "open"

\* A call waits for what is under way, and has the socket it goes on with.
Awaits(r) ==
  /\ r.at = "tcpWait" => tcp = "connecting" /\ mode # "udp"
  /\ r.at = "udpWait" => udp = "opening" /\ mode # "tcp"
  /\ r.at = "udpStart" => mode # "tcp"
  /\ r.at = "hung" => mode # "tcp" /\ r.kind # "ghost"
  /\ r.at = "ready" /\ mode # "auto" => There
  /\ r.at = "pending" /\ mode # "auto" => There /\ r.via = mode

\* Continuations after a success and after a failure do not meet: the close()
\* of a failed login finds nobody about to use the socket.
CallsOK ==
  /\ \A c \in Calls : Awaits(call[c])
  /\ \A c, d \in Calls : call[c].at = "udpWait" /\ call[d].at = "udpWait" => c = d
  /\ \A c, d \in Calls : call[c].at = "ready" => call[d].at # "failed"

OneTransport ==
  /\ mode # "auto" => transport = mode
  /\ mode = "tcp" => udp = "none"
  /\ mode = "udp" => tcp = "none"

Truth == loggedIn /\ mode # "auto" => session = mode /\ There

Core == ConnTyped /\ CallsOK /\ OneTransport /\ Truth
Inv == Core /\ UseTyped

LEMMA InvTyped == Inv => TypeOK
BY DEF Inv, Core, ConnTyped, UseTyped, CallRecord, TypeOK

LEMMA InvTruth == Inv => LoginTruth
BY DEF Inv, Core, ConnTyped, Truth, OneTransport, There, TcpThere, LoginTruth, Connected

LEMMA InvWaits == Inv => WaitsForSomething
<1> SUFFICES ASSUME Inv PROVE WaitsForSomething
  OBVIOUS
<1>1. \A c \in Calls :
        /\ call[c].at = "tcpWait" => tcp = "connecting"
        /\ call[c].at = "udpWait" => udp = "opening"
        /\ call[c].at = "hung" => mode # "tcp" /\ call[c].kind # "ghost"
        /\ call[c].at = "pending" /\ mode # "auto" =>
             (IF call[c].via = "tcp" THEN TcpThere ELSE udp = "open")
  BY DEF Inv, Core, CallsOK, Awaits, There
<1>2. Cardinality(Waits("udpWait")) <= 1
  <2> DEFINE S == Waits("udpWait")
  <2>1. S = {} \/ \E c \in Calls : S = {c}
    BY DEF Waits, Inv, Core, CallsOK
  <2>2. Cardinality(S) \in {0, 1}
    <3> HIDE DEF S
    <3>1. QED
      BY <2>1, FS_EmptySet, FS_Singleton
  <2>3. QED
    BY <2>2
<1>3. QED
  BY <1>1, <1>2 DEF WaitsForSomething

LEMMA InitInv == Init => Inv
<1> SUFFICES ASSUME Init PROVE Inv
  OBVIOUS
<1>1. Idle \in CallRecord
  BY ClientAssumption DEF Idle, CallRecord, Places
<1>2. call = [c \in Calls |-> Idle] /\ \A c \in Calls : call[c].at = "idle"
  BY DEF Init, Idle
<1>3. ConnTyped
  BY <1>1, <1>2, ClientAssumption DEF Init, ConnTyped
<1>4. CallsOK
  BY <1>2 DEF CallsOK, Awaits
<1>5. OneTransport /\ Truth
  BY <1>3 DEF Init, OneTransport, Truth, ConnTyped
<1>6. UseTyped
  <2>1. /\ pinging = FALSE /\ failures = 0 /\ timer = "off" /\ unkicked = FALSE
        /\ active = FALSE /\ permit = FALSE /\ subs = FALSE /\ sibling = FALSE
        /\ registered = TRUE
    BY DEF Init
  <2>2. failures \in 0 .. MaxPingFailures
    BY <2>1 DEF MaxPingFailures
  <2>3. QED
    BY <2>1, <2>2 DEF UseTyped
<1>7. QED
  BY <1>3, <1>4, <1>5, <1>6 DEF Inv, Core

-----------------------------------------------------------------------------
(* What becomes of the calls.                                              *)

Ended(r) == r.at \in {"failed", "idle", "backoff"}
Hung(r) == r.at = "hung" /\ r.kind # "ghost" /\ mode # "tcp"

LEMMA FailedFate ==
  ASSUME ConnTyped, NEW c \in Calls
  PROVE  Failed(c) \in CallRecord /\ Failed(c).at \in {"failed", "idle"}
<1>1. call[c] \in CallRecord /\ Idle \in CallRecord /\ Idle.at = "idle"
  BY ClientAssumption DEF ConnTyped, Idle, CallRecord, Places
<1>2. [call[c] EXCEPT !.at = "failed"] \in CallRecord
  BY <1>1 DEF CallRecord, Places
<1>3. [call[c] EXCEPT !.at = "failed"].at = "failed"
  BY <1>1 DEF CallRecord
<1>4. QED
  BY <1>1, <1>2, <1>3 DEF Failed

LEMMA RejectedFate ==
  ASSUME ConnTyped, NEW c \in Calls
  PROVE  /\ Rejected(c) \in CallRecord
         /\ \/ Rejected(c) = call[c] /\ call[c].at # "pending"
            \/ Ended(Rejected(c))
BY FailedFate DEF Rejected, Ended, ConnTyped

LEMMA AbandonedFate ==
  ASSUME ConnTyped, CallsOK, NEW c \in Calls
  PROVE  /\ Abandoned(c) \in CallRecord
         /\ \/ Abandoned(c) = call[c] /\ call[c].at \notin {"pending", "udpWait"}
            \/ Ended(Abandoned(c))
            \/ Hung(Abandoned(c))
<1>1. CASE call[c].at # "udpWait"
  BY <1>1, RejectedFate DEF Abandoned
<1>2. CASE call[c].at = "udpWait"
  <2>1. call[c] \in CallRecord /\ mode # "tcp"
    BY <1>2 DEF ConnTyped, CallsOK, Awaits
  <2>2. Idle \in CallRecord /\ Ended(Idle)
    BY ClientAssumption DEF Idle, CallRecord, Places, Ended
  <2>3. [call[c] EXCEPT !.at = "hung"] \in CallRecord
    BY <2>1 DEF CallRecord, Places
  <2>4. call[c].kind # "ghost" => Hung([call[c] EXCEPT !.at = "hung"])
    BY <2>1 DEF CallRecord, Hung
  <2>5. QED
    BY <1>2, <2>2, <2>3, <2>4 DEF Abandoned
<1>3. QED
  BY <1>1, <1>2

LEMMA TcpRefusedFate ==
  ASSUME ConnTyped, NEW c \in Calls
  PROVE  /\ TcpRefused(c) \in CallRecord
         /\ \/ TcpRefused(c) = call[c] /\ call[c].at \notin {"pending", "tcpWait"}
            \/ Ended(TcpRefused(c))
            \/ TcpRefused(c).at = "udpStart" /\ mode = "auto"
<1>1. CASE call[c].at # "tcpWait"
  BY <1>1, RejectedFate DEF TcpRefused
<1>2. CASE call[c].at = "tcpWait" /\ mode # "auto"
  BY <1>2, FailedFate DEF TcpRefused, Ended
<1>3. CASE call[c].at = "tcpWait" /\ mode = "auto"
  <2>1. call[c] \in CallRecord
    BY DEF ConnTyped
  <2>2. /\ [call[c] EXCEPT !.at = "udpStart"] \in CallRecord
        /\ [call[c] EXCEPT !.at = "udpStart"].at = "udpStart"
    BY <2>1 DEF CallRecord, Places
  <2>3. QED
    BY <1>3, <2>2 DEF TcpRefused
<1>4. QED
  BY <1>1, <1>2, <1>3

LEMMA UnreachableFate ==
  ASSUME ConnTyped, NEW c \in Calls
  PROVE  /\ Unreachable(c) \in CallRecord
         /\ \/ Unreachable(c) = call[c] /\ call[c].at \notin {"pending", "tcpWait"}
            \/ Ended(Unreachable(c))
            \/ Unreachable(c).at = "udpStart" /\ mode = "auto"
<1>1. CASE call[c].at = "tcpWait" /\ mode # "auto"
  <2> DEFINE r == [Failed(c) EXCEPT !.left = 0]
  <2>1. r \in CallRecord /\ r.at = Failed(c).at
    BY FailedFate, ClientAssumption DEF CallRecord
  <2>2. QED
    BY <1>1, <2>1, FailedFate DEF Unreachable, Ended
<1>2. CASE ~(call[c].at = "tcpWait" /\ mode # "auto")
  BY <1>2, TcpRefusedFate DEF Unreachable
<1>3. QED
  BY <1>1, <1>2

\* What the 'close' handler of the TCP socket may make of the calls.
TcpOver == TcpGone(AllRefused) \/ TcpGone(AllUnreachable)

LEMMA ClosedFate ==
  ASSUME ConnTyped, CallsOK, NEW c \in Calls
  PROVE  /\ Closed(c) \in CallRecord
         /\ \/ Closed(c) = call[c] /\ call[c].at \notin {"pending", "tcpWait", "udpWait"}
            \/ Ended(Closed(c))
            \/ Hung(Closed(c))
            \/ Closed(c).at = "udpStart" /\ mode = "auto"
<1>1. CASE call[c].at = "tcpWait"
  BY <1>1, TcpRefusedFate DEF Closed
<1>2. CASE call[c].at # "tcpWait"
  BY <1>2, AbandonedFate DEF Closed
<1>3. QED
  BY <1>1, <1>2

-----------------------------------------------------------------------------
(* Steps that change the calls.                                            *)

\* One call goes on, on the same sockets.
LEMMA OneCall ==
  ASSUME ConnTyped, CallsOK, NEW c \in Calls, NEW r \in CallRecord,
         call' = [call EXCEPT ![c] = r], UNCHANGED <<mode, tcp, udp>>,
         Awaits(r), r.at = "udpWait" => call[c].at = "udpWait",
         r.at = "ready" => \A d \in Calls : call[d].at # "failed",
         r.at = "failed" => \A d \in Calls : call[d].at # "ready"
  PROVE  call' \in [Calls -> CallRecord] /\ CallsOK'
<1>1. call' \in [Calls -> CallRecord]
  BY DEF ConnTyped
<1>2. call'[c] = r /\ \A d \in Calls \ {c} : call'[d] = call[d]
  BY DEF ConnTyped
<1>3. \A d \in Calls : Awaits(call[d])' <=> Awaits(call'[d])
  BY DEF Awaits, There, TcpThere
<1>4. \A d \in Calls : Awaits(call'[d])
  BY <1>2 DEF CallsOK
<1>5. \A d, e \in Calls : call'[d].at = "udpWait" /\ call'[e].at = "udpWait" => d = e
  BY <1>2 DEF CallsOK
<1>6. \A d, e \in Calls : call'[d].at = "ready" => call'[e].at # "failed"
  BY <1>2 DEF CallsOK
<1>7. QED
  BY <1>1, <1>3, <1>4, <1>5, <1>6 DEF CallsOK

\* Something is over while nobody is about to use a socket.
LEMMA Settled ==
  ASSUME ConnTyped, CallsOK, \A d \in Calls : call[d].at # "ready", mode' = mode,
         call' \in [Calls -> CallRecord],
         \A d \in Calls :
           \/ /\ call'[d] = call[d] /\ call[d].at # "pending"
              /\ call[d].at = "tcpWait" => tcp' = tcp
              /\ call[d].at = "udpWait" => udp' = udp
           \/ Ended(call'[d]) \/ Hung(call'[d])
           \/ call'[d].at = "udpStart" /\ mode = "auto"
  PROVE  CallsOK'
<1>1. ASSUME NEW d \in Calls PROVE Awaits(call[d])'
  <2>1. CASE /\ call'[d] = call[d] /\ call[d].at \notin {"pending", "ready"}
             /\ call[d].at = "tcpWait" => tcp' = tcp
             /\ call[d].at = "udpWait" => udp' = udp
    BY <2>1 DEF CallsOK, Awaits
  <2>2. CASE Ended(call'[d]) \/ Hung(call'[d])
    BY <2>2 DEF Ended, Hung, Awaits
  <2>3. CASE call'[d].at = "udpStart" /\ mode = "auto"
    BY <2>3 DEF Awaits
  <2>4. QED
    BY <2>1, <2>2, <2>3
<1>2. \A d \in Calls : call'[d].at = "udpWait" => call[d].at = "udpWait"
  BY DEF Ended, Hung
<1>3. \A d \in Calls : call'[d].at # "ready"
  BY DEF Ended, Hung
<1>4. QED
  BY <1>1, <1>2, <1>3 DEF CallsOK

LEMMA NotReady == Quiet => \A c \in Calls : call[c].at \notin {"ready", "failed"}
BY DEF Quiet, Waits

LEMMA TcpGoneCore == Core /\ Quiet /\ TcpOver => Core'
<1> SUFFICES ASSUME Core, Quiet, TcpOver PROVE Core'
  OBVIOUS
<1>1. /\ tcp' = "none" /\ loggedIn' = FALSE /\ session' = SessionWithout("tcp")
      /\ call' \in {AllRefused, AllUnreachable} /\ UNCHANGED <<mode, udp, transport>>
  BY DEF TcpOver, TcpGone, LoggedOut
<1>2. call' \in [Calls -> CallRecord]
  BY <1>1, TcpRefusedFate, UnreachableFate DEF Core, AllRefused, AllUnreachable
<1>3. ConnTyped'
  BY <1>1, <1>2 DEF Core, ConnTyped, SessionWithout
<1>4. CallsOK'
  <2>1. \A d \in Calls :
           \/ call'[d] = call[d] /\ call[d].at \notin {"pending", "tcpWait"}
           \/ Ended(call'[d]) \/ Hung(call'[d])
           \/ call'[d].at = "udpStart" /\ mode = "auto"
    BY <1>1, TcpRefusedFate, UnreachableFate DEF Core, AllRefused, AllUnreachable
  <2>2. QED
    BY <1>1, <1>2, <2>1, NotReady, Settled DEF Core
<1>5. OneTransport' /\ Truth'
  BY <1>1 DEF Core, OneTransport, Truth
<1>6. QED
  BY <1>3, <1>4, <1>5 DEF Core

LEMMA UdpGoneCore == Core /\ Quiet /\ UdpGone => Core'
<1> SUFFICES ASSUME Core, Quiet, UdpGone PROVE Core'
  OBVIOUS
<1>1. /\ udp' = "none" /\ loggedIn' = FALSE /\ session' = SessionWithout("udp")
      /\ call' = [c \in Calls |-> Abandoned(c)] /\ UNCHANGED <<mode, tcp, transport>>
  BY DEF UdpGone, LoggedOut
<1>2. call' \in [Calls -> CallRecord]
  BY <1>1, AbandonedFate DEF Core
<1>3. ConnTyped'
  BY <1>1, <1>2 DEF Core, ConnTyped, SessionWithout
<1>4. CallsOK'
  <2>1. \A d \in Calls :
           \/ call'[d] = call[d] /\ call[d].at \notin {"pending", "udpWait"}
           \/ Ended(call'[d]) \/ Hung(call'[d])
    BY <1>1, AbandonedFate DEF Core
  <2>2. QED
    BY <1>1, <1>2, <2>1, NotReady, Settled DEF Core
<1>5. OneTransport' /\ Truth'
  BY <1>1 DEF Core, OneTransport, Truth
<1>6. QED
  BY <1>3, <1>4, <1>5 DEF Core

\* close(), with what becomes of each call.
LEMMA TeardownCore ==
  ASSUME Core, \A d \in Calls : call[d].at # "ready",
         NEW calls \in [Calls -> CallRecord], Teardown(calls),
         \A d \in Calls : calls[d] = Closed(d) \/ Ended(calls[d])
  PROVE  Core'
<1>1. /\ tcp' = "none" /\ udp' = "none" /\ loggedIn' = FALSE /\ session' = "none"
      /\ call' = calls /\ UNCHANGED <<mode, transport>>
  BY DEF Teardown, LoggedOut
<1>2. call' \in [Calls -> CallRecord]
  BY <1>1
<1>3. ConnTyped'
  BY <1>1, <1>2 DEF Core, ConnTyped
<1>4. CallsOK'
  <2>1. \A d \in Calls :
           \/ call'[d] = call[d] /\ call[d].at \notin {"pending", "tcpWait", "udpWait"}
           \/ Ended(call'[d]) \/ Hung(call'[d])
           \/ call'[d].at = "udpStart" /\ mode = "auto"
    BY <1>1, ClosedFate DEF Core
  <2>2. QED
    BY <1>1, <1>2, <2>1, Settled DEF Core
<1>5. OneTransport' /\ Truth'
  BY <1>1 DEF Core, OneTransport, Truth
<1>6. QED
  BY <1>3, <1>4, <1>5 DEF Core

LEMMA ClosedCore ==
  ASSUME Core, Quiet, Teardown([c \in Calls |-> Closed(c)]) PROVE Core'
<1> DEFINE calls == [c \in Calls |-> Closed(c)]
<1>1. calls \in [Calls -> CallRecord]
  BY ClosedFate DEF Core
<1>2. \A d \in Calls : calls[d] = Closed(d)
  OBVIOUS
<1>3. Teardown(calls) /\ \A d \in Calls : call[d].at # "ready"
  BY NotReady
<1> HIDE DEF calls
<1>4. QED
  BY <1>1, <1>2, <1>3, TeardownCore

-----------------------------------------------------------------------------
(* connect().                                                              *)

Started ==
  [at : Places \cup {"start"}, kind : {"request", "login", "logout", "ghost"},
   via : {"none", "tcp", "udp"}, left : 0 .. LoginAttempts]

LEMMA IdleRecord == Idle \in CallRecord /\ Idle.at = "idle"
BY ClientAssumption DEF Idle, CallRecord, Places

LEMMA GoesTo ==
  ASSUME NEW it \in Started, NEW place \in Places
  PROVE  /\ [it EXCEPT !.at = place] \in CallRecord
         /\ [it EXCEPT !.at = place].at = place
         /\ [it EXCEPT !.at = place].kind = it.kind
BY DEF Started, CallRecord

LEMMA ConnectCore ==
  ASSUME Core, Quiet, NEW c \in Calls, NEW it \in Started, Connect(c, it), mode' = mode
  PROVE  Core'
<1>1. \A d \in Calls : call[d].at \notin {"ready", "failed"}
  BY NotReady
<1>2. CASE mode = "udp"
  <2> DEFINE r == [it EXCEPT !.at = "udpStart"]
  <2>1. r \in CallRecord /\ r.at = "udpStart"
    BY GoesTo DEF Places
  <2>2. call' = [call EXCEPT ![c] = r] /\ UNCHANGED <<tcp, udp, transport, loggedIn, session>>
    BY <1>2 DEF Connect, conn, login
  <2> HIDE DEF r
  <2>3. Awaits(r)
    BY <1>2, <2>1 DEF Awaits
  <2>4. call' \in [Calls -> CallRecord] /\ CallsOK'
    BY <2>1, <2>2, <2>3, OneCall DEF Core
  <2>5. QED
    BY <2>2, <2>4 DEF Core, ConnTyped, OneTransport, Truth, There, TcpThere
<1>3. CASE mode # "udp" /\ tcp = "connecting"
  <2> DEFINE r == [it EXCEPT !.at = "tcpWait"]
  <2>1. r \in CallRecord /\ r.at = "tcpWait"
    BY GoesTo DEF Places
  <2>2. call' = [call EXCEPT ![c] = r] /\ UNCHANGED <<tcp, udp, transport, loggedIn, session>>
    BY <1>3 DEF Connect, ConnectTcp, login
  <2> HIDE DEF r
  <2>3. Awaits(r)
    BY <1>3, <2>1 DEF Awaits
  <2>4. call' \in [Calls -> CallRecord] /\ CallsOK'
    BY <2>1, <2>2, <2>3, OneCall DEF Core
  <2>5. QED
    BY <2>2, <2>4 DEF Core, ConnTyped, OneTransport, Truth, There, TcpThere
<1>4. CASE mode # "udp" /\ TcpThere
  <2> DEFINE r == [it EXCEPT !.at = "ready"]
  <2>1. r \in CallRecord /\ r.at = "ready"
    BY GoesTo DEF Places
  <2>2. /\ call' = [call EXCEPT ![c] = r] /\ transport' = "tcp"
        /\ UNCHANGED <<tcp, udp, loggedIn, session>>
    BY <1>4 DEF Connect, ConnectTcp, TcpThere, login
  <2> HIDE DEF r
  <2>3. Awaits(r)
    BY <1>4, <2>1 DEF Awaits, There, Core, ConnTyped
  <2>4. call' \in [Calls -> CallRecord] /\ CallsOK'
    BY <1>1, <2>1, <2>2, <2>3, OneCall DEF Core
  <2>5. QED
    BY <1>4, <2>2, <2>4 DEF Core, ConnTyped, OneTransport, Truth, There, TcpThere
<1>5. CASE mode # "udp" /\ tcp = "none"
  <2> DEFINE r == [it EXCEPT !.at = "tcpWait"]
  <2>1. r \in CallRecord /\ r.at = "tcpWait"
    BY GoesTo DEF Places
  <2>2. /\ call' = [call EXCEPT ![c] = r] /\ transport' = "tcp" /\ tcp' = "connecting"
        /\ UNCHANGED <<udp, loggedIn, session>>
    BY <1>5 DEF Connect, ConnectTcp, TcpThere, login
  <2> HIDE DEF r
  <2>3. call' \in [Calls -> CallRecord]
    BY <2>1, <2>2 DEF Core, ConnTyped
  <2>4. call'[c] = r /\ \A d \in Calls \ {c} : call'[d] = call[d]
    BY <2>2 DEF Core, ConnTyped
  <2>5. mode # "auto" => ~There /\ ~There'
    BY <1>5, <2>2 DEF There, TcpThere, Core, ConnTyped
  <2>6. \A d \in Calls : Awaits(call[d])'
    <3>1. ASSUME NEW d \in Calls \ {c} PROVE Awaits(call[d])'
      BY <1>1, <2>2, <2>4, <2>5 DEF Awaits, Core, CallsOK
    <3>2. Awaits(call[c])'
      BY <1>5, <2>1, <2>2, <2>4 DEF Awaits
    <3>3. QED
      BY <3>1, <3>2
  <2>7. CallsOK'
    <3>1. \A d, e \in Calls : call'[d].at = "udpWait" /\ call'[e].at = "udpWait" => d = e
      BY <2>1, <2>4 DEF Core, CallsOK
    <3>2. \A d \in Calls : call'[d].at # "ready"
      BY <1>1, <2>1, <2>4
    <3>3. QED
      BY <2>6, <3>1, <3>2 DEF CallsOK
  <2>8. QED
    BY <1>5, <2>2, <2>3, <2>5, <2>7 DEF Core, ConnTyped, OneTransport, Truth
<1>6. QED
  BY <1>2, <1>3, <1>4, <1>5 DEF Core, ConnTyped, TcpThere

LEMMA ConnectUdpCore ==
  ASSUME Core, NEW c \in Calls, ConnectUdp(c) PROVE Core'
<1>1. /\ \A d \in Calls : call[d].at \notin {"ready", "failed"}
      /\ call[c].at = "udpStart" /\ mode # "tcp" /\ call[c] \in Started
      /\ transport' = "udp" /\ UNCHANGED <<mode, tcp>>
  BY NotReady DEF ConnectUdp, Core, CallsOK, Awaits, ConnTyped, CallRecord, Started
<1>2. CASE udp = "open"
  <2> DEFINE r == IF call[c].kind = "ghost" THEN Idle ELSE [call[c] EXCEPT !.at = "ready"]
  <2>1. r \in CallRecord /\ r.at \in {"idle", "ready"}
    BY <1>1, GoesTo, IdleRecord DEF Places
  <2>2. /\ call' = [call EXCEPT ![c] = r] /\ UNCHANGED <<udp, loggedIn, session>>
    BY <1>2 DEF ConnectUdp, login, Core, ConnTyped
  <2> HIDE DEF r
  <2>3. Awaits(r)
    BY <1>1, <1>2, <2>1 DEF Awaits, There
  <2>4. call' \in [Calls -> CallRecord] /\ CallsOK'
    BY <1>1, <2>1, <2>2, <2>3, OneCall DEF Core
  <2>5. QED
    BY <1>1, <2>2, <2>4 DEF Core, ConnTyped, OneTransport, Truth, There, TcpThere
<1>3. CASE udp # "open"
  <2> DEFINE r == [call[c] EXCEPT !.at = "udpWait"]
  <2>1. r \in CallRecord /\ r.at = "udpWait"
    BY <1>1, GoesTo DEF Places
  <2>2. r = [call[c] EXCEPT !.at = "udpWait"]
    OBVIOUS
  <2> HIDE DEF r
  <2>3. /\ udp' = "opening" /\ call' \in [Calls -> CallRecord] /\ call'[c] = r
        /\ \A d \in Calls \ {c} :
             \/ /\ call'[d] = call[d] /\ call[d].at # "udpWait"
                /\ call[d].at = "pending" => udp = "none"
             \/ Ended(call'[d]) \/ Hung(call'[d])
        /\ \/ loggedIn' = FALSE
           \/ loggedIn' = loggedIn /\ udp = "none"
        /\ session' \in {session, "none"}
    <3>1. CASE udp = "none"
      <4>1. /\ udp' = "opening" /\ call' = [call EXCEPT ![c] = r]
            /\ UNCHANGED <<loggedIn, session>>
        BY <2>2, <3>1 DEF ConnectUdp, login, Core, ConnTyped
      <4>2. \A d \in Calls : call[d].at # "udpWait"
        BY <3>1 DEF Core, CallsOK, Awaits
      <4>3. QED
        BY <2>1, <3>1, <4>1, <4>2 DEF Core, ConnTyped
    <3>2. CASE udp # "none"
      <4>1. /\ udp' = "opening"
            /\ call' = [d \in Calls |-> IF d = c THEN r ELSE Abandoned(d)]
            /\ loggedIn' = FALSE /\ session' = SessionWithout("udp")
        BY <2>2, <1>3, <3>2 DEF ConnectUdp, LoggedOut
      <4>2. call' \in [Calls -> CallRecord]
        BY <2>1, <4>1, AbandonedFate DEF Core
      <4>3. \A d \in Calls \ {c} :
             \/ call'[d] = call[d] /\ call[d].at \notin {"pending", "udpWait"}
             \/ Ended(call'[d]) \/ Hung(call'[d])
        BY <4>1, AbandonedFate DEF Core
      <4>4. QED
        BY <4>1, <4>2, <4>3 DEF SessionWithout
    <3>3. QED
      BY <3>1, <3>2
  <2>4. ASSUME NEW d \in Calls PROVE Awaits(call[d])'
    <3>1. CASE d = c
      BY <1>1, <2>1, <2>3, <3>1 DEF Awaits
    <3>2. CASE d # c /\ (Ended(call'[d]) \/ Hung(call'[d]))
      BY <1>1, <3>2 DEF Ended, Hung, Awaits
    <3>3. CASE /\ d # c /\ call'[d] = call[d] /\ call[d].at \notin {"udpWait", "ready"}
               /\ call[d].at = "pending" => udp = "none"
      <4>1. call[d].at = "pending" => mode = "auto"
        BY <1>1, <3>3 DEF Core, ConnTyped, CallsOK, Awaits, There
      <4>2. QED
        BY <1>1, <3>3, <4>1 DEF Core, CallsOK, Awaits
    <3>4. QED
      BY <1>1, <2>3, <3>1, <3>2, <3>3
  <2>5. /\ \A d \in Calls \ {c} : call'[d].at # "udpWait"
        /\ \A d \in Calls : call'[d].at # "ready"
    BY <1>1, <2>1, <2>3 DEF Ended, Hung
  <2>6. CallsOK'
    BY <2>4, <2>5 DEF CallsOK
  <2>7. ConnTyped' /\ OneTransport'
    BY <1>1, <2>3 DEF Core, ConnTyped, OneTransport
  <2>8. Truth'
    BY <1>1, <2>3 DEF Core, ConnTyped, Truth, There
  <2>9. QED
    BY <2>6, <2>7, <2>8 DEF Core
<1>4. QED
  BY <1>2, <1>3

\* An attempt has its socket.
LEMMA ConnectsCore ==
  ASSUME Core, TcpConnects \/ UdpConnects \/ PeerVanishes PROVE Core'
<1>1. /\ \A d \in Calls : call[d].at \notin {"ready", "failed"}
      /\ UNCHANGED <<mode, transport, loggedIn, session>>
  BY NotReady DEF TcpConnects, UdpConnects, PeerVanishes, login, conn
<1>2. CASE PeerVanishes
  <2>1. tcp = "open" /\ tcp' = "dead" /\ UNCHANGED <<udp, call>>
    BY <1>2 DEF PeerVanishes
  <2>2. There' <=> There
    BY <1>1, <2>1 DEF There, TcpThere
  <2>3. \A d \in Calls : Awaits(call[d])'
    BY <1>1, <2>1, <2>2 DEF Core, CallsOK, Awaits
  <2>4. CallsOK'
    BY <2>1, <2>3 DEF Core, CallsOK
  <2>5. QED
    BY <1>1, <2>1, <2>2, <2>4 DEF Core, ConnTyped, OneTransport, Truth
<1>3. ASSUME NEW place \in {"tcpWait", "udpWait"},
             call' = [c \in Calls |-> IF call[c].at # place THEN call[c]
                                      ELSE IF call[c].kind = "ghost" THEN Idle
                                      ELSE [call[c] EXCEPT !.at = "ready"]]
      PROVE  /\ call' \in [Calls -> CallRecord]
             /\ \A d \in Calls : \/ call'[d] = call[d] /\ call[d].at # place
                                 \/ call'[d].at \in {"idle", "ready"}
  <2>1. \A d \in Calls : /\ call[d] \in CallRecord
                         /\ [call[d] EXCEPT !.at = "ready"] \in CallRecord
                         /\ [call[d] EXCEPT !.at = "ready"].at = "ready"
    BY DEF Core, ConnTyped, CallRecord, Places
  <2>2. QED
    BY <1>3, <2>1, IdleRecord
<1>4. CASE TcpConnects
  <2>1. /\ tcp = "connecting" /\ tcp' = "open" /\ udp' = udp
        /\ call' \in [Calls -> CallRecord]
        /\ \A d \in Calls : \/ call'[d] = call[d] /\ call[d].at # "tcpWait"
                            \/ call'[d].at \in {"idle", "ready"}
    BY <1>3, <1>4 DEF TcpConnects
  <2>2. mode # "udp" /\ (mode # "auto" => ~There /\ There')
    BY <1>1, <2>1 DEF Core, ConnTyped, OneTransport, There, TcpThere
  <2>3. \A d \in Calls : Awaits(call[d])'
    BY <1>1, <2>1, <2>2 DEF Core, CallsOK, Awaits
  <2>4. CallsOK'
    BY <1>1, <2>1, <2>3 DEF Core, CallsOK
  <2>5. QED
    BY <1>1, <2>1, <2>2, <2>4 DEF Core, ConnTyped, OneTransport, Truth
<1>5. CASE UdpConnects
  <2>1. /\ udp = "opening" /\ udp' = "open" /\ tcp' = tcp
        /\ call' \in [Calls -> CallRecord]
        /\ \A d \in Calls : \/ call'[d] = call[d] /\ call[d].at # "udpWait"
                            \/ call'[d].at \in {"idle", "ready"}
    BY <1>3, <1>5 DEF UdpConnects
  <2>2. mode # "tcp" /\ (mode # "auto" => ~There /\ There')
    BY <1>1, <2>1 DEF Core, ConnTyped, OneTransport, There, TcpThere
  <2>3. \A d \in Calls : Awaits(call[d])'
    BY <1>1, <2>1, <2>2 DEF Core, CallsOK, Awaits
  <2>4. CallsOK'
    BY <1>1, <2>1, <2>3 DEF Core, CallsOK
  <2>5. QED
    BY <1>1, <2>1, <2>2, <2>4 DEF Core, ConnTyped, OneTransport, Truth
<1>6. QED
  BY <1>2, <1>4, <1>5

-----------------------------------------------------------------------------
(* Requests, logins, replies and the idle timer.                           *)

LEMMA BeginsCore ==
  ASSUME Core, NEW c \in Calls, Request(c) \/ Login(c) \/ LoginAgain(c) PROVE Core'
<1>1. /\ Call("request", 0) \in Started
      /\ Call("login", LoginAttempts - 1) \in Started
      /\ call[c] \in Started
  BY ClientAssumption DEF Call, Started, Core, ConnTyped, CallRecord
<1>2. Quiet /\ mode' = mode
  BY DEF Request, Login, LoginAgain
<1>3. \E it \in Started : Connect(c, it)
  BY <1>1 DEF Request, Login, LoginAgain
<1>4. QED
  BY <1>2, <1>3, ConnectCore

\* Send(), and what ends a call without a change of socket or login.
LEMMA CallCore ==
  ASSUME Core, NEW c \in Calls,
         GiveUpTcp(c) \/ UdpConnectFails(c) \/ Deadline(c) \/ Send(c) \/ TimesOut(c)
  PROVE  Core'
<1>1. call[c] \in CallRecord /\ call[c] \in Started
  BY DEF Core, ConnTyped, CallRecord, Started
<1>2. /\ UNCHANGED <<mode, tcp, udp, transport, session>>
      /\ loggedIn' \in {loggedIn, FALSE}
  BY DEF GiveUpTcp, UdpConnectFails, Deadline, Send, TimesOut, conn, login, Core, ConnTyped
<1>3. call' \in [Calls -> CallRecord] /\ CallsOK'
  <2>1. CASE GiveUpTcp(c)
    <3> DEFINE r == [call[c] EXCEPT !.at = "udpStart"]
    <3>1. r \in CallRecord /\ r.at = "udpStart"
      BY <1>1, GoesTo DEF Places
    <3>2. call' = [call EXCEPT ![c] = r] /\ mode # "tcp"
      BY <2>1 DEF GiveUpTcp
    <3> HIDE DEF r
    <3>3. Awaits(r)
      BY <3>1, <3>2 DEF Awaits
    <3>4. QED
      BY <1>2, <3>1, <3>2, <3>3, OneCall DEF Core
  <2>2. CASE UdpConnectFails(c) \/ TimesOut(c)
    <3> DEFINE r == Failed(c)
    <3>1. r \in CallRecord /\ r.at \in {"failed", "idle"}
      BY FailedFate DEF Core
    <3>2. call' = [call EXCEPT ![c] = r] /\ \A d \in Calls : call[d].at # "ready"
      BY <2>2, NotReady DEF UdpConnectFails, TimesOut
    <3> HIDE DEF r
    <3>3. Awaits(r)
      BY <3>1 DEF Awaits
    <3>4. QED
      BY <1>2, <3>1, <3>2, <3>3, OneCall DEF Core
  <2>3. CASE Deadline(c)
    <3> DEFINE r == IF call[c].kind = "logout" THEN Failed(c)
                    ELSE IF call[c].at = "hung" THEN Idle
                    ELSE [call[c] EXCEPT !.kind = "ghost"]
    <3>1. /\ r \in CallRecord
          /\ \/ r.at \in {"failed", "idle"}
             \/ r.at = call[c].at /\ r.at \in {"tcpWait", "udpStart", "udpWait"}
      BY <1>1, <2>3, FailedFate, IdleRecord DEF Deadline, Core, CallRecord
    <3>2. call' = [call EXCEPT ![c] = r] /\ \A d \in Calls : call[d].at # "ready"
      BY <2>3, NotReady DEF Deadline, Core, ConnTyped
    <3> HIDE DEF r
    <3>3. Awaits(r)
      BY <3>1 DEF Awaits, Core, CallsOK
    <3>4. QED
      BY <1>2, <3>1, <3>2, <3>3, OneCall DEF Core
  <2>4. CASE Send(c)
    <3> DEFINE r == [call[c] EXCEPT !.at = "pending", !.via = transport]
    <3>1. r \in CallRecord /\ r.at = "pending" /\ r.via = transport
      BY <1>1 DEF CallRecord, Places, Core, ConnTyped
    <3>2. call' = [call EXCEPT ![c] = r] /\ call[c].at = "ready"
      BY <2>4 DEF Send, Core, ConnTyped
    <3> HIDE DEF r
    <3>3. Awaits(r)
      BY <3>1, <3>2 DEF Awaits, Core, CallsOK, OneTransport
    <3>4. QED
      BY <1>2, <3>1, <3>2, <3>3, OneCall DEF Core
  <2>5. QED
    BY <2>1, <2>2, <2>3, <2>4
<1>4. There' <=> There
  BY <1>2 DEF There, TcpThere
<1>5. ConnTyped' /\ OneTransport'
  BY <1>2, <1>3 DEF Core, ConnTyped, OneTransport
<1>6. Truth'
  BY <1>2, <1>4 DEF Core, Truth
<1>7. QED
  BY <1>3, <1>5, <1>6 DEF Core

LEMMA ReplyCore ==
  ASSUME Core, NEW c \in Calls, Reply(c) \/ Refused(c) PROVE Core'
<1> DEFINE r == IF Reply(c) THEN Idle ELSE Failed(c)
<1>1. /\ UNCHANGED <<mode, tcp, udp, transport>>
      /\ call[c] \in CallRecord /\ call[c].at = "pending"
      /\ \A d \in Calls : call[d].at # "ready"
  BY NotReady DEF Reply, Refused, conn, Core, ConnTyped
<1>2. r \in CallRecord /\ r.at \in {"failed", "idle"}
  BY FailedFate, IdleRecord DEF Core
<1>3. call' = [call EXCEPT ![c] = r]
  BY DEF Reply, Refused
<1>4. /\ loggedIn' \in BOOLEAN /\ session' \in {"none", "tcp", "udp"}
      /\ loggedIn' => \/ loggedIn /\ session' = session
                      \/ session' = call[c].via
  <2>1. CASE Reply(c)
    BY <1>1, <2>1 DEF Reply, login, Core, ConnTyped, CallRecord
  <2>2. CASE Refused(c)
    BY <1>1, <2>2 DEF Refused, SessionWithout, Core, ConnTyped, CallRecord
  <2>3. QED
    BY <2>1, <2>2
<1> HIDE DEF r
<1>5. Awaits(r)
  BY <1>2 DEF Awaits
<1>6. call' \in [Calls -> CallRecord] /\ CallsOK'
  BY <1>1, <1>2, <1>3, <1>5, OneCall DEF Core
<1>7. mode # "auto" => There /\ call[c].via = mode
  BY <1>1 DEF Core, CallsOK, Awaits
<1>8. There' <=> There
  BY <1>1 DEF There, TcpThere
<1>9. ConnTyped' /\ OneTransport'
  BY <1>1, <1>4, <1>6 DEF Core, ConnTyped, OneTransport
<1>10. Truth'
  BY <1>1, <1>4, <1>7, <1>8 DEF Core, ConnTyped, Truth
<1>11. QED
  BY <1>6, <1>9, <1>10 DEF Core

LEMMA ClosesCore ==
  ASSUME Core, NEW c \in Calls, Closes(c) PROVE Core'
<1> DEFINE own == IF TriesAgain(c) THEN [call[c] EXCEPT !.at = "backoff", !.left = @ - 1]
                  ELSE Idle
           calls == [d \in Calls |-> IF d # c THEN Closed(d) ELSE own]
<1>1. own \in CallRecord /\ Ended(own)
  <2>1. CASE TriesAgain(c)
    <3>1. call[c] \in CallRecord /\ call[c].left - 1 \in 0 .. LoginAttempts
      BY <2>1, ClientAssumption DEF TriesAgain, Core, ConnTyped, CallRecord
    <3>2. own = [call[c] EXCEPT !.at = "backoff", !.left = call[c].left - 1]
      BY <2>1
    <3>3. QED
      BY <3>1, <3>2 DEF CallRecord, Places, Ended
  <2>2. CASE ~TriesAgain(c)
    BY <2>2, IdleRecord DEF Ended
  <2>3. QED
    BY <2>1, <2>2
<1>2. call[c].at = "failed" /\ \A d \in Calls : call[d].at # "ready"
  BY DEF Closes, Core, CallsOK
<1>3. Teardown(calls)
  <2>1. calls = [d \in Calls |->
          IF d # c THEN Closed(d)
          ELSE IF TriesAgain(c)
          THEN [call[c] EXCEPT !.at = "backoff", !.left = @ - 1] ELSE Idle]
    OBVIOUS
  <2>2. QED
    BY <2>1 DEF Closes
<1> HIDE DEF own
<1>4. /\ calls \in [Calls -> CallRecord]
      /\ \A d \in Calls : calls[d] = Closed(d) \/ Ended(calls[d])
  BY <1>1, ClosedFate DEF Core
<1> HIDE DEF calls
<1>5. QED
  BY <1>2, <1>3, <1>4, TeardownCore

\* What leaves sockets, login and calls as they are.
LEMMA KeptCore == Core /\ UNCHANGED <<mode, conn, login, call>> => Core'
BY DEF conn, login, Core, ConnTyped, CallsOK, OneTransport, Truth, Awaits, There, TcpThere

LEMMA SocketCore ==
  Core /\ (TcpFails \/ Close \/ PeerCloses \/ D2cDisc \/ PingFails \/ IdleTimer) => Core'
<1> SUFFICES ASSUME Core,
                    TcpFails \/ Close \/ PeerCloses \/ D2cDisc \/ PingFails \/ IdleTimer
             PROVE  Core'
  OBVIOUS
<1>1. Quiet
  BY DEF TcpFails, Close, PeerCloses, D2cDisc, PingFails, IdleTimer
<1>2. CASE TcpOver
  BY <1>1, <1>2, TcpGoneCore
<1>3. CASE UdpGone
  BY <1>1, <1>3, UdpGoneCore
<1>4. CASE Teardown([c \in Calls |-> Closed(c)])
  BY <1>1, <1>4, ClosedCore
<1>5. CASE UNCHANGED <<mode, conn, login, call>>
  BY <1>5, KeptCore
<1>6. CASE Connect("logout", Call("logout", 0)) /\ mode' = mode
  <2>1. "logout" \in Calls /\ Call("logout", 0) \in Started
    BY ClientAssumption DEF Calls, Call, Started
  <2>2. QED
    BY <1>1, <1>6, <2>1, ConnectCore
<1>7. QED
  BY <1>2, <1>3, <1>4, <1>5, <1>6 DEF TcpFails, Close, PeerCloses, D2cDisc, PingFails,
     IdleTimer, TcpOver

LEMMA NextCore == Core /\ [Next]_vars => Core'
<1> SUFFICES ASSUME Core, [Next]_vars PROVE Core'
  OBVIOUS
<1>1. CASE UNCHANGED vars
  BY <1>1, KeptCore DEF vars
<1>2. CASE \E c \in Asking : Request(c) \/ Login(c)
  <2>1. Asking \subseteq Calls
    BY ClientAssumption DEF Asking, Calls
  <2>2. QED
    BY <1>2, <2>1, BeginsCore
<1>3. CASE \E c \in Calls : CallStep(c) \/ Reply(c) \/ Refused(c)
  BY <1>3, ConnectUdpCore, BeginsCore, CallCore, ReplyCore, ClosesCore DEF CallStep
<1>4. CASE TcpConnects \/ UdpConnects \/ PeerVanishes
  BY <1>4, ConnectsCore
<1>5. CASE TcpFails \/ Close \/ PeerCloses \/ D2cDisc \/ PingFails \/ IdleTimer
  BY <1>5, SocketCore
<1>6. CASE \/ SendPing \/ PingAnswered
           \/ SubscribeVideoStream \/ UnsubscribeVideoStream
           \/ AcquirePermit \/ ReleasePermit
           \/ SiblingStreams \/ SiblingStops \/ RequestIdleDisconnectSoon
  <2>1. UNCHANGED <<mode, conn, login, call>>
    BY <1>6 DEF SendPing, PingAnswered, SubscribeVideoStream, UnsubscribeVideoStream,
       AcquirePermit, ReleasePermit, SiblingStreams, SiblingStops,
       RequestIdleDisconnectSoon
  <2>2. QED
    BY <2>1, KeptCore
<1>7. QED
  BY <1>1, <1>2, <1>3, <1>4, <1>5, <1>6 DEF Next

-----------------------------------------------------------------------------
(* Types of the keep-alive, the timer and the uses of the device.          *)

TimerTyped == timer \in {"off", "armed", "early"} /\ unkicked \in BOOLEAN
PingTyped == pinging \in BOOLEAN /\ failures \in 0 .. MaxPingFailures
FlagsTyped ==
  /\ active \in BOOLEAN /\ permit \in BOOLEAN /\ subs \in BOOLEAN
  /\ sibling \in BOOLEAN /\ registered \in BOOLEAN

LEMMA UseParts == UseTyped <=> TimerTyped /\ PingTyped /\ FlagsTyped
BY DEF UseTyped, TimerTyped, PingTyped, FlagsTyped

LEMMA TimerKept ==
  ASSUME UseTyped, Kick \/ Touch \/ NoKick \/ UNCHANGED idleVars PROVE TimerTyped'
<1>1. CASE Kick
  BY <1>1 DEF Kick, TimerTyped
<1>2. CASE Touch \/ NoKick \/ UNCHANGED idleVars
  BY <1>2 DEF Touch, NoKick, idleVars, UseTyped, TimerTyped
<1>3. QED
  BY <1>1, <1>2

\* The handlers that end a connection.
LEMMA GoneUses ==
  ASSUME UseTyped,
         \/ TcpOver /\ failures' \in {failures, 0}
         \/ UdpGone \/ \E calls \in {call'} : Teardown(calls)
  PROVE  UseTyped'
<1>1. CASE (TcpOver /\ failures' \in {failures, 0}) \/ UdpGone
  <2>1. TimerTyped'
    BY <1>1, TimerKept DEF TcpOver, TcpGone, UdpGone
  <2>2. 0 \in 0 .. MaxPingFailures
    BY DEF MaxPingFailures
  <2>3. PingTyped' /\ FlagsTyped'
    BY <1>1, <2>2 DEF TcpOver, TcpGone, UdpGone, uses, UseTyped, PingTyped, FlagsTyped
  <2>4. QED
    BY <2>1, <2>3, UseParts DEF UseTyped, TimerTyped, PingTyped, FlagsTyped
<1>2. CASE \E calls \in {call'} : Teardown(calls)
  <2>1. PICK calls : Teardown(calls)
    BY <1>2
  <2>2. TimerTyped' /\ PingTyped' /\ FlagsTyped'
    BY <2>1 DEF Teardown, UseTyped, TimerTyped, PingTyped, FlagsTyped
  <2>3. QED
    BY <2>2 DEF UseTyped, TimerTyped, PingTyped, FlagsTyped
<1>3. QED
  BY <1>1, <1>2

LEMMA ConnectPing ==
  ASSUME UseTyped, NEW c, NEW it, Connect(c, it) PROVE PingTyped' /\ subs' = subs
<1>1. 0 \in 0 .. MaxPingFailures
  BY DEF MaxPingFailures
<1>2. QED
  BY <1>1 DEF Connect, ConnectTcp, ping, UseTyped, PingTyped

LEMMA CallUses ==
  ASSUME UseTyped, NEW c, CallStep(c) \/ Reply(c) \/ Refused(c) \/ Request(c) \/ Login(c)
  PROVE  UseTyped'
<1>1. CASE Closes(c)
  <2>1. \E calls \in {call'} : Teardown(calls)
    BY <1>1 DEF Closes, Teardown
  <2>2. QED
    BY <2>1, GoneUses
<1>2. CASE ConnectUdp(c)
  <2>1. TimerTyped'
    BY <1>2, TimerKept DEF ConnectUdp
  <2>2. PingTyped' /\ FlagsTyped'
    BY <1>2 DEF ConnectUdp, ping, UseTyped, PingTyped, FlagsTyped
  <2>3. QED
    BY <2>1, <2>2 DEF UseTyped, TimerTyped, PingTyped, FlagsTyped
<1>3. CASE Request(c) \/ Login(c) \/ LoginAgain(c)
  <2>1. PingTyped' /\ subs' = subs
    BY <1>3, ConnectPing DEF Request, Login, LoginAgain
  <2>2. TimerTyped'
    BY <1>3, TimerKept DEF Request, Login, LoginAgain
  <2>3. FlagsTyped'
    BY <1>3, <2>1 DEF Request, Login, LoginAgain, Touch, UseTyped, FlagsTyped
  <2>4. QED
    BY <2>1, <2>2, <2>3 DEF UseTyped, TimerTyped, PingTyped, FlagsTyped
<1>4. CASE Send(c)
  BY <1>4 DEF Send, ping, UseTyped
<1>5. CASE \/ GiveUpTcp(c) \/ UdpConnectFails(c) \/ Deadline(c) \/ TimesOut(c)
           \/ Reply(c) \/ Refused(c)
  <2>1. TimerTyped'
    BY <1>5, TimerKept DEF GiveUpTcp, UdpConnectFails, Deadline, TimesOut, Reply, Refused
  <2>2. UNCHANGED <<ping, uses>>
    BY <1>5 DEF GiveUpTcp, UdpConnectFails, Deadline, TimesOut, Reply, Refused
  <2>3. QED
    BY <2>1, <2>2 DEF ping, uses, UseTyped, TimerTyped
<1>6. QED
  BY <1>1, <1>2, <1>3, <1>4, <1>5 DEF CallStep

LEMMA SocketUses ==
  ASSUME UseTyped,
         \/ TcpConnects \/ UdpConnects \/ PeerVanishes \/ SendPing \/ PingAnswered
         \/ TcpFails \/ Close \/ PeerCloses \/ D2cDisc \/ PingFails \/ IdleTimer
  PROVE  UseTyped'
<1>1. CASE \/ TcpOver /\ failures' \in {failures, 0}
           \/ UdpGone \/ Teardown([c \in Calls |-> Closed(c)])
  <2>1. \/ TcpOver /\ failures' \in {failures, 0}
        \/ UdpGone \/ \E calls \in {call'} : Teardown(calls)
    BY <1>1 DEF Teardown
  <2>2. QED
    BY <2>1, GoneUses
<1>2. CASE TcpConnects \/ UdpConnects \/ PeerVanishes \/ SendPing \/ PingAnswered
  <2>1. TimerTyped'
    BY <1>2, TimerKept DEF TcpConnects, UdpConnects, PeerVanishes, SendPing, PingAnswered
  <2>2. 0 \in 0 .. MaxPingFailures
    BY DEF MaxPingFailures
  <2>3. PingTyped' /\ FlagsTyped'
    BY <1>2, <2>2 DEF TcpConnects, UdpConnects, PeerVanishes, SendPing, PingAnswered, ping,
       uses, UseTyped, PingTyped, FlagsTyped
  <2>4. QED
    BY <2>1, <2>3 DEF UseTyped, TimerTyped, PingTyped, FlagsTyped
<1>3. CASE PingFails /\ ~(TcpOver /\ failures' = 0)
  <2>1. TimerTyped'
    BY <1>3, TimerKept DEF PingFails, TcpOver
  <2>2. MoreFailures \in 0 .. MaxPingFailures
    BY DEF MoreFailures, MaxPingFailures, UseTyped
  <2>3. PingTyped' /\ FlagsTyped'
    BY <1>3, <2>2 DEF PingFails, TcpOver, uses, UseTyped, PingTyped, FlagsTyped
  <2>4. QED
    BY <2>1, <2>3 DEF UseTyped, TimerTyped, PingTyped, FlagsTyped
<1>4. CASE IdleTimer /\ ~Teardown([c \in Calls |-> Closed(c)])
  <2>1. CASE UNCHANGED <<ping, uses>> /\ (Kick \/ (timer' = "off" /\ unkicked' = unkicked))
    <3>1. TimerTyped'
      BY <2>1, TimerKept DEF TimerTyped, UseTyped
    <3>2. QED
      BY <2>1, <3>1 DEF ping, uses, UseTyped, TimerTyped
  <2>2. CASE /\ Connect("logout", Call("logout", 0))
             /\ timer' = "off" /\ UNCHANGED unkicked
             /\ UNCHANGED <<active, permit, sibling, registered>>
    <3>1. PingTyped' /\ subs' = subs
      BY <2>2, ConnectPing
    <3>2. QED
      BY <2>2, <3>1 DEF UseTyped, PingTyped
  <2>3. QED
    BY <1>4, <2>1, <2>2 DEF IdleTimer
<1>5. QED
  BY <1>1, <1>2, <1>3, <1>4 DEF TcpFails, Close, PeerCloses, D2cDisc, TcpOver

LEMMA DeviceUses ==
  ASSUME UseTyped,
         \/ SubscribeVideoStream \/ UnsubscribeVideoStream \/ AcquirePermit
         \/ ReleasePermit \/ SiblingStreams \/ SiblingStops \/ RequestIdleDisconnectSoon
  PROVE  UseTyped'
<1>1. TimerTyped'
  <2>1. CASE AcquirePermit
    BY <2>1 DEF AcquirePermit, UseTyped, TimerTyped
  <2>2. CASE ~AcquirePermit
    BY <2>2, TimerKept DEF SubscribeVideoStream, UnsubscribeVideoStream, ReleasePermit,
       SiblingStreams, SiblingStops, RequestIdleDisconnectSoon
  <2>3. QED
    BY <2>1, <2>2
<1>2. PingTyped' /\ FlagsTyped'
  BY DEF SubscribeVideoStream, UnsubscribeVideoStream, AcquirePermit, ReleasePermit,
     SiblingStreams, SiblingStops, RequestIdleDisconnectSoon, ping, UseTyped, PingTyped,
     FlagsTyped
<1>3. QED
  BY <1>1, <1>2 DEF UseTyped, TimerTyped, PingTyped, FlagsTyped

LEMMA NextUses == UseTyped /\ [Next]_vars => UseTyped'
<1>1. UseTyped /\ UNCHANGED vars => UseTyped'
  BY DEF vars, ping, uses, idleVars, UseTyped
<1>2. UseTyped /\ Next => UseTyped'
  BY CallUses, SocketUses, DeviceUses DEF Next
<1>3. QED
  BY <1>1, <1>2

-----------------------------------------------------------------------------
(* The idle timer.  Until the first activity of a user there is nothing but *)
(* logins, so the timer that activity could leave off is off for a reason.  *)

NoTimer == ~active => timer = "off"
OnlyLogins == ~active => \A c \in Calls : call[c].at # "idle" => call[c].kind = "login"
UdpInUse ==
  ~active /\ mode = "udp" =>
    /\ udp = "open" => \E c \in Calls : call[c].at = "ready"
    /\ udp = "opening" => \E c \in Calls : call[c].at \in {"udpWait", "failed"}

\* The logout's place is only used by logouts.
LogoutPlace == call["logout"] = Idle \/ call["logout"].kind = "logout"

Kinds == OnlyLogins /\ LogoutPlace

\* A call that is not over stays what it is, or ends; a logout has a close() first.
Kept(r, c) ==
  IF call[c].at = "idle" THEN r = call[c]
  ELSE r.kind = call[c].kind \/ (r = Idle /\ call[c].kind \notin {"login", "logout"})

LEMMA Fates ==
  ASSUME Inv, NEW c \in Calls
  PROVE  /\ Kept(Rejected(c), c) /\ Kept(Abandoned(c), c) /\ Kept(TcpRefused(c), c)
         /\ Kept(Unreachable(c), c) /\ Kept(Closed(c), c)
         /\ call[c].at # "idle" => Kept(Failed(c), c)
<1>1. call[c] \in CallRecord
  BY DEF Inv, Core, ConnTyped
<1>2. \A place \in Places : [call[c] EXCEPT !.at = place].kind = call[c].kind
  BY <1>1 DEF CallRecord
<1>3. call[c].at # "idle" => Kept(Failed(c), c)
  BY <1>2 DEF Failed, Kept, Places
<1>4. Kept(Rejected(c), c)
  BY <1>3 DEF Rejected, Kept
<1>5. Kept(Abandoned(c), c)
  BY <1>2, <1>4 DEF Abandoned, Kept, Places
<1>6. Kept(TcpRefused(c), c)
  BY <1>2, <1>3, <1>4 DEF TcpRefused, Kept, Places
<1>7. Kept(Unreachable(c), c)
  <2>1. CASE call[c].at = "tcpWait" /\ mode # "auto"
    <3>1. Failed(c) \in CallRecord
      BY FailedFate DEF Inv, Core
    <3>2. [Failed(c) EXCEPT !.left = 0].kind = Failed(c).kind
      BY <3>1 DEF CallRecord
    <3>3. Failed(c) = Idle => [Failed(c) EXCEPT !.left = 0] = Idle
      BY DEF Idle
    <3>4. QED
      BY <1>3, <2>1, <3>2, <3>3 DEF Unreachable, Kept
  <2>2. QED
    BY <1>6, <2>1 DEF Unreachable
<1>8. QED
  BY <1>3, <1>4, <1>5, <1>6, <1>7 DEF Closed, Kept

LEMMA KindsOfKept ==
  ASSUME Inv, Kinds, active => active',
         \A c \in Calls : Kept(call'[c], c) \/ call'[c] = Idle
  PROVE  Kinds'
<1>1. Idle.at = "idle" /\ "logout" \in Calls
  BY DEF Idle, Calls
<1>2. OnlyLogins'
  BY <1>1 DEF Kinds, OnlyLogins, Kept
<1>3. LogoutPlace'
  <2>1. Kept(call'["logout"], "logout") \/ call'["logout"] = Idle
    BY <1>1
  <2>2. QED
    BY <1>1, <2>1 DEF Kinds, LogoutPlace, Kept
<1>4. QED
  BY <1>2, <1>3 DEF Kinds

\* One call changes.
LEMMA KindsOfOne ==
  ASSUME Inv, Kinds, active => active', NEW c \in Calls, NEW r \in CallRecord,
         call' = [call EXCEPT ![c] = r],
         c = "logout" => r = Idle \/ r.kind = "logout",
         ~active' => r.at = "idle" \/ r.kind = "login"
  PROVE  Kinds'
<1>1. /\ call'[c] = r /\ \A d \in Calls : d # c => call'[d] = call[d]
      /\ "logout" \in Calls
  BY DEF Inv, Core, ConnTyped, Calls
<1>2. OnlyLogins'
  BY <1>1 DEF Kinds, OnlyLogins
<1>3. LogoutPlace'
  BY <1>1 DEF Kinds, LogoutPlace
<1>4. QED
  BY <1>2, <1>3 DEF Kinds

\* connect() keeps what the call is.
LEMMA ConnectCall ==
  ASSUME Inv, NEW c \in Calls, NEW it \in Started, Connect(c, it)
  PROVE  \E r \in CallRecord :
           /\ call' = [call EXCEPT ![c] = r] /\ r.kind = it.kind
           /\ r.at = IF mode = "udp" THEN "udpStart"
                     ELSE IF TcpThere THEN "ready" ELSE "tcpWait"
<1>1. PICK place \in {"udpStart", "ready", "tcpWait"} :
        /\ call' = [call EXCEPT ![c] = [it EXCEPT !.at = place]]
        /\ place = IF mode = "udp" THEN "udpStart"
                   ELSE IF TcpThere THEN "ready" ELSE "tcpWait"
  BY DEF Connect, ConnectTcp, TcpThere
<1>2. place \in Places
  BY DEF Places
<1>3. /\ [it EXCEPT !.at = place] \in CallRecord
      /\ [it EXCEPT !.at = place].at = place
      /\ [it EXCEPT !.at = place].kind = it.kind
  BY <1>2, GoesTo
<1>4. QED
  BY <1>1, <1>3

\* Nothing happens while a continuation runs but continuations.
LEMMA ActiveStays == Next => (active => active')
BY DEF Next, CallStep, Request, Login, ConnectUdp, GiveUpTcp, UdpConnectFails, Deadline,
       LoginAgain, Send, TimesOut, Closes, Reply, Refused, TcpConnects, TcpFails, UdpConnects,
       Close, PeerCloses, D2cDisc, PeerVanishes, SendPing, PingAnswered, PingFails,
       SubscribeVideoStream, UnsubscribeVideoStream, AcquirePermit, ReleasePermit,
       SiblingStreams, SiblingStops, RequestIdleDisconnectSoon, IdleTimer,
       TcpGone, UdpGone, Teardown, Touch, uses

LEMMA NoTimerNext == NoTimer /\ Next => NoTimer'
<1> SUFFICES ASSUME NoTimer, Next, ~active' PROVE timer' = "off"
  BY DEF NoTimer
<1>1. ~active /\ timer = "off"
  BY ActiveStays DEF NoTimer
<1>2. Kick => timer' = "off"
  BY DEF Kick
<1>3. \A calls : Teardown(calls) => timer' = "off"
  BY <1>1 DEF Teardown
<1>4. ~Touch
  BY DEF Touch
<1>5. UdpGone \/ TcpGone(AllRefused) \/ TcpGone(AllUnreachable) => timer' = "off"
  BY <1>1 DEF TcpGone, UdpGone, NoKick
<1>6. QED
  BY <1>1, <1>2, <1>3, <1>4, <1>5
     DEF Next, CallStep, Request, Login, ConnectUdp, GiveUpTcp, UdpConnectFails, Deadline,
       LoginAgain, Send, TimesOut, Closes, Reply, Refused, TcpConnects, TcpFails, UdpConnects,
       Close, PeerCloses, D2cDisc, PeerVanishes, SendPing, PingAnswered, PingFails,
       SubscribeVideoStream, UnsubscribeVideoStream, AcquirePermit, ReleasePermit,
       SiblingStreams, SiblingStops, RequestIdleDisconnectSoon, IdleTimer, NoKick, idleVars

LEMMA GoneKinds ==
  ASSUME Inv, Kinds,
         TcpOver \/ UdpGone \/ Teardown([c \in Calls |-> Closed(c)])
  PROVE  Kinds'
<1>1. active' = active
  BY DEF TcpOver, TcpGone, UdpGone, Teardown, uses
<1>2. \A c \in Calls : Kept(call'[c], c)
  BY Fates DEF TcpOver, TcpGone, AllRefused, AllUnreachable, UdpGone, Teardown
<1>3. QED
  BY <1>1, <1>2, KindsOfKept

LEMMA CallKinds ==
  ASSUME Inv, Kinds, NEW c \in Calls,
         \/ GiveUpTcp(c) \/ UdpConnectFails(c) \/ Deadline(c) \/ Send(c) \/ TimesOut(c)
         \/ Reply(c) \/ Refused(c)
  PROVE  Kinds'
<1>1. call[c] \in CallRecord /\ Idle \in CallRecord /\ Idle.at = "idle" /\ active \in BOOLEAN
  BY IdleRecord DEF Inv, Core, ConnTyped, UseTyped
<1>2. c = "logout" => call[c] = Idle \/ call[c].kind = "logout"
  BY DEF Kinds, LogoutPlace
<1>3. ~active => call[c].at = "idle" \/ call[c].kind = "login"
  BY DEF Kinds, OnlyLogins
<1>4. CASE Send(c)
  <2> DEFINE r == [call[c] EXCEPT !.at = "pending", !.via = transport]
  <2>1. r \in CallRecord /\ r.kind = call[c].kind
    BY <1>1 DEF CallRecord, Places, Inv, Core, ConnTyped
  <2>2. call' = [call EXCEPT ![c] = r] /\ active' = TRUE /\ call[c].at = "ready"
    BY <1>4 DEF Send
  <2> HIDE DEF r
  <2>3. QED
    BY <1>1, <1>2, <2>1, <2>2, KindsOfOne
<1>5. CASE Reply(c)
  BY <1>1, <1>5, KindsOfOne DEF Reply, uses
<1>6. CASE GiveUpTcp(c)
  <2> DEFINE r == [call[c] EXCEPT !.at = "udpStart"]
  <2>1. r \in CallRecord /\ r.kind = call[c].kind /\ call[c].at # "idle"
    BY <1>1, <1>6 DEF CallRecord, Places, GiveUpTcp
  <2>2. call' = [call EXCEPT ![c] = r] /\ active' = active
    BY <1>6 DEF GiveUpTcp, uses
  <2> HIDE DEF r
  <2>3. QED
    BY <1>1, <1>2, <1>3, <2>1, <2>2, KindsOfOne
<1>7. CASE UdpConnectFails(c) \/ TimesOut(c) \/ Refused(c)
  <2>1. call[c].at # "idle" /\ call' = [call EXCEPT ![c] = Failed(c)] /\ active' = active
    BY <1>7 DEF UdpConnectFails, TimesOut, Refused, uses
  <2>2. \A d \in Calls : Kept(call'[d], d)
    <3>1. \A d \in Calls : Kept(call[d], d)
      BY DEF Kept
    <3>2. Kept(Failed(c), c)
      BY <2>1, Fates
    <3>3. QED
      BY <2>1, <3>1, <3>2 DEF Inv, Core, ConnTyped
  <2>3. QED
    BY <2>1, <2>2, KindsOfKept
<1>8. CASE Deadline(c)
  <2> DEFINE r == IF call[c].kind = "logout" THEN Failed(c)
                  ELSE IF call[c].at = "hung" THEN Idle ELSE [call[c] EXCEPT !.kind = "ghost"]
  <2>1. /\ call' = [call EXCEPT ![c] = r] /\ active' = active /\ call[c].at # "idle"
        /\ call[c].kind \in {"request", "logout"}
    BY <1>8 DEF Deadline, uses
  <2>2. active
    BY <1>3, <2>1
  <2>3. r \in CallRecord
    BY <1>1, FailedFate DEF CallRecord, Inv, Core
  <2>4. c = "logout" => r.kind = "logout"
    <3>1. c = "logout" => call[c].kind = "logout"
      BY <1>1, <1>2, <2>1
    <3>2. call[c].kind = "logout" => Failed(c).kind = "logout"
      BY <2>1, Fates DEF Kept
    <3>3. QED
      BY <3>1, <3>2
  <2> HIDE DEF r
  <2>5. QED
    BY <2>1, <2>2, <2>3, <2>4, KindsOfOne
<1>9. QED
  BY <1>4, <1>5, <1>6, <1>7, <1>8

LEMMA BeginKinds ==
  ASSUME Inv, Kinds, NEW c \in Calls,
         ((Request(c) \/ Login(c)) /\ c \in Callers) \/ LoginAgain(c)
  PROVE  Kinds'
<1>1. /\ Call("request", 0) \in Started /\ Call("request", 0).kind = "request"
      /\ Call("login", LoginAttempts - 1) \in Started
      /\ Call("login", LoginAttempts - 1).kind = "login"
      /\ call[c] \in CallRecord
  BY ClientAssumption DEF Call, Started, Inv, Core, ConnTyped
<1>2. active => active'
  BY DEF Request, Login, LoginAgain, Touch
<1>3. CASE Request(c) /\ c \in Callers
  <2>1. active' /\ c # "logout"
    BY <1>3, ClientAssumption DEF Request, Touch
  <2>2. QED
    BY <1>1, <1>2, <1>3, <2>1, ConnectCall, KindsOfOne DEF Request
<1>4. CASE Login(c) /\ c \in Callers
  <2>1. c # "logout"
    BY <1>4, ClientAssumption
  <2>2. QED
    BY <1>1, <1>2, <1>4, <2>1, ConnectCall, KindsOfOne DEF Login
<1>5. CASE LoginAgain(c)
  <2>1. call[c] \in Started /\ call[c].at = "backoff"
    BY <1>1, <1>5 DEF LoginAgain, Started, CallRecord
  <2>2. PICK r \in CallRecord : call' = [call EXCEPT ![c] = r] /\ r.kind = call[c].kind
    BY <1>5, <2>1, ConnectCall DEF LoginAgain
  <2>3. /\ c = "logout" => r.kind = "logout"
        /\ ~active' => r.kind = "login"
    BY <1>2, <2>1, <2>2 DEF Kinds, LogoutPlace, OnlyLogins, Idle
  <2>4. QED
    BY <1>2, <2>2, <2>3, KindsOfOne
<1>6. QED
  BY <1>3, <1>4, <1>5

LEMMA ConnectedKinds ==
  ASSUME Inv, Kinds,
         TcpConnects \/ UdpConnects \/ \E c \in Calls : ConnectUdp(c)
  PROVE  Kinds'
<1>1. active' = active
  BY DEF TcpConnects, UdpConnects, ConnectUdp, uses
<1>2. \A c \in Calls, place \in Places : [call[c] EXCEPT !.at = place].kind = call[c].kind
  BY DEF Inv, Core, ConnTyped, CallRecord
<1>3. CASE TcpConnects \/ UdpConnects
  <2>1. \A c \in Calls : call'[c] \in {call[c], Idle} \/
          (call'[c] = [call[c] EXCEPT !.at = "ready"] /\ call[c].at \in {"tcpWait", "udpWait"})
    BY <1>3 DEF TcpConnects, UdpConnects
  <2>2. \A c \in Calls : Kept(call'[c], c) \/ call'[c] = Idle
    BY <1>2, <2>1 DEF Kept, Places
  <2>3. QED
    BY <1>1, <2>2, KindsOfKept
<1>4. CASE \E c \in Calls : ConnectUdp(c)
  <2>1. PICK c \in Calls : ConnectUdp(c)
    BY <1>4
  <2>2. /\ call[c].at = "udpStart"
        /\ \/ call'[c] = Idle \/ call'[c] = [call[c] EXCEPT !.at = "ready"]
           \/ call'[c] = [call[c] EXCEPT !.at = "udpWait"]
        /\ \A d \in Calls \ {c} : call'[d] \in {call[d], Abandoned(d)}
    BY <2>1 DEF ConnectUdp, Inv, Core, ConnTyped
  <2>3. \A d \in Calls \ {c} : Kept(call'[d], d)
    BY <2>2, Fates DEF Kept
  <2>4. Kept(call'[c], c) \/ call'[c] = Idle
    BY <1>2, <2>2 DEF Kept, Places
  <2>5. QED
    BY <1>1, <2>3, <2>4, KindsOfKept
<1>5. QED
  BY <1>3, <1>4

LEMMA ClosesKinds ==
  ASSUME Inv, Kinds, NEW c \in Calls, Closes(c) PROVE Kinds'
<1>1. /\ active' = active /\ call[c].at = "failed"
      /\ call' = [d \in Calls |-> IF d # c THEN Closed(d)
                   ELSE IF TriesAgain(c)
                   THEN [call[c] EXCEPT !.at = "backoff", !.left = @ - 1] ELSE Idle]
  BY DEF Closes, Teardown
<1>2. \A d \in Calls \ {c} : Kept(call'[d], d)
  BY <1>1, Fates
<1>3. [call[c] EXCEPT !.at = "backoff", !.left = @ - 1].kind = call[c].kind
  BY DEF Inv, Core, ConnTyped, CallRecord
<1>4. Kept(call'[c], c) \/ call'[c] = Idle
  BY <1>1, <1>3 DEF Kept
<1>5. QED
  BY <1>1, <1>2, <1>4, KindsOfKept

\* The logout begins; by then a user has been active, or the timer were off.
LEMMA IdleTimerKinds ==
  ASSUME Inv, NoTimer, Kinds, IdleTimer PROVE Kinds'
<1>1. CASE Connect("logout", Call("logout", 0)) /\ active' = active
  <2>1. active
    BY DEF IdleTimer, NoTimer
  <2>2. /\ "logout" \in Calls /\ Call("logout", 0) \in Started
        /\ Call("logout", 0).kind = "logout"
    BY ClientAssumption DEF Calls, Call, Started
  <2>3. QED
    BY <1>1, <2>1, <2>2, ConnectCall, KindsOfOne
<1>2. CASE Teardown([c \in Calls |-> Closed(c)])
  BY <1>2, GoneKinds
<1>3. CASE UNCHANGED <<call, active>>
  BY <1>3 DEF Kinds, OnlyLogins, LogoutPlace
<1>4. QED
  BY <1>1, <1>2, <1>3 DEF IdleTimer, uses

LEMMA KindsNext ==
  ASSUME Inv, NoTimer, Kinds, Next PROVE Kinds'
<1>1. CASE \E c \in Asking : Request(c) \/ Login(c)
  <2>1. Asking \subseteq Callers /\ Callers \subseteq Calls
    BY ClientAssumption DEF Asking, Calls
  <2>2. QED
    BY <1>1, <2>1, BeginKinds
<1>2. CASE \E c \in Calls : CallStep(c) \/ Reply(c) \/ Refused(c)
  BY <1>2, CallKinds, BeginKinds, ConnectedKinds, ClosesKinds DEF CallStep
<1>3. CASE TcpConnects \/ UdpConnects
  BY <1>3, ConnectedKinds
<1>4. CASE TcpFails \/ Close \/ PeerCloses \/ D2cDisc \/ (PingFails /\ TcpOver)
  BY <1>4, GoneKinds DEF TcpFails, Close, PeerCloses, D2cDisc, TcpOver
<1>5. CASE IdleTimer
  BY <1>5, IdleTimerKinds
<1>6. CASE \/ SendPing \/ PingAnswered \/ (PingFails /\ ~TcpOver) \/ PeerVanishes
           \/ SubscribeVideoStream \/ UnsubscribeVideoStream
           \/ AcquirePermit \/ ReleasePermit
           \/ SiblingStreams \/ SiblingStops \/ RequestIdleDisconnectSoon
  <2>1. call' = call /\ (active => active')
    BY <1>6 DEF SendPing, PingAnswered, PingFails, TcpOver, PeerVanishes,
       SubscribeVideoStream, UnsubscribeVideoStream, AcquirePermit, ReleasePermit,
       SiblingStreams, SiblingStops, RequestIdleDisconnectSoon, uses
  <2>2. QED
    BY <2>1 DEF Kinds, OnlyLogins, LogoutPlace
<1>7. QED
  BY <1>1, <1>2, <1>3, <1>4, <1>5, <1>6 DEF Next

\* Before any activity a UDP stream is there for the login that opened it.
LEMMA UdpInUseNext ==
  ASSUME Inv, NoTimer, Kinds, UdpInUse, Next PROVE UdpInUse'
<1> SUFFICES ASSUME ~active', mode' = "udp" PROVE UdpInUse'
  BY DEF UdpInUse
<1>1. ~active /\ timer = "off"
  BY ActiveStays DEF NoTimer
<1>2. mode = "udp" /\ tcp = "none" /\ call \in [Calls -> CallRecord]
  <2>1. mode' = mode
    BY DEF Next, CallStep, Request, Login, ConnectUdp, GiveUpTcp, UdpConnectFails, Deadline,
       LoginAgain, Send, TimesOut, Closes, Reply, Refused, TcpConnects, TcpFails, UdpConnects,
       Close, PeerCloses, D2cDisc, PeerVanishes, SendPing, PingAnswered, PingFails,
       SubscribeVideoStream, UnsubscribeVideoStream, AcquirePermit, ReleasePermit,
       SiblingStreams, SiblingStops, RequestIdleDisconnectSoon, IdleTimer,
       TcpGone, UdpGone, Teardown
  <2>2. QED
    BY <2>1 DEF Inv, Core, ConnTyped, OneTransport
<1>3. \A c \in Calls : call[c].at # "idle" => call[c].kind = "login"
  BY <1>1 DEF Kinds, OnlyLogins
<1>4. Quiet => /\ udp # "open"
               /\ udp = "opening" => \E c \in Calls : call[c].at = "udpWait"
  BY <1>1, <1>2, NotReady DEF UdpInUse
<1>5. CASE \/ TcpFails \/ TcpConnects \/ PeerCloses \/ IdleTimer
           \/ RequestIdleDisconnectSoon \/ \E c \in Calls : Send(c) \/ GiveUpTcp(c) \/ Request(c)
  BY <1>1, <1>2, <1>5 DEF TcpFails, TcpConnects, PeerCloses, TcpThere, IdleTimer,
     RequestIdleDisconnectSoon, Send, GiveUpTcp, Request, Touch
<1>6. CASE Close \/ D2cDisc \/ \E c \in Calls : Closes(c)
  <2>1. udp' = "none"
    BY <1>6 DEF Close, Closes, Teardown, D2cDisc, UdpGone
  <2>2. QED
    BY <2>1 DEF UdpInUse
<1>7. CASE \E c \in Calls : ConnectUdp(c)
  <2>1. PICK c \in Calls : ConnectUdp(c)
    BY <1>7
  <2>2. udp' = "opening" /\ \E r \in {call'[c]} : r = [call[c] EXCEPT !.at = "udpWait"]
    BY <1>2, <1>4, <2>1 DEF ConnectUdp
  <2>3. call'[c].at = "udpWait"
    BY <1>2, <2>2 DEF CallRecord
  <2>4. QED
    BY <2>2, <2>3 DEF UdpInUse
<1>8. CASE UdpConnects
  <2>1. PICK c \in Calls : call[c].at = "udpWait"
    BY <1>4, <1>8 DEF UdpConnects
  <2>2. call'[c] = [call[c] EXCEPT !.at = "ready"]
    BY <1>3, <1>8, <2>1 DEF UdpConnects
  <2>3. call'[c].at = "ready"
    BY <1>2, <2>2 DEF CallRecord
  <2>4. udp' = "open"
    BY <1>8 DEF UdpConnects
  <2>5. QED
    BY <2>3, <2>4 DEF UdpInUse
<1>9. CASE \E c \in Calls : UdpConnectFails(c)
  <2>1. PICK c \in Calls : UdpConnectFails(c)
    BY <1>9
  <2>2. /\ call[c].at = "udpWait" /\ udp = "opening" /\ udp' = udp
        /\ call' = [call EXCEPT ![c] = [call[c] EXCEPT !.at = "failed"]]
    BY <1>3, <2>1 DEF UdpConnectFails, conn, Failed, Inv, Core, CallsOK, Awaits
  <2>3. call'[c].at = "failed"
    BY <1>2, <2>2 DEF CallRecord
  <2>4. QED
    BY <2>2, <2>3 DEF UdpInUse
<1>10. CASE \E c \in Calls : Login(c) \/ LoginAgain(c) \/ TimesOut(c) \/ Reply(c) \/ Refused(c)
  <2>1. PICK c \in Calls : Login(c) \/ LoginAgain(c) \/ TimesOut(c) \/ Reply(c) \/ Refused(c)
    BY <1>10
  <2>2. Quiet /\ udp' = udp /\ call[c].at # "udpWait"
    BY <1>2, <2>1 DEF Login, LoginAgain, TimesOut, Reply, Refused, Connect, conn
  <2>3. \A d \in Calls \ {c} : call'[d] = call[d]
    BY <1>2, <2>1 DEF Login, LoginAgain, TimesOut, Reply, Refused, Connect
  <2>4. QED
    BY <1>4, <2>2, <2>3 DEF UdpInUse
<1>11. CASE \E c \in Calls : Deadline(c)
  BY <1>3, <1>11 DEF Deadline
<1>12. CASE \/ SendPing \/ PingAnswered \/ PingFails \/ PeerVanishes
            \/ SubscribeVideoStream \/ UnsubscribeVideoStream
            \/ AcquirePermit \/ ReleasePermit \/ SiblingStreams \/ SiblingStops
  <2>1. call' = call /\ udp' = udp
    BY <1>2, <1>12 DEF SendPing, PingAnswered, PingFails, PeerVanishes, SubscribeVideoStream,
       UnsubscribeVideoStream, AcquirePermit, ReleasePermit, SiblingStreams, SiblingStops,
       conn
  <2>2. QED
    BY <1>1, <1>2, <2>1 DEF UdpInUse
<1>13. QED
  <2>1. Asking \subseteq Calls
    BY ClientAssumption DEF Asking, Calls
  <2>2. QED
    BY <2>1, <1>5, <1>6, <1>7, <1>8, <1>9, <1>10, <1>11, <1>12 DEF Next, CallStep

\* A client that nothing uses, and that knows it.
Unused ==
  /\ Eligible /\ tcp # "connecting" /\ active /\ registered /\ ~unkicked
  /\ Quiet /\ call["logout"] = Idle /\ mode # "auto"

LEMMA UnusedTimed == IdleIsTimed <=> (Unused => timer # "off")
BY DEF IdleIsTimed, Unused

\* A step that looks at the timer last, or leaves no idle client behind.
LEMMA Looked ==
  ASSUME Kick \/ NoKick \/ ~Eligible' \/ ~Quiet' \/ call'["logout"] # Idle
         \/ mode' = "auto" \/ tcp' = "connecting" \/ unkicked'
  PROVE  IdleIsTimed'
<1>1. Kick => (Unused' => timer' # "off")
  BY DEF Kick, Unused
<1>2. ~Kick => ~Unused'
  BY DEF NoKick, Unused
<1>3. QED
  BY <1>1, <1>2, UnusedTimed DEF IdleIsTimed, Unused

\* A step that does not stop the timer, after which the client is no more idle
\* than before.
LEMMA Undisturbed ==
  ASSUME IdleIsTimed, timer' = "off" => timer = "off", Unused' => Unused
  PROVE  IdleIsTimed'
BY DEF IdleIsTimed, Unused

\* What an idle client was before one call changed that was not pending.
LEMMA OneCallChanges ==
  ASSUME Inv, NEW c \in Calls, NEW r \in CallRecord, call' = [call EXCEPT ![c] = r],
         Quiet, call[c].at # "pending",
         call'["logout"] = Idle => call["logout"] = Idle,
         UNCHANGED <<mode, tcp, udp, transport, pinging, permit, subs, sibling, registered>>,
         active' = active, unkicked' = unkicked
  PROVE  Unused' => Unused
<1> SUFFICES ASSUME Unused' PROVE Unused
  OBVIOUS
<1>2. \A d \in Calls : call'[d].at # "pending"
  BY DEF Unused, Eligible, EligibleButPermit, Busy, Waits
<1>3. \A d \in Calls : call[d].at # "pending"
  BY <1>2 DEF Inv, Core, ConnTyped
<1>4. ~Busy /\ Connected /\ ~Streaming /\ ~permit
  BY <1>3 DEF Unused, Eligible, EligibleButPermit, Busy, Waits, Connected, Streaming
<1>5. QED
  BY <1>4 DEF Unused, Eligible, EligibleButPermit

LEMMA NotConnected ==
  ASSUME tcp' = "none" \/ transport' # "tcp", udp' # "open" \/ transport' = "tcp"
  PROVE  ~Eligible'
BY DEF Eligible, EligibleButPermit, Connected

LEMMA NowPending ==
  ASSUME NEW c \in Calls, call'[c].at = "pending" PROVE ~Eligible'
BY DEF Eligible, EligibleButPermit, Busy, Waits

LEMMA NowReady ==
  ASSUME NEW c \in Calls, call'[c].at \in {"ready", "failed"} PROVE ~Quiet'
BY DEF Quiet, Waits

\* In a client with one transport connect() leaves the call ready, the attempt
\* under way, or, over UDP, everything but the call alone.
LEMMA ConnectTimed ==
  ASSUME Inv, IdleIsTimed, NEW c \in Calls, NEW it \in Started, Connect(c, it), Quiet,
         call[c].at \in {"idle", "backoff"}, c = "logout" => call[c] # Idle,
         timer' = "off" => timer = "off",
         UNCHANGED <<mode, active, permit, sibling, registered, unkicked>>
  PROVE  IdleIsTimed'
<1>1. PICK r \in CallRecord :
        /\ call' = [call EXCEPT ![c] = r] /\ r.kind = it.kind
        /\ r.at = IF mode = "udp" THEN "udpStart" ELSE IF TcpThere THEN "ready" ELSE "tcpWait"
  BY ConnectCall
<1>2. call'[c] = r
  BY <1>1 DEF Inv, Core, ConnTyped
<1>3. CASE mode = "udp"
  <2>1. r # Idle /\ UNCHANGED <<tcp, udp, transport, pinging, subs>>
    BY <1>1, <1>3 DEF Connect, conn, ping, Idle
  <2>2. Unused' => Unused
    <3>1. call'["logout"] = Idle => call["logout"] = Idle
      BY <1>1, <1>2, <2>1 DEF Inv, Core, ConnTyped
    <3>2. QED
      BY <1>1, <2>1, <3>1, OneCallChanges
  <2>3. QED
    BY <2>2, Undisturbed
<1>4. CASE mode # "udp" /\ TcpThere
  BY <1>1, <1>2, <1>4, NowReady, Looked
<1>5. CASE mode # "udp" /\ ~TcpThere
  <2>1. tcp' = "connecting"
    BY <1>5 DEF Connect, ConnectTcp
  <2>2. QED
    BY <2>1, Looked
<1>6. QED
  BY <1>3, <1>4, <1>5

LEMMA BeginsTimed ==
  ASSUME Inv, Kinds, UdpInUse, IdleIsTimed, NEW c \in Calls,
         ((Request(c) \/ Login(c)) /\ c \in Callers) \/ LoginAgain(c)
  PROVE  IdleIsTimed'
<1>1. /\ Call("request", 0) \in Started /\ Call("login", LoginAttempts - 1) \in Started
      /\ call[c] \in CallRecord /\ call[c] \in Started
  BY ClientAssumption DEF Call, Started, Inv, Core, ConnTyped, CallRecord
<1>2. CASE Request(c) /\ c \in Callers
  <2>1. /\ Connect(c, Call("request", 0)) /\ Quiet /\ call[c].at = "idle" /\ c # "logout"
        /\ timer' = "off" => timer = "off"
        /\ active' = TRUE /\ UNCHANGED <<mode, permit, sibling, registered, unkicked>>
    BY <1>2, ClientAssumption DEF Request, Touch
  <2>2. CASE active
    <3>1. active' = active
      BY <2>1, <2>2 DEF Inv, UseTyped
    <3>2. QED
      BY <1>1, <2>1, <3>1, ConnectTimed
  <2>3. CASE ~active /\ mode = "udp"
    <3>1. udp # "open" /\ udp' = udp /\ transport' = "udp"
      BY <2>1, <2>3, NotReady DEF UdpInUse, Connect, conn, Inv, Core, OneTransport
    <3>2. QED
      BY <3>1, NotConnected, Looked
  <2>4. CASE mode # "udp"
    <3>1. CASE TcpThere
      <4>1. PICK r \in CallRecord : call' = [call EXCEPT ![c] = r] /\ r.at = "ready"
        BY <1>1, <2>1, <2>4, <3>1, ConnectCall
      <4>2. call'[c].at = "ready"
        BY <4>1 DEF Inv, Core, ConnTyped
      <4>3. QED
        BY <4>2, NowReady, Looked
    <3>2. CASE ~TcpThere
      <4>1. tcp' = "connecting"
        BY <2>1, <2>4, <3>2 DEF Connect, ConnectTcp
      <4>2. QED
        BY <4>1, Looked
    <3>3. QED
      BY <3>1, <3>2
  <2>5. QED
    BY <2>2, <2>3, <2>4
<1>3. CASE Login(c) /\ c \in Callers
  <2>1. /\ Connect(c, Call("login", LoginAttempts - 1)) /\ Quiet /\ call[c].at = "idle"
        /\ c # "logout" /\ timer' = timer
        /\ UNCHANGED <<mode, active, permit, sibling, registered, unkicked>>
    BY <1>3, ClientAssumption DEF Login, idleVars
  <2>2. QED
    BY <1>1, <2>1, ConnectTimed
<1>4. CASE LoginAgain(c)
  <2>1. /\ Connect(c, call[c]) /\ Quiet /\ call[c].at = "backoff" /\ call[c] # Idle
        /\ timer' = timer
        /\ UNCHANGED <<mode, active, permit, sibling, registered, unkicked>>
    BY <1>4 DEF LoginAgain, idleVars, Idle
  <2>2. QED
    BY <1>1, <2>1, ConnectTimed
<1>5. QED
  BY <1>2, <1>3, <1>4

\* A deadline lets the connect() it gave up on go on as nobody's.
LEMMA DeadlineTimed ==
  ASSUME Inv, Kinds, IdleIsTimed, NEW c \in Calls, Deadline(c) PROVE IdleIsTimed'
<1> DEFINE r == IF call[c].kind = "logout" THEN Failed(c)
                ELSE IF call[c].at = "hung" THEN Idle ELSE [call[c] EXCEPT !.kind = "ghost"]
<1>1. /\ call' = [call EXCEPT ![c] = r] /\ Quiet
      /\ call[c].at \in {"tcpWait", "udpStart", "udpWait", "hung"}
      /\ UNCHANGED <<mode, tcp, udp, transport, pinging, permit, subs, sibling, registered,
                     active, unkicked, timer>>
  BY DEF Deadline, conn, ping, uses, idleVars
<1>2. r \in CallRecord
  BY FailedFate, IdleRecord DEF CallRecord, Inv, Core, ConnTyped
<1>3. CASE call[c].kind = "logout"
  <2>1. call'[c] = [call[c] EXCEPT !.at = "failed"]
    BY <1>1, <1>3 DEF Failed, Inv, Core, ConnTyped
  <2>2. call'[c].at = "failed"
    BY <2>1 DEF Inv, Core, ConnTyped, CallRecord
  <2>3. QED
    BY <2>2, NowReady, Looked
<1>4. CASE call[c].kind # "logout"
  <2>1. c # "logout"
    BY <1>1, <1>4 DEF Kinds, LogoutPlace, Idle
  <2>2. call'["logout"] = call["logout"]
    BY <1>1, <2>1 DEF Inv, Core, ConnTyped, Calls
  <2> HIDE DEF r
  <2>3. Unused' => Unused
    BY <1>1, <1>2, <2>2, OneCallChanges
  <2>4. QED
    BY <1>1, <2>3, Undisturbed
<1>5. QED
  BY <1>3, <1>4

LEMMA ConnectUdpTimed ==
  ASSUME Inv, Kinds, IdleIsTimed, NEW c \in Calls, ConnectUdp(c) PROVE IdleIsTimed'
<1>1. /\ mode # "tcp" /\ transport' = "udp" /\ Quiet /\ call[c].at = "udpStart" /\ mode' = mode
      /\ Idle \in CallRecord
  BY IdleRecord DEF ConnectUdp, Inv, Core, CallsOK, Awaits
<1>2. CASE udp # "open"
  <2>1. udp' = "opening"
    BY <1>2 DEF ConnectUdp
  <2>2. QED
    BY <1>1, <2>1, NotConnected, Looked
<1>3. CASE udp = "open" /\ call[c].kind # "ghost"
  <2>1. call'[c] = [call[c] EXCEPT !.at = "ready"]
    BY <1>3 DEF ConnectUdp, Inv, Core, ConnTyped
  <2>2. call'[c].at = "ready"
    BY <2>1 DEF Inv, Core, ConnTyped, CallRecord
  <2>3. QED
    BY <2>2, NowReady, Looked
<1>4. CASE udp = "open" /\ call[c].kind = "ghost" /\ mode # "auto"
  <2>1. c # "logout"
    BY <1>1, <1>4 DEF Kinds, LogoutPlace, Idle
  <2>2. /\ call' = [call EXCEPT ![c] = Idle] /\ transport' = transport
        /\ UNCHANGED <<mode, tcp, udp, pinging, permit, subs, sibling, registered,
                       active, unkicked, timer>>
    BY <1>1, <1>4 DEF ConnectUdp, ping, uses, idleVars, Inv, Core, ConnTyped, OneTransport
  <2>3. call'["logout"] = call["logout"]
    BY <2>1, <2>2 DEF Inv, Core, ConnTyped, Calls
  <2>4. Unused' => Unused
    BY <1>1, <2>2, <2>3, OneCallChanges
  <2>5. QED
    BY <2>2, <2>4, Undisturbed
<1>5. CASE mode = "auto"
  BY <1>1, <1>5, Looked
<1>6. QED
  BY <1>2, <1>3, <1>4, <1>5

LEMMA CallTimed ==
  ASSUME Inv, NEW c \in Calls,
         \/ GiveUpTcp(c) \/ UdpConnectFails(c) \/ Send(c) \/ TimesOut(c)
         \/ Reply(c) \/ Refused(c) \/ Closes(c)
  PROVE  IdleIsTimed'
<1>1. CASE GiveUpTcp(c)
  BY <1>1, Looked DEF GiveUpTcp
<1>2. CASE UdpConnectFails(c)
  <2>1. /\ mode' = mode /\ UNCHANGED <<udp, transport>> /\ udp = "opening"
        /\ mode # "auto" => transport = "udp"
    BY <1>2 DEF UdpConnectFails, conn, Inv, Core, ConnTyped, CallsOK, Awaits, OneTransport
  <2>2. QED
    BY <2>1, NotConnected, Looked
<1>3. CASE Send(c)
  <2>1. call'[c] = [call[c] EXCEPT !.at = "pending", !.via = transport]
    BY <1>3 DEF Send, Inv, Core, ConnTyped
  <2>2. call'[c].at = "pending"
    BY <2>1 DEF Inv, Core, ConnTyped, CallRecord
  <2>3. QED
    BY <2>2, NowPending, Looked
<1>4. CASE TimesOut(c) \/ Reply(c) \/ Refused(c)
  BY <1>4, Looked DEF TimesOut, Reply, Refused
<1>5. CASE Closes(c)
  <2>1. tcp' = "none" /\ udp' = "none"
    BY <1>5 DEF Closes, Teardown
  <2>2. QED
    BY <2>1, NotConnected, Looked
<1>6. QED
  BY <1>1, <1>2, <1>3, <1>4, <1>5

LEMMA SocketTimed ==
  ASSUME Inv, IdleIsTimed,
         \/ TcpConnects \/ UdpConnects \/ PeerVanishes \/ SendPing \/ PingAnswered
         \/ TcpFails \/ Close \/ PeerCloses \/ D2cDisc \/ PingFails \/ IdleTimer
  PROVE  IdleIsTimed'
<1>1. CASE Teardown([c \in Calls |-> Closed(c)])
  BY <1>1, NotConnected, Looked DEF Teardown
<1>2. CASE TcpConnects \/ UdpConnects \/ PingAnswered \/ TcpFails \/ PeerCloses \/ D2cDisc
           \/ PingFails
  BY <1>2, Looked DEF TcpConnects, UdpConnects, PingAnswered, TcpFails, PeerCloses, D2cDisc,
     PingFails, TcpGone, UdpGone
<1>3. CASE PeerVanishes
  <2>1. Unused' => Unused
    BY <1>3 DEF PeerVanishes, login, ping, uses, idleVars, Unused, Eligible, EligibleButPermit,
       Busy, Streaming, Waits, Connected, Quiet
  <2>2. QED
    BY <1>3, <2>1, Undisturbed DEF PeerVanishes, idleVars
<1>4. CASE SendPing
  <2>1. pinging'
    BY <1>4 DEF SendPing
  <2>2. ~Eligible'
    BY <2>1 DEF Eligible, EligibleButPermit, Busy
  <2>3. QED
    BY <2>2, Looked
<1>5. CASE IdleTimer
  <2>1. CASE ~Eligible /\ UNCHANGED <<mode, conn, login, call, ping, uses, unkicked>>
    <3>1. ~Eligible'
      BY <2>1 DEF conn, ping, uses, Eligible, EligibleButPermit, Busy, Streaming, Waits,
         Connected
    <3>2. QED
      BY <3>1, Looked
  <2>2. CASE Kick \/ Teardown([c \in Calls |-> Closed(c)])
    BY <2>2, <1>1, Looked
  <2>3. CASE Connect("logout", Call("logout", 0))
    <3>1. "logout" \in Calls /\ Call("logout", 0) \in Started
      BY ClientAssumption DEF Calls, Call, Started
    <3>2. PICK r \in CallRecord : /\ call' = [call EXCEPT !["logout"] = r]
                                  /\ r.at \in {"udpStart", "ready", "tcpWait"}
      BY <2>3, <3>1, ConnectCall
    <3>3. call'["logout"] # Idle
      BY <3>1, <3>2 DEF Idle, Inv, Core, ConnTyped
    <3>4. QED
      BY <3>3, Looked
  <2>4. QED
    BY <1>5, <2>1, <2>2, <2>3 DEF IdleTimer
<1>6. QED
  BY <1>1, <1>2, <1>3, <1>4, <1>5 DEF Close

LEMMA DeviceTimed ==
  ASSUME Inv,
         \/ SubscribeVideoStream \/ UnsubscribeVideoStream \/ AcquirePermit
         \/ ReleasePermit \/ SiblingStreams \/ SiblingStops \/ RequestIdleDisconnectSoon
  PROVE  IdleIsTimed'
<1>1. CASE AcquirePermit \/ SiblingStreams
  <2>1. permit' \/ sibling'
    BY <1>1 DEF AcquirePermit, SiblingStreams
  <2>2. ~Eligible'
    BY <2>1 DEF Eligible, EligibleButPermit, Streaming
  <2>3. QED
    BY <2>2, Looked
<1>2. CASE SiblingStops
  <2>1. CASE registered /\ ~subs
    BY <1>2, <2>1, Looked DEF SiblingStops
  <2>2. CASE ~registered \/ subs
    <3>1. ~registered' \/ subs'
      BY <1>2, <2>2 DEF SiblingStops
    <3>2. ~registered' \/ ~Eligible'
      BY <3>1 DEF Eligible, EligibleButPermit, Streaming
    <3>3. QED
      BY <3>2 DEF IdleIsTimed
  <2>3. QED
    BY <2>1, <2>2
<1>3. CASE SubscribeVideoStream \/ UnsubscribeVideoStream \/ ReleasePermit
           \/ RequestIdleDisconnectSoon
  BY <1>3, Looked DEF SubscribeVideoStream, UnsubscribeVideoStream, ReleasePermit,
     RequestIdleDisconnectSoon
<1>4. QED
  BY <1>1, <1>2, <1>3

TimerInv == NoTimer /\ Kinds /\ UdpInUse /\ IdleIsTimed

LEMMA TimerInit == Init => TimerInv
BY DEF Init, TimerInv, NoTimer, Kinds, OnlyLogins, LogoutPlace, UdpInUse, IdleIsTimed, Idle,
       Calls

LEMMA TimerNext ==
  ASSUME Inv, TimerInv, [Next]_vars PROVE TimerInv'
<1>1. CASE UNCHANGED vars
  <2>1. UNCHANGED <<mode, tcp, udp, transport, call, pinging, timer, active, permit, subs,
                    sibling, registered, unkicked>>
    BY <1>1 DEF vars, conn, ping, uses, idleVars
  <2>2. NoTimer' /\ Kinds' /\ UdpInUse'
    BY <2>1 DEF TimerInv, NoTimer, Kinds, OnlyLogins, LogoutPlace, UdpInUse
  <2>3. Unused' => Unused
    BY <2>1 DEF Unused, Eligible, EligibleButPermit, Busy, Streaming, Waits, Connected, Quiet
  <2>4. QED
    BY <2>1, <2>2, <2>3, Undisturbed DEF TimerInv
<1>2. CASE Next
  <2>1. NoTimer' /\ Kinds' /\ UdpInUse'
    BY <1>2, NoTimerNext, KindsNext, UdpInUseNext DEF TimerInv
  <2>2. Asking \subseteq Callers /\ Callers \subseteq Calls
    BY ClientAssumption DEF Asking, Calls
  <2>3. IdleIsTimed'
    BY <1>2, <2>2, BeginsTimed, DeadlineTimed, ConnectUdpTimed, CallTimed, SocketTimed,
       DeviceTimed DEF Next, CallStep, TimerInv
  <2>4. QED
    BY <2>1, <2>3 DEF TimerInv
<1>3. QED
  BY <1>1, <1>2

-----------------------------------------------------------------------------
\* The invariant holds in every reachable state.
THEOREM Invariance == Spec => []Inv
<1>1. Inv /\ [Next]_vars => Inv'
  BY NextCore, NextUses DEF Inv
<1>2. QED
  BY InitInv, <1>1, PTL DEF Spec

\* Every variable stays within the values the code can give it.
THEOREM TypeCorrect == Spec => []TypeOK
BY Invariance, InvTyped, PTL

\* A client with one transport says it is logged in only when the camera has
\* accepted a login on the socket that its requests use now.
THEOREM LoginIsTrue == Spec => []LoginTruth
BY Invariance, InvTruth, PTL

\* What a call waits for can still come: attempts are under way, a pending request
\* has its connection, and at most one call opens a UDP stream.
THEOREM NothingAwaitedIsGone == Spec => []WaitsForSomething
BY Invariance, InvWaits, PTL

\* However a client became idle, its idle timer is running, with the exceptions
\* that the property names.
THEOREM IdleTimerRuns == Spec => []IdleIsTimed
<1>1. Init => TimerInv
  BY TimerInit
<1>2. Inv /\ TimerInv /\ [Next]_vars => TimerInv'
  BY TimerNext
<1>3. TimerInv => IdleIsTimed
  BY DEF TimerInv
<1>4. QED
  BY <1>1, <1>2, <1>3, Invariance, PTL DEF Spec
=============================================================================
