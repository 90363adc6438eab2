---------------------------- MODULE BaichuanClient ----------------------------
(***************************************************************************)
(* One BaichuanClient: the connection its requests share, the login on it, *)
(* the keep-alive that finds a half-open one, close(), and the idle        *)
(* disconnect.                                                             *)
(*                                                                         *)
(* Every request first calls connect(), under a deadline that covers both; *)
(* a login calls it without one.  In auto mode each connect() tries TCP    *)
(* again, for 4 s, before it falls back to UDP.  Another client of the     *)
(* same device (a streaming socket) is only its share in the static        *)
(* registries.  Requests, the login (its two round trips are one) and the  *)
(* logout of an idle disconnect are calls; a call that is over is idle.    *)
(***************************************************************************)
EXTENDS Integers, FiniteSets

CONSTANTS
  Callers,       \* who sends requests and logs in
  Modes,         \* options.transport: "tcp", "udp" or "auto"
  AutoCallers,   \* bound: those of them that a client in auto mode has
  LoginAttempts  \* maxAttempts

ASSUME ClientAssumption ==
  /\ Modes \subseteq {"tcp", "udp", "auto"}
  /\ LoginAttempts \in Nat \ {0}
  /\ AutoCallers \subseteq Callers /\ "logout" \notin Callers

MaxPingFailures == 2    \* KEEPALIVE_MAX_PING_FAILURES

VARIABLES
  mode,
  tcp,         \* tcpSocket: "none", "connecting", "open", "dead" (the peer vanished)
  udp,         \* udpSocket: "none", "opening" (not connected), "open"
  transport,
  loggedIn,
  session,     \* the socket the camera has logged in: "none", "tcp", "udp"
  call,        \* how far each call is
  pinging, failures,          \* keepAlivePingInFlight, consecutiveKeepalivePingFailures
  timer,       \* idleDisconnectTimer: "off", "armed", "early" (activity since it was armed)
  active,      \* lastUserActivityAtMs is set
  permit,      \* some permit is held
  subs,        \* videoSubscriptions is not empty: the share in streamingRegistry
  sibling,     \* another client of the device streams
  registered,  \* registeredInDeviceClients
  unkicked     \* history: a request left pending without a kick of the idle timer

conn == <<tcp, udp, transport>>
login == <<loggedIn, session>>
ping == <<pinging, failures>>
uses == <<active, permit, subs, sibling, registered>>
idleVars == <<timer, unkicked>>
vars == <<mode, conn, login, call, ping, uses, idleVars>>

Calls == Callers \cup {"logout"}
Asking == IF mode = "auto" THEN AutoCallers ELSE Callers
Idle == [at |-> "idle", kind |-> "request", via |-> "none", left |-> 0]
Call(kind, left) == [at |-> "start", kind |-> kind, via |-> "none", left |-> left]

Waits(at) == {c \in Calls : call[c].at = at}
TcpThere == tcp \in {"open", "dead"}
\* A continuation runs before the next event.
Quiet == Waits("ready") = {} /\ Waits("failed") = {}

-----------------------------------------------------------------------------
(* The idle timer.                                                         *)

\* isSocketConnected(): a TCP socket that is connecting is not destroyed
Connected == IF transport = "tcp" THEN tcp # "none" ELSE udp = "open"
Busy == Waits("pending") # {} \/ pinging
Streaming == subs \/ sibling
EligibleButPermit == Connected /\ ~Busy /\ ~Streaming
\* isIdleDisconnectEligibleNow()
Eligible == EligibleButPermit /\ ~permit

\* kickIdleDisconnectTimer(), after all other changes of its step
Kick ==
  /\ timer' = IF Eligible' /\ active' THEN "armed" ELSE "off"
  /\ unkicked' = FALSE

\* touchUserActivity()
Touch ==
  /\ active' = TRUE
  /\ timer' = IF timer = "armed" THEN "early" ELSE timer
  /\ UNCHANGED unkicked

NoKick == UNCHANGED timer /\ unkicked' = TRUE

-----------------------------------------------------------------------------
(* What becomes of the calls when something happens to a connection.       *)

\* An awaited step failed: a login closes the client and tries again, the
\* logout is over, a request throws.
Failed(c) == IF call[c].kind \in {"login", "logout"} THEN [call[c] EXCEPT !.at = "failed"]
             ELSE Idle

\* Mutant: the pending requests are left to their timeouts.
Rejected_Forgotten(c) == call[c]

\* The 'close' handlers reject every pending request, whatever carried it.
Rejected(c) == IF call[c].at = "pending" THEN Failed(c) ELSE call[c]

\* Who awaits the connect() of a UDP stream that is closed is not told.
Abandoned(c) ==
  IF call[c].at # "udpWait" THEN Rejected(c)
  ELSE IF call[c].kind = "ghost" THEN Idle ELSE [call[c] EXCEPT !.at = "hung"]

\* A TCP connection that failed: in auto mode the next is UDP.
TcpRefused(c) ==
  IF call[c].at # "tcpWait" THEN Rejected(c)
  ELSE IF mode = "auto" THEN [call[c] EXCEPT !.at = "udpStart"] ELSE Failed(c)

\* The same with an error that says there is no route to the host: a login fails
\* fast, without its other attempts.
Unreachable(c) ==
  IF call[c].at = "tcpWait" /\ mode # "auto"
  THEN [Failed(c) EXCEPT !.left = 0] ELSE TcpRefused(c)

AllRefused == [c \in Calls |-> TcpRefused(c)]
AllUnreachable == [c \in Calls |-> Unreachable(c)]

\* Mutant: the flag survives the socket.
LoggedOut_KeepsFlag == UNCHANGED loggedIn

LoggedOut == loggedIn' = FALSE
SessionWithout(socket) == IF session = socket THEN "none" ELSE session

\* The 'close' handler of the TCP socket; video subscriptions stay.
TcpGone(calls) ==
  /\ tcp' = "none"
  /\ LoggedOut /\ session' = SessionWithout("tcp")
  /\ call' = calls
  /\ pinging' = FALSE
  /\ NoKick
  /\ UNCHANGED <<mode, udp, transport, uses>>

\* The D2C_DISC and 'close' handlers of the UDP stream.
UdpGone ==
  /\ udp' = "none"
  /\ LoggedOut /\ session' = SessionWithout("udp")
  /\ call' = [c \in Calls |-> Abandoned(c)]
  /\ subs' = FALSE /\ pinging' = FALSE
  /\ NoKick
  /\ UNCHANGED <<mode, tcp, transport, failures, active, permit, sibling, registered>>

\* close(), once the logout is over or skipped: the release of a permit may arm
\* the idle timer again, for the socket is closed after it.
Teardown(calls) ==
  /\ tcp' = "none" /\ udp' = "none"
  /\ LoggedOut /\ session' = "none"
  /\ call' = calls
  /\ timer' = IF permit /\ EligibleButPermit /\ active THEN "armed" ELSE "off"
  /\ permit' = FALSE /\ subs' = FALSE /\ registered' = FALSE
  /\ pinging' = FALSE /\ unkicked' = TRUE
  /\ UNCHANGED <<mode, transport, failures, active, sibling>>

\* The calls that a close() interrupts.
Closed(c) == IF call[c].at = "tcpWait" THEN TcpRefused(c) ELSE Abandoned(c)

-----------------------------------------------------------------------------
(* connect()                                                               *)

\* connectTcp(): joins an attempt, uses the socket, or starts an attempt
ConnectTcp(c, it) ==
  /\ UNCHANGED <<udp, login, subs>>
  /\ IF tcp = "connecting"
     THEN call' = [call EXCEPT ![c] = [it EXCEPT !.at = "tcpWait"]]
          /\ UNCHANGED <<tcp, transport, ping>>
     ELSE IF TcpThere
     THEN call' = [call EXCEPT ![c] = [it EXCEPT !.at = "ready"]]
          /\ transport' = "tcp" /\ UNCHANGED <<tcp, ping>>
     ELSE call' = [call EXCEPT ![c] = [it EXCEPT !.at = "tcpWait"]]
          /\ tcp' = "connecting" /\ transport' = "tcp"
          /\ failures' = 0 /\ UNCHANGED pinging

\* waitForUdpReconnectCooldown() comes before connectUdp()
Connect(c, it) ==
  IF mode = "udp"
  THEN call' = [call EXCEPT ![c] = [it EXCEPT !.at = "udpStart"]]
       /\ UNCHANGED <<conn, login, subs, ping>>
  ELSE ConnectTcp(c, it)

\* connectUdp(): uses the stream, or replaces one that is not connected
ConnectUdp(c) ==
  /\ Quiet /\ call[c].at = "udpStart"
  /\ transport' = "udp"
  /\ IF udp = "open"
     THEN /\ call' = [call EXCEPT ![c] = IF @.kind = "ghost" THEN Idle ELSE [@ EXCEPT !.at = "ready"]]
          /\ UNCHANGED <<udp, login, subs, ping, idleVars>>
     ELSE /\ udp' = "opening"
          /\ IF udp = "none"
             THEN call' = [call EXCEPT ![c].at = "udpWait"] /\ UNCHANGED <<login, subs, ping, idleVars>>
             ELSE /\ call' = [d \in Calls |-> IF d = c THEN [call[c] EXCEPT !.at = "udpWait"]
                                              ELSE Abandoned(d)]
                  /\ LoggedOut /\ session' = SessionWithout("udp")
                  /\ subs' = FALSE /\ pinging' = FALSE /\ UNCHANGED failures
                  /\ NoKick
  /\ UNCHANGED <<mode, tcp, active, permit, sibling, registered>>

\* The attempt has its socket: doConnectTcp() registers the client again.
TcpConnects ==
  /\ Quiet /\ tcp = "connecting" /\ tcp' = "open"
  /\ call' = [c \in Calls |-> IF call[c].at # "tcpWait" THEN call[c]
                              ELSE IF call[c].kind = "ghost" THEN Idle
                              ELSE [call[c] EXCEPT !.at = "ready"]]
  /\ registered' = TRUE
  /\ UNCHANGED <<mode, udp, transport, login, ping, active, permit, subs, sibling>>
  /\ Kick

TcpFails ==
  /\ Quiet /\ tcp = "connecting"
  /\ TcpGone(AllRefused) \/ TcpGone(AllUnreachable)
  /\ UNCHANGED failures

\* auto: 4 s are over; the attempt goes on
GiveUpTcp(c) ==
  /\ Quiet /\ mode = "auto" /\ call[c].at = "tcpWait"
  /\ call' = [call EXCEPT ![c].at = "udpStart"]
  /\ UNCHANGED <<mode, conn, login, ping, uses, idleVars>>

\* The stream is connected; connectUdp() does not register the client again.
UdpConnects ==
  /\ Quiet /\ udp = "opening" /\ udp' = "open"
  /\ call' = [c \in Calls |-> IF call[c].at # "udpWait" THEN call[c]
                              ELSE IF call[c].kind = "ghost" THEN Idle
                              ELSE [call[c] EXCEPT !.at = "ready"]]
  /\ UNCHANGED <<mode, tcp, transport, login, ping, uses>>
  /\ Kick

\* Discovery failed; the stream object stays until the next connectUdp().
UdpConnectFails(c) ==
  /\ Quiet /\ call[c].at = "udpWait"
  /\ call' = [call EXCEPT ![c] = Failed(c)]
  /\ UNCHANGED <<mode, conn, login, ping, uses, idleVars>>

\* connectWithDeadline() rejects; the connect() it gave up on goes on.
Deadline(c) ==
  /\ Quiet /\ call[c].kind \in {"request", "logout"}
  /\ call[c].at \in {"tcpWait", "udpStart", "udpWait", "hung"}
  /\ call' = [call EXCEPT ![c] = IF @.kind = "logout" THEN Failed(c)
                                 ELSE IF @.at = "hung" THEN Idle
                                 ELSE [@ EXCEPT !.kind = "ghost"]]
  /\ loggedIn' = (loggedIn /\ call[c].kind # "logout")
  /\ UNCHANGED <<mode, conn, session, ping, uses, idleVars>>

-----------------------------------------------------------------------------
(* Requests, logins and the logout.                                        *)

\* sendXml(), sendFrame()
Request(c) ==
  /\ Quiet /\ call[c].at = "idle"
  /\ Connect(c, Call("request", 0))
  /\ Touch
  /\ UNCHANGED <<mode, permit, sibling, registered>>

\* login(); its first frame is no user activity, the second is
Login(c) ==
  /\ Quiet /\ call[c].at = "idle" /\ ~loggedIn
  /\ Connect(c, Call("login", LoginAttempts - 1))
  /\ UNCHANGED <<mode, active, permit, sibling, registered, idleVars>>

\* 1.5 s after a failed attempt
LoginAgain(c) ==
  /\ Quiet /\ call[c].at = "backoff"
  /\ Connect(c, call[c])
  /\ UNCHANGED <<mode, active, permit, sibling, registered, idleVars>>

\* writeWire() of a connected call: the idle timer is kicked before the request
\* is pending.
Send(c) ==
  /\ call[c].at = "ready"
  /\ call' = [call EXCEPT ![c].at = "pending", ![c].via = transport]
  /\ active' = TRUE
  /\ timer' = IF Eligible THEN "armed" ELSE "off"
  /\ unkicked' = FALSE
  /\ UNCHANGED <<mode, conn, login, ping, permit, subs, sibling, registered>>

Reachable(c) == IF call[c].via = "tcp" THEN tcp = "open" ELSE udp = "open"

\* The reply to a request, or to a login that is accepted.
Reply(c) ==
  /\ Quiet /\ call[c].at = "pending" /\ call[c].kind # "logout" /\ Reachable(c)
  /\ call' = [call EXCEPT ![c] = Idle]
  /\ IF call[c].kind = "login" THEN loggedIn' = TRUE /\ session' = call[c].via
     ELSE UNCHANGED login
  /\ UNCHANGED <<mode, conn, ping, uses>>
  /\ Kick

\* The reply to a logout, or one that is an error: it is thrown without a kick.
Refused(c) ==
  /\ Quiet /\ call[c].at = "pending" /\ Reachable(c)
  /\ call' = [call EXCEPT ![c] = Failed(c)]
  /\ loggedIn' = (loggedIn /\ call[c].kind # "logout")
  /\ session' = IF call[c].kind = "logout" THEN SessionWithout(call[c].via) ELSE session
  /\ NoKick
  /\ UNCHANGED <<mode, conn, ping, uses>>

TimesOut(c) ==
  /\ Quiet /\ call[c].at = "pending"
  /\ call' = [call EXCEPT ![c] = Failed(c)]
  /\ loggedIn' = (loggedIn /\ call[c].kind # "logout")
  /\ NoKick
  /\ UNCHANGED <<mode, conn, session, ping, uses>>

\* Mutant: the attempts are not counted.
TriesAgain_Forever(c) == call[c].kind = "login"

TriesAgain(c) == call[c].kind = "login" /\ call[c].left > 0

\* A failed attempt of a login closes the client, without a logout; so does the
\* end of the logout of an idle disconnect.
Closes(c) ==
  /\ call[c].at = "failed"
  /\ Teardown([d \in Calls |->
       IF d # c THEN Closed(d)
       ELSE IF TriesAgain(c)
       THEN [call[c] EXCEPT !.at = "backoff", !.left = @ - 1] ELSE Idle])

\* close() by the pool or the owner, which skips the logout
Close == Quiet /\ Teardown([c \in Calls |-> Closed(c)])

-----------------------------------------------------------------------------
(* The sockets, keep-alive and what uses the device.                       *)

PeerCloses == Quiet /\ TcpThere /\ TcpGone(AllRefused) /\ UNCHANGED failures
D2cDisc == Quiet /\ udp = "open" /\ UdpGone

PeerVanishes ==
  /\ Quiet /\ tcp = "open" /\ tcp' = "dead"
  /\ UNCHANGED <<mode, udp, transport, login, call, ping, uses, idleVars>>

\* The keep-alive timer of TCP
SendPing ==
  /\ Quiet /\ transport = "tcp" /\ TcpThere /\ loggedIn /\ ~pinging
  /\ pinging' = TRUE
  /\ UNCHANGED <<mode, conn, login, call, failures, uses, idleVars>>

PingAnswered ==
  /\ Quiet /\ pinging /\ tcp = "open"
  /\ pinging' = FALSE /\ failures' = 0
  /\ NoKick
  /\ UNCHANGED <<mode, conn, login, call, uses>>

\* Mutant: an unanswered ping is not counted.
MoreFailures_Forgotten == failures

MoreFailures == IF failures < MaxPingFailures THEN failures + 1 ELSE failures

\* The second unanswered ping in a row destroys the socket; the count begins anew.
PingFails ==
  /\ Quiet /\ pinging
  /\ IF transport = "tcp" /\ MoreFailures = MaxPingFailures /\ tcp # "none"
     THEN TcpGone(AllRefused) /\ failures' = 0
     ELSE /\ failures' = MoreFailures
          /\ pinging' = FALSE /\ NoKick
          /\ UNCHANGED <<mode, conn, login, call, uses>>

SubscribeVideoStream ==
  /\ Quiet /\ loggedIn /\ ~subs /\ subs' = TRUE
  /\ UNCHANGED <<mode, conn, login, call, ping, active, permit, sibling, registered>>
  /\ Kick

UnsubscribeVideoStream ==
  /\ Quiet /\ subs /\ subs' = FALSE
  /\ UNCHANGED <<mode, conn, login, call, ping, active, permit, sibling, registered>>
  /\ Kick

AcquirePermit ==
  /\ Quiet /\ ~permit /\ permit' = TRUE
  /\ timer' = "off"
  /\ UNCHANGED <<mode, conn, login, call, ping, active, subs, sibling, registered, unkicked>>

ReleasePermit ==
  /\ Quiet /\ permit /\ permit' = FALSE
  /\ UNCHANGED <<mode, conn, login, call, ping, active, subs, sibling, registered>>
  /\ Kick

SiblingStreams ==
  /\ Quiet /\ ~sibling /\ sibling' = TRUE
  /\ UNCHANGED <<mode, conn, login, call, ping, active, permit, subs, registered, idleVars>>

\* Mutant: the others of the device are not told.
SiblingStops_KicksNobody ==
  /\ Quiet /\ sibling /\ sibling' = FALSE
  /\ UNCHANGED <<mode, conn, login, call, ping, active, permit, subs, registered, idleVars>>

\* recomputeGlobalStreamingContribution() of the sibling kicks who is registered.
SiblingStops ==
  /\ Quiet /\ sibling /\ sibling' = FALSE
  /\ UNCHANGED <<mode, conn, login, call, ping, active, permit, subs, registered>>
  /\ IF registered /\ ~subs THEN Kick ELSE UNCHANGED idleVars

RequestIdleDisconnectSoon ==
  /\ Quiet /\ transport = "udp"
  /\ active' = TRUE
  /\ UNCHANGED <<mode, conn, login, call, ping, permit, subs, sibling, registered>>
  /\ Kick

\* The idle timer: blocked, armed again, or close() with its logout.
IdleTimer ==
  /\ Quiet /\ timer # "off"
  /\ IF ~Eligible
     THEN /\ timer' = "off"
          /\ UNCHANGED <<mode, conn, login, call, ping, uses, unkicked>>
     ELSE IF timer = "early"
     THEN /\ UNCHANGED <<mode, conn, login, call, ping, uses>> /\ Kick
     ELSE IF loggedIn
     THEN /\ call["logout"].at = "idle"
          /\ Connect("logout", Call("logout", 0))
          /\ timer' = "off" /\ UNCHANGED unkicked
          /\ UNCHANGED <<mode, active, permit, sibling, registered>>
     ELSE Teardown([c \in Calls |-> Closed(c)])

-----------------------------------------------------------------------------
Init ==
  /\ mode \in Modes
  /\ tcp = "none" /\ udp = "none"
  /\ transport = IF mode = "udp" THEN "udp" ELSE "tcp"
  /\ loggedIn = FALSE /\ session = "none"
  /\ call = [c \in Calls |-> Idle]
  /\ pinging = FALSE /\ failures = 0
  /\ timer = "off" /\ active = FALSE /\ unkicked = FALSE
  /\ permit = FALSE /\ subs = FALSE /\ sibling = FALSE /\ registered = TRUE

CallStep(c) ==
  \/ ConnectUdp(c) \/ GiveUpTcp(c) \/ UdpConnectFails(c) \/ Deadline(c)
  \/ LoginAgain(c) \/ Send(c) \/ TimesOut(c) \/ Closes(c)

Next ==
  \/ \E c \in Asking : Request(c) \/ Login(c)
  \/ \E c \in Calls : CallStep(c) \/ Reply(c) \/ Refused(c)
  \/ TcpConnects \/ TcpFails \/ UdpConnects
  \/ Close \/ PeerCloses \/ D2cDisc \/ PeerVanishes
  \/ SendPing \/ PingAnswered \/ PingFails
  \/ SubscribeVideoStream \/ UnsubscribeVideoStream \/ AcquirePermit \/ ReleasePermit
  \/ SiblingStreams \/ SiblingStops \/ RequestIdleDisconnectSoon \/ IdleTimer

Continues == \E c \in Calls : Send(c) \/ Closes(c)

\* Continuations run; the keep-alive timer keeps ticking, and a vanished peer
\* answers no ping.  SF, since continuations run before the next event.
Fairness ==
  WF_vars(Continues) /\ SF_vars(SendPing) /\ SF_vars(tcp = "dead" /\ PingFails)

Spec == Init /\ [][Next]_vars /\ Fairness

-----------------------------------------------------------------------------
(* Properties.                                                             *)

Places == {"idle", "tcpWait", "udpStart", "udpWait", "ready", "pending", "failed",
           "backoff", "hung"}

\* Every variable stays within the values the code can give it.
TypeOK ==
  /\ mode \in Modes
  /\ tcp \in {"none", "connecting", "open", "dead"}
  /\ udp \in {"none", "opening", "open"}
  /\ transport \in {"tcp", "udp"}
  /\ loggedIn \in BOOLEAN /\ session \in {"none", "tcp", "udp"}
  /\ \A c \in Calls :
       /\ call[c].at \in Places /\ call[c].kind \in {"request", "login", "logout", "ghost"}
       /\ call[c].via \in {"none", "tcp", "udp"} /\ call[c].left \in 0 .. LoginAttempts
  /\ pinging \in BOOLEAN /\ failures \in 0 .. MaxPingFailures
  /\ timer \in {"off", "armed", "early"} /\ unkicked \in BOOLEAN
  /\ {active, permit, subs, sibling, registered} \subseteq BOOLEAN

\* A client with one transport that says it is logged in is: the camera has
\* accepted a login on the very socket that its requests use now.
LoginTruth ==
  loggedIn /\ mode # "auto" => session = transport /\ Connected

\* A connected client that nothing uses has its idle timer running, however it
\* became idle - except that a request that ends without a reply, or a ping,
\* does not arm it, and a client that is not registered is not told that the
\* streams of its siblings ended.
IdleIsTimed ==
  /\ Eligible /\ tcp # "connecting" /\ active /\ registered /\ ~unkicked
  /\ Quiet /\ call["logout"] = Idle /\ mode # "auto"
  => timer # "off"

\* What a call waits for can still come.  A call that awaits a connection awaits
\* an attempt that is under way, and ends with it - but for a login whose UDP
\* stream another call, or close(), took away: nothing ends it (a request in its
\* place has a deadline).  A pending request still has the connection it was
\* sent on; nobody waits out a timeout for a socket that is gone.  That is not
\* said of auto mode, in which connect() may change the transport meanwhile.
WaitsForSomething ==
  /\ \A c \in Calls :
       /\ call[c].at = "tcpWait" => tcp = "connecting"
       /\ call[c].at = "udpWait" => udp = "opening"
       /\ call[c].at = "hung" => mode # "tcp" /\ call[c].kind # "ghost"
       /\ call[c].at = "pending" /\ mode # "auto" =>
            (IF call[c].via = "tcp" THEN TcpThere ELSE udp = "open")
  /\ Cardinality(Waits("udpWait")) <= 1

\* A half-open TCP connection with a login on it does not stay: two unanswered
\* pings make a 'close' of it.
HalfOpenDies ==
  tcp = "dead" /\ loggedIn /\ mode = "tcp" ~> tcp # "dead" \/ ~loggedIn

\* An idle disconnect does not close the client of a device that streams on
\* another client: what began while its logout was awaited is noticed.
IdleCloseSparesStreams ==
  [][call["logout"].at = "failed" /\ call'["logout"] = Idle => ~sibling]_vars
=============================================================================
