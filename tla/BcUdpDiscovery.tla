---------------------------- MODULE BcUdpDiscovery ----------------------------
(***************************************************************************)
(* connect() of class BcUdpStream with a local discovery method: bind,     *)
(* (optionally) probe the egress interface, send C2D_C until the camera    *)
(* answers with D2C_CR, D2C_T or D2C_CFM, let the T/A handshake settle,    *)
(* and start the timers of the data path; close() at any moment.           *)
(*                                                                         *)
(* Time is discrete (one tick stands for 250 ms) because the class decides *)
(* by which of its four timers fires first.  A timer is the number of      *)
(* ticks left, or Off; time does not pass while a timer is due.            *)
(***************************************************************************)
EXTENDS Integers

CONSTANTS
  Replies,        \* the kinds of answers this camera sends
  UsesProbe,      \* local-direct with a known host: connect() awaits a probe
  FinalizeDelay,  \* 250 ms: room for a CFM after A
  CrWindow,       \* 1500 ms: room for D2C_T after a CR with a session id
  RetryInterval,  \* 500 ms between two rounds of C2D_C
  Timeout,        \* 15 s: discovery gives up
  MaxReplies,     \* bound: answers the camera sends
  MayClose        \* the owner may close the stream

ASSUME DiscoveryAssumption ==
  /\ Replies \subseteq {"cr", "cr_sid", "t", "cfm", "cfm_ids"}
  /\ UsesProbe \in BOOLEAN /\ MayClose \in BOOLEAN
  /\ FinalizeDelay \in Nat \ {0} /\ RetryInterval \in Nat \ {0}
  /\ CrWindow \in Nat /\ CrWindow > FinalizeDelay
  /\ Timeout \in Nat /\ Timeout > CrWindow + FinalizeDelay
  /\ MaxReplies \in Nat

VARIABLES
  phase,          \* where connect() is: "binding", "probing", "discovering", "done"
  result,         \* of the connect() promise: "pending", "connected", "failed"
  sock,           \* this.sock is defined
  timeout,        \* discoveryTimeout timer
  retryTimer,     \* interval of sendDiscovery
  finalizeTimer,  \* [kind, left]; kind "unset" while the variable is undefined
  listening,      \* onMsg is attached
  discovered,     \* the camera's ids and address are known
  discoveredSid,  \* a session id is known
  sentT, gotT, sentA,
  dataTimers,     \* ackTimer, resendTimer and hbTimer run
  replies,        \* history: answers received
  firstAnswer     \* history: ticks left on the timeout when first discovered

vars == <<phase, result, sock, timeout, retryTimer, finalizeTimer, listening,
          discovered, discoveredSid, sentT, gotT, sentA, dataTimers, replies,
          firstAnswer>>
handshakeVars == <<discovered, discoveredSid, sentT, gotT, sentA, replies, firstAnswer>>

Off == -1
Unset == [kind |-> "unset", left |-> Off]

-----------------------------------------------------------------------------
\* connect(): the socket is created and bound.  When close() comes first the
\* callback of bind() is never called.
Bound ==
  /\ phase = "binding" /\ sock
  /\ phase' = IF UsesProbe THEN "probing" ELSE "discovering"
  /\ IF UsesProbe
     THEN UNCHANGED <<timeout, retryTimer, listening>>
     ELSE timeout' = Timeout /\ retryTimer' = RetryInterval /\ listening' = TRUE
  /\ UNCHANGED <<result, sock, finalizeTimer, handshakeVars, dataTimers>>

\* The socket reports an error instead, and connect() is rejected; the stream
\* stays open.
BindFails ==
  /\ phase = "binding" /\ sock
  /\ phase' = "done" /\ result' = "failed"
  /\ UNCHANGED <<sock, timeout, retryTimer, finalizeTimer, listening, handshakeVars,
                 dataTimers>>

\* The best-effort probe of probeEgressForHost() returns or fails; the timers
\* are armed whether or not the stream was closed meanwhile.
Probed ==
  /\ phase = "probing"
  /\ phase' = "discovering"
  /\ timeout' = Timeout /\ retryTimer' = RetryInterval /\ listening' = TRUE
  /\ UNCHANGED <<result, sock, finalizeTimer, handshakeVars, dataTimers>>

\* Mutant: a session id is required to proceed.
MaybeFinalize_NeedsSid(known, timer) ==
  IF known /\ discoveredSid /\ timer.kind = "unset"
  THEN [kind |-> "finalize", left |-> FinalizeDelay]
  ELSE timer

\* maybeFinalize(): arms the delay unless some finalize timer was ever set.
MaybeFinalize(known, timer) ==
  IF known /\ timer.kind = "unset"
  THEN [kind |-> "finalize", left |-> FinalizeDelay]
  ELSE timer

\* An answer is read: the socket is open and onMsg is attached.
Answer(kind) ==
  /\ kind \in Replies
  /\ replies < MaxReplies
  /\ phase = "discovering" /\ listening /\ sock
  /\ replies' = replies + 1
  /\ firstAnswer' = IF ~discovered /\ discovered' THEN timeout ELSE firstAnswer
  /\ UNCHANGED <<phase, result, sock, timeout, retryTimer, listening, dataTimers>>

\* D2C_CFM, with or without the ids: "the session is established".
RecvCfm ==
  \E kind \in {"cfm", "cfm_ids"} :
    /\ discovered' = (discovered \/ kind = "cfm_ids")
    /\ Answer(kind)
    /\ discoveredSid' = TRUE
    /\ sentT' = (sentT \/ discovered')
    /\ finalizeTimer' = MaybeFinalize(discovered', finalizeTimer)
    /\ UNCHANGED <<gotT, sentA>>

\* D2C_T: answered by one C2D_A.
RecvT ==
  /\ discovered' = TRUE
  /\ Answer("t")
  /\ gotT' = TRUE /\ discoveredSid' = TRUE
  /\ sentA' = TRUE
  /\ finalizeTimer' = MaybeFinalize(TRUE, finalizeTimer)
  /\ UNCHANGED sentT

\* Mutant: a further CR extends the window that is open, instead of a new one.
RecvCr_ExtendsWindow ==
  \E kind \in {"cr", "cr_sid"} :
    /\ discovered' = TRUE
    /\ Answer(kind)
    /\ discoveredSid' = (discoveredSid \/ kind = "cr_sid")
    /\ sentT' = (sentT \/ discoveredSid')
    /\ finalizeTimer' =
         IF ~(discoveredSid' /\ ~gotT /\ ~sentA) THEN MaybeFinalize(TRUE, finalizeTimer)
         ELSE IF finalizeTimer.kind = "cr_timeout" /\ finalizeTimer.left # Off
         THEN [finalizeTimer EXCEPT !.left = @ + CrWindow]
         ELSE [kind |-> "cr_timeout", left |-> CrWindow]
    /\ UNCHANGED <<gotT, sentA>>

\* D2C_CR: finalize at once after T/A or when no session id is known, else
\* replace the timer by a window in which D2C_T may come.
RecvCr ==
  \E kind \in {"cr", "cr_sid"} :
    /\ discovered' = TRUE
    /\ Answer(kind)
    /\ discoveredSid' = (discoveredSid \/ kind = "cr_sid")
    /\ sentT' = (sentT \/ discoveredSid')
    /\ finalizeTimer' = IF discoveredSid' /\ ~gotT /\ ~sentA
                        THEN [kind |-> "cr_timeout", left |-> CrWindow]
                        ELSE MaybeFinalize(TRUE, finalizeTimer)
    /\ UNCHANGED <<gotT, sentA>>

-----------------------------------------------------------------------------
(* Timers.                                                                 *)

\* The window after a CR ends: maybeFinalize("cr_timeout").
FireCrWindow ==
  /\ finalizeTimer.kind = "cr_timeout" /\ finalizeTimer.left = 0
  /\ finalizeTimer' = MaybeFinalize(discovered, [finalizeTimer EXCEPT !.left = Off])
  /\ UNCHANGED <<phase, result, sock, timeout, retryTimer, listening,
                 handshakeVars, dataTimers>>

\* Mutant: startTimers() does not look at the socket.
FireFinalize_Unchecked ==
  /\ finalizeTimer.kind = "finalize" /\ finalizeTimer.left = 0
  /\ finalizeTimer' = [finalizeTimer EXCEPT !.left = Off]
  /\ listening' = FALSE /\ timeout' = Off /\ retryTimer' = Off
  /\ phase' = "done" /\ result' = "connected" /\ dataTimers' = TRUE
  /\ UNCHANGED <<sock, handshakeVars>>

\* The delay ends: discovery resolves and connect() goes on with
\* startTimers(), which throws when the stream was closed meanwhile.  When the
\* promise is already rejected only the clean-up happens.
FireFinalize ==
  /\ finalizeTimer.kind = "finalize" /\ finalizeTimer.left = 0
  /\ finalizeTimer' = [finalizeTimer EXCEPT !.left = Off]
  /\ listening' = FALSE /\ timeout' = Off /\ retryTimer' = Off
  /\ phase' = "done"
  /\ result' = IF result # "pending" THEN result
               ELSE IF sock THEN "connected" ELSE "failed"
  /\ dataTimers' = (dataTimers \/ (result = "pending" /\ sock))
  /\ UNCHANGED <<sock, handshakeVars>>

\* Mutant: the promise is not rejected.
FireTimeout_Silent ==
  /\ timeout = 0
  /\ timeout' = Off /\ retryTimer' = Off /\ listening' = FALSE
  /\ UNCHANGED <<phase, result, sock, finalizeTimer, handshakeVars, dataTimers>>

\* The 15 s are over: discovery is rejected, and connect() with it.
FireTimeout ==
  /\ timeout = 0
  /\ timeout' = Off /\ retryTimer' = Off /\ listening' = FALSE
  /\ phase' = "done"
  /\ result' = "failed"
  /\ UNCHANGED <<sock, finalizeTimer, handshakeVars, dataTimers>>

\* sendDiscovery() again; a send on a closed socket is ignored.
FireRetry ==
  /\ retryTimer = 0
  /\ retryTimer' = RetryInterval
  /\ UNCHANGED <<phase, result, sock, timeout, finalizeTimer, listening,
                 handshakeVars, dataTimers>>

\* close(): the data timers and the recorded discovery timers stop.
Close ==
  /\ MayClose /\ sock
  /\ sock' = FALSE
  /\ dataTimers' = FALSE
  /\ timeout' = Off /\ retryTimer' = Off
  /\ UNCHANGED <<phase, result, finalizeTimer, listening, handshakeVars>>

Armed == {timeout, retryTimer, finalizeTimer.left} \ {Off}

Less(t) == IF t = Off THEN Off ELSE t - 1

\* One tick passes; no timer is due.
Tick ==
  /\ Armed # {} /\ 0 \notin Armed
  /\ timeout' = Less(timeout)
  /\ retryTimer' = Less(retryTimer)
  /\ finalizeTimer' = [finalizeTimer EXCEPT !.left = Less(finalizeTimer.left)]
  /\ UNCHANGED <<phase, result, sock, listening, handshakeVars, dataTimers>>

-----------------------------------------------------------------------------
Init ==
  /\ phase = "binding" /\ result = "pending" /\ sock = TRUE
  /\ timeout = Off /\ retryTimer = Off /\ finalizeTimer = Unset
  /\ listening = FALSE
  /\ discovered = FALSE /\ discoveredSid = FALSE
  /\ sentT = FALSE /\ gotT = FALSE /\ sentA = FALSE
  /\ dataTimers = FALSE
  /\ replies = 0 /\ firstAnswer = Off

TimerStep == FireCrWindow \/ FireFinalize \/ FireTimeout \/ FireRetry \/ Tick

Bind == Bound \/ BindFails

Next == Bind \/ Probed \/ RecvCfm \/ RecvT \/ RecvCr \/ TimerStep \/ Close

Spec == Init /\ [][Next]_vars

(* Node calls back after bind() and the probe, and runs due timers. *)
FairSpec ==
  /\ Spec
  /\ WF_vars(Bind) /\ WF_vars(Probed) /\ WF_vars(Tick)
  /\ WF_vars(FireCrWindow) /\ WF_vars(FireFinalize)
  /\ WF_vars(FireTimeout) /\ WF_vars(FireRetry)

-----------------------------------------------------------------------------
(* Properties.                                                             *)

\* Type invariant of the discovery state; no timer is armed beyond its delay, also
\* when answers arm one anew while it runs.
TypeOK ==
  /\ phase \in {"binding", "probing", "discovering", "done"}
  /\ result \in {"pending", "connected", "failed"}
  /\ timeout \in Off .. Timeout /\ retryTimer \in Off .. RetryInterval
  /\ finalizeTimer \in [kind : {"unset", "finalize", "cr_timeout"}, left : Off .. CrWindow]
  /\ {sock, listening, discovered, discoveredSid, sentT, gotT, sentA, dataTimers}
       \subseteq BOOLEAN
  /\ replies \in 0 .. MaxReplies /\ firstAnswer \in Off .. Timeout

\* A camera that answered in time is used: connect() fails on an open stream
\* only if the camera had not answered before the last moments of the timeout
\* (discoveryUidLocal: "If it doesn't, we'll finalize shortly anyway").
AnswerUsed ==
  result = "failed" /\ sock => firstAnswer <= CrWindow + FinalizeDelay

\* The same for a camera to whose D2C_CR no window for D2C_T was opened.
AnswerUsedUnlessWindow ==
  finalizeTimer.kind # "cr_timeout" => AnswerUsed

\* Timers match the outcome.  Once connect() has settled the discovery has
\* stopped: no retry that would keep probing a camera in use, no second outcome
\* from the timeout.  The data timers run exactly while a connected stream is
\* open, although the finalize delay may end after close().
TimersMatchOutcome ==
  /\ result # "pending" => timeout = Off /\ retryTimer = Off /\ ~listening
  /\ dataTimers <=> sock /\ result = "connected"

\* connect() settles, unless the stream is closed under it.
ConnectSettles == result = "pending" ~> (result # "pending" \/ ~sock)
=============================================================================
