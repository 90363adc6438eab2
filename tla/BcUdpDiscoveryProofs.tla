------------------------ MODULE BcUdpDiscoveryProofs ------------------------
(***************************************************************************)
(* The outcome of the local discovery and the timers that decide it, for   *)
(* every choice of the delays, of the answers a camera sends and of their  *)
(* number.                                                                 *)
(***************************************************************************)
EXTENDS BcUdpDiscovery, TLAPS

-----------------------------------------------------------------------------
(* The inductive invariant.                                                *)

FlagsTyped ==
  /\ sock \in BOOLEAN /\ listening \in BOOLEAN /\ dataTimers \in BOOLEAN
  /\ discovered \in BOOLEAN /\ discoveredSid \in BOOLEAN
  /\ sentT \in BOOLEAN /\ gotT \in BOOLEAN /\ sentA \in BOOLEAN

TimersTyped ==
  /\ timeout \in Off .. Timeout /\ retryTimer \in Off .. RetryInterval
  /\ finalizeTimer \in [kind : {"unset", "finalize", "cr_timeout"}, left : Off .. CrWindow]
  /\ replies \in 0 .. MaxReplies /\ firstAnswer \in Off .. Timeout

\* connect() has settled exactly when it is done, and until it discovers there
\* is neither a timer nor an answer.
Outcome ==
  /\ phase \in {"binding", "probing", "discovering", "done"}
  /\ result \in {"pending", "connected", "failed"}
  /\ phase = "done" <=> result # "pending"
  /\ phase \in {"binding", "probing"} =>
       timeout = Off /\ retryTimer = Off /\ ~listening /\ ~discovered

\* An open stream that discovers has its timeout.
Bounded == phase = "discovering" /\ sock => timeout # Off

\* The finalize delay is armed by the answer that makes the camera known and
\* runs beside the timeout from then on; only a window after a CR replaces it.
InStep ==
  /\ finalizeTimer.kind = "unset" <=> ~discovered
  /\ ~discovered => firstAnswer = Off
  /\ finalizeTimer.kind = "finalize" /\ phase = "discovering" =>
       finalizeTimer.left # Off
  /\ finalizeTimer.kind = "finalize" /\ phase = "discovering" /\ sock =>
       firstAnswer - timeout = FinalizeDelay - finalizeTimer.left

Inv ==
  /\ FlagsTyped /\ TimersTyped /\ Outcome /\ Bounded /\ InStep
  /\ TimersMatchOutcome /\ AnswerUsedUnlessWindow

LEMMA InvTyped == Inv => TypeOK
<1> SUFFICES ASSUME Inv PROVE TypeOK
  OBVIOUS
<1>1. {sock, listening, discovered, discoveredSid, sentT, gotT, sentA, dataTimers}
        \subseteq BOOLEAN
  BY DEF Inv, FlagsTyped
<1>2. QED
  BY <1>1 DEF Inv, TimersTyped, Outcome, TypeOK

LEMMA InitInv == Init => Inv
<1> SUFFICES ASSUME Init PROVE Inv
  OBVIOUS
<1> USE DiscoveryAssumption DEF Init, Off
<1>1. FlagsTyped
  BY DEF FlagsTyped
<1>2. TimersTyped
  BY DEF TimersTyped, Unset
<1>3. Outcome /\ Bounded
  BY DEF Outcome, Bounded
<1>4. InStep
  BY DEF InStep, Unset
<1>5. TimersMatchOutcome /\ AnswerUsedUnlessWindow
  BY DEF TimersMatchOutcome, AnswerUsedUnlessWindow, AnswerUsed
<1>6. QED
  BY <1>1, <1>2, <1>3, <1>4, <1>5 DEF Inv

-----------------------------------------------------------------------------
(* One lemma per kind of step.                                             *)

\* connect() goes on to the probe or to the discovery.
LEMMA BeginInv == Inv /\ (Bound \/ Probed) => Inv'
<1> SUFFICES ASSUME Inv, Bound \/ Probed PROVE Inv'
  OBVIOUS
<1> USE DiscoveryAssumption DEF Off
<1>1. /\ UNCHANGED <<result, sock, finalizeTimer, discovered, discoveredSid,
                     sentT, gotT, sentA, replies, firstAnswer, dataTimers>>
      /\ phase \in {"binding", "probing"}
      /\ \/ phase' = "probing" /\ UNCHANGED <<timeout, retryTimer, listening>>
         \/ /\ phase' = "discovering" /\ timeout' = Timeout
            /\ retryTimer' = RetryInterval /\ listening' = TRUE
  BY DEF Bound, Probed, handshakeVars
<1>2. result = "pending" /\ ~dataTimers
  BY <1>1 DEF Inv, Outcome, TimersMatchOutcome
<1>3. FlagsTyped' /\ TimersTyped'
  <2>1. FlagsTyped'
    BY <1>1 DEF Inv, FlagsTyped
  <2>2. TimersTyped'
    BY <1>1 DEF Inv, TimersTyped
  <2>3. QED
    BY <2>1, <2>2
<1>4. Outcome' /\ Bounded'
  BY <1>1, <1>2 DEF Inv, Outcome, Bounded
<1>5. InStep'
  BY <1>1 DEF Inv, InStep, Outcome
<1>6. TimersMatchOutcome' /\ AnswerUsedUnlessWindow'
  BY <1>1, <1>2 DEF Inv, TimersMatchOutcome, AnswerUsedUnlessWindow, AnswerUsed
<1>7. QED
  BY <1>3, <1>4, <1>5, <1>6 DEF Inv

\* connect() fails before it discovers anything.
LEMMA BindFailsInv == Inv /\ BindFails => Inv'
<1> SUFFICES ASSUME Inv, BindFails PROVE Inv'
  OBVIOUS
<1>1. /\ phase = "binding" /\ phase' = "done" /\ result' = "failed"
      /\ UNCHANGED <<sock, timeout, retryTimer, finalizeTimer, listening, dataTimers,
                     discovered, discoveredSid, sentT, gotT, sentA, replies, firstAnswer>>
  BY DEF BindFails, handshakeVars
<1>2. result = "pending" /\ ~dataTimers /\ timeout = Off /\ retryTimer = Off
      /\ ~listening /\ ~discovered
  BY <1>1 DEF Inv, Outcome, TimersMatchOutcome
<1>3. FlagsTyped' /\ TimersTyped'
  BY <1>1 DEF Inv, FlagsTyped, TimersTyped
<1>4. Outcome' /\ Bounded'
  BY <1>1 DEF Inv, Outcome, Bounded
<1>5. InStep'
  BY <1>1, <1>2 DEF Inv, InStep
<1>6. TimersMatchOutcome'
  BY <1>1, <1>2 DEF TimersMatchOutcome
<1>7. AnswerUsedUnlessWindow'
  BY <1>1, <1>2, DiscoveryAssumption
     DEF Inv, InStep, AnswerUsedUnlessWindow, AnswerUsed, Off
<1>8. QED
  BY <1>3, <1>4, <1>5, <1>6, <1>7 DEF Inv

\* What an answer leaves alone, and what it needs.
LEMMA AnswerStep ==
  ASSUME Inv, NEW kind, Answer(kind)
  PROVE  /\ UNCHANGED <<phase, result, sock, timeout, retryTimer, listening, dataTimers>>
         /\ phase = "discovering" /\ sock /\ result = "pending" /\ timeout \in 0 .. Timeout
         /\ replies' \in 0 .. MaxReplies
         /\ firstAnswer' = IF ~discovered /\ discovered' THEN timeout ELSE firstAnswer
<1>1. phase = "discovering" /\ sock /\ result = "pending"
  BY DEF Answer, Inv, Outcome
<1>2. timeout \in 0 .. Timeout
  BY <1>1, DiscoveryAssumption DEF Inv, TimersTyped, Bounded, Off
<1>3. replies' \in 0 .. MaxReplies
  BY DiscoveryAssumption DEF Answer, Inv, TimersTyped
<1>4. QED
  BY <1>1, <1>2, <1>3 DEF Answer

\* An answer that makes the camera known arms the delay; one that does not keeps
\* the timer, or replaces it by the window after a CR.
LEMMA AnswerInv ==
  ASSUME Inv, NEW kind, Answer(kind), discovered => discovered',
         discovered' \in BOOLEAN, discoveredSid' \in BOOLEAN,
         sentT' \in BOOLEAN, gotT' \in BOOLEAN, sentA' \in BOOLEAN,
         \/ finalizeTimer' = MaybeFinalize(discovered', finalizeTimer)
         \/ discovered' /\ finalizeTimer' = [kind |-> "cr_timeout", left |-> CrWindow]
  PROVE  Inv'
<1> USE DiscoveryAssumption DEF Off
<1>1. /\ UNCHANGED <<phase, result, sock, timeout, retryTimer, listening, dataTimers>>
      /\ phase = "discovering" /\ sock /\ result = "pending" /\ timeout \in 0 .. Timeout
      /\ replies' \in 0 .. MaxReplies
      /\ firstAnswer' = IF ~discovered /\ discovered' THEN timeout ELSE firstAnswer
  BY AnswerStep
<1>2. \/ finalizeTimer' = finalizeTimer /\ (discovered' => discovered)
      \/ /\ finalizeTimer' = [kind |-> "finalize", left |-> FinalizeDelay]
         /\ ~discovered /\ discovered'
      \/ discovered' /\ finalizeTimer' = [kind |-> "cr_timeout", left |-> CrWindow]
  BY DEF MaybeFinalize, Inv, InStep
<1>3. FlagsTyped'
  BY <1>1 DEF Inv, FlagsTyped
<1>4. TimersTyped'
  BY <1>1, <1>2 DEF Inv, TimersTyped
<1>5. Outcome' /\ Bounded'
  BY <1>1 DEF Inv, Outcome, Bounded
<1>6. InStep'
  BY <1>1, <1>2 DEF Inv, InStep, TimersTyped
<1>7. TimersMatchOutcome' /\ AnswerUsedUnlessWindow'
  BY <1>1 DEF Inv, TimersMatchOutcome, AnswerUsedUnlessWindow, AnswerUsed
<1>8. QED
  BY <1>3, <1>4, <1>5, <1>6, <1>7 DEF Inv

LEMMA RecvInv == Inv /\ (RecvCfm \/ RecvT \/ RecvCr) => Inv'
<1> SUFFICES ASSUME Inv, RecvCfm \/ RecvT \/ RecvCr PROVE Inv'
  OBVIOUS
<1>1. /\ discovered \in BOOLEAN /\ discoveredSid \in BOOLEAN
      /\ sentT \in BOOLEAN /\ gotT \in BOOLEAN /\ sentA \in BOOLEAN
  BY DEF Inv, FlagsTyped
<1>2. CASE RecvCfm
  BY <1>1, <1>2, AnswerInv DEF RecvCfm
<1>3. CASE RecvT
  BY <1>1, <1>3, AnswerInv DEF RecvT
<1>4. CASE RecvCr
  BY <1>1, <1>4, AnswerInv DEF RecvCr
<1>5. QED
  BY <1>2, <1>3, <1>4

\* The window after a CR ends without a consequence: a timer was set before.
LEMMA FireCrWindowInv == Inv /\ FireCrWindow => Inv'
<1> SUFFICES ASSUME Inv, FireCrWindow PROVE Inv'
  OBVIOUS
<1> USE DiscoveryAssumption DEF Off
<1>1. /\ UNCHANGED <<phase, result, sock, timeout, retryTimer, listening, dataTimers,
                     discovered, discoveredSid, sentT, gotT, sentA, replies, firstAnswer>>
      /\ finalizeTimer.kind = "cr_timeout"
      /\ finalizeTimer' = [finalizeTimer EXCEPT !.left = -1]
  BY DEF FireCrWindow, handshakeVars, MaybeFinalize, Inv, TimersTyped
<1>2. finalizeTimer'.kind = "cr_timeout"
  BY <1>1 DEF Inv, TimersTyped
<1>3. FlagsTyped'
  BY <1>1 DEF Inv, FlagsTyped
<1>4. TimersTyped'
  BY <1>1 DEF Inv, TimersTyped
<1>5. Outcome' /\ Bounded'
  BY <1>1 DEF Inv, Outcome, Bounded
<1>6. InStep'
  BY <1>1, <1>2 DEF Inv, InStep
<1>7. TimersMatchOutcome' /\ AnswerUsedUnlessWindow'
  BY <1>1, <1>2 DEF Inv, TimersMatchOutcome, AnswerUsedUnlessWindow, AnswerUsed
<1>8. QED
  BY <1>3, <1>4, <1>5, <1>6, <1>7 DEF Inv

\* The delay ends: an open stream that still discovers is connected, so none fails.
LEMMA FireFinalizeInv == Inv /\ FireFinalize => Inv'
<1> SUFFICES ASSUME Inv, FireFinalize PROVE Inv'
  OBVIOUS
<1> USE DiscoveryAssumption DEF Off
<1>1. /\ UNCHANGED <<sock, discovered, discoveredSid, sentT, gotT, sentA, replies, firstAnswer>>
      /\ finalizeTimer.kind = "finalize" /\ listening' = FALSE
      /\ finalizeTimer' = [finalizeTimer EXCEPT !.left = -1]
      /\ timeout' = -1 /\ retryTimer' = -1 /\ phase' = "done"
      /\ result' = IF result # "pending" THEN result
                   ELSE IF sock THEN "connected" ELSE "failed"
      /\ dataTimers' = (dataTimers \/ (result = "pending" /\ sock))
  BY DEF FireFinalize, handshakeVars
<1>2. finalizeTimer'.kind = "finalize"
  BY <1>1 DEF Inv, TimersTyped
<1>3. FlagsTyped'
  BY <1>1 DEF Inv, FlagsTyped
<1>4. TimersTyped'
  BY <1>1 DEF Inv, TimersTyped
<1>5. Outcome' /\ Bounded'
  BY <1>1 DEF Inv, Outcome, Bounded
<1>6. InStep'
  BY <1>1, <1>2 DEF Inv, InStep
<1>7. TimersMatchOutcome' /\ AnswerUsedUnlessWindow'
  BY <1>1, <1>2 DEF Inv, Outcome, TimersMatchOutcome, AnswerUsedUnlessWindow, AnswerUsed
<1>8. QED
  BY <1>3, <1>4, <1>5, <1>6, <1>7 DEF Inv

\* The 15 s are over: of an open stream, before the delay of an answer that came
\* earlier than the last moments could run.
LEMMA FireTimeoutInv == Inv /\ FireTimeout => Inv'
<1> SUFFICES ASSUME Inv, FireTimeout PROVE Inv'
  OBVIOUS
<1> USE DiscoveryAssumption DEF Off
<1>1. /\ UNCHANGED <<sock, finalizeTimer, dataTimers, discovered, discoveredSid,
                     sentT, gotT, sentA, replies, firstAnswer>>
      /\ timeout = 0 /\ timeout' = -1 /\ retryTimer' = -1 /\ listening' = FALSE
      /\ phase' = "done" /\ result' = "failed"
  BY DEF FireTimeout, handshakeVars
<1>2. phase = "discovering" /\ result = "pending" /\ ~dataTimers
  BY <1>1 DEF Inv, Outcome, TimersMatchOutcome
<1>3. FlagsTyped'
  BY <1>1 DEF Inv, FlagsTyped
<1>4. TimersTyped'
  BY <1>1 DEF Inv, TimersTyped
<1>5. Outcome' /\ Bounded'
  BY <1>1 DEF Inv, Outcome, Bounded
<1>6. InStep'
  BY <1>1 DEF Inv, InStep
<1>7. TimersMatchOutcome'
  BY <1>1, <1>2 DEF TimersMatchOutcome
<1>8. AnswerUsedUnlessWindow'
  <2>1. CASE ~discovered
    BY <1>1, <2>1 DEF Inv, InStep, AnswerUsedUnlessWindow, AnswerUsed
  <2>2. CASE discovered /\ sock /\ finalizeTimer.kind = "finalize"
    <3>1. firstAnswer = FinalizeDelay - finalizeTimer.left /\ finalizeTimer.left >= 0
      BY <1>1, <1>2, <2>2 DEF Inv, InStep, TimersTyped
    <3>2. QED
      BY <1>1, <3>1 DEF AnswerUsedUnlessWindow, AnswerUsed, Inv, TimersTyped
  <2>3. CASE ~sock \/ finalizeTimer.kind = "cr_timeout"
    BY <1>1, <2>3 DEF AnswerUsedUnlessWindow, AnswerUsed
  <2>4. QED
    BY <2>1, <2>2, <2>3 DEF Inv, InStep, TimersTyped
<1>9. QED
  BY <1>3, <1>4, <1>5, <1>6, <1>7, <1>8 DEF Inv

\* The interval fires: only while connect() has not settled.
LEMMA FireRetryInv == Inv /\ FireRetry => Inv'
<1> SUFFICES ASSUME Inv, FireRetry PROVE Inv'
  OBVIOUS
<1> USE DiscoveryAssumption DEF Off
<1>1. /\ UNCHANGED <<phase, result, sock, timeout, finalizeTimer, listening, dataTimers,
                     discovered, discoveredSid, sentT, gotT, sentA, replies, firstAnswer>>
      /\ retryTimer = 0 /\ retryTimer' = RetryInterval
  BY DEF FireRetry, handshakeVars
<1>2. phase = "discovering" /\ result = "pending"
  BY <1>1 DEF Inv, Outcome, TimersMatchOutcome
<1>3. FlagsTyped'
  BY <1>1 DEF Inv, FlagsTyped
<1>4. TimersTyped'
  BY <1>1 DEF Inv, TimersTyped
<1>5. Outcome' /\ Bounded' /\ InStep'
  BY <1>1, <1>2 DEF Inv, Outcome, Bounded, InStep
<1>6. TimersMatchOutcome' /\ AnswerUsedUnlessWindow'
  BY <1>1, <1>2 DEF Inv, TimersMatchOutcome, AnswerUsedUnlessWindow, AnswerUsed
<1>7. QED
  BY <1>3, <1>4, <1>5, <1>6 DEF Inv

LEMMA CloseInv == Inv /\ Close => Inv'
<1> SUFFICES ASSUME Inv, Close PROVE Inv'
  OBVIOUS
<1> USE DiscoveryAssumption DEF Off
<1>1. /\ UNCHANGED <<phase, result, finalizeTimer, listening,
                     discovered, discoveredSid, sentT, gotT, sentA, replies, firstAnswer>>
      /\ sock' = FALSE /\ dataTimers' = FALSE /\ timeout' = -1 /\ retryTimer' = -1
  BY DEF Close, handshakeVars
<1>2. FlagsTyped'
  BY <1>1 DEF Inv, FlagsTyped
<1>3. TimersTyped'
  BY <1>1 DEF Inv, TimersTyped
<1>4. Outcome' /\ Bounded' /\ InStep'
  BY <1>1 DEF Inv, Outcome, Bounded, InStep
<1>5. TimersMatchOutcome' /\ AnswerUsedUnlessWindow'
  BY <1>1 DEF Inv, TimersMatchOutcome, AnswerUsedUnlessWindow, AnswerUsed
<1>6. QED
  BY <1>2, <1>3, <1>4, <1>5 DEF Inv

\* Time passes for all timers alike.
LEMMA TickInv == Inv /\ Tick => Inv'
<1> SUFFICES ASSUME Inv, Tick PROVE Inv'
  OBVIOUS
<1> USE DiscoveryAssumption DEF Off
<1>1. /\ UNCHANGED <<phase, result, sock, listening, dataTimers,
                     discovered, discoveredSid, sentT, gotT, sentA, replies, firstAnswer>>
      /\ timeout # 0 /\ retryTimer # 0 /\ finalizeTimer.left # 0
      /\ timeout' = Less(timeout) /\ retryTimer' = Less(retryTimer)
      /\ finalizeTimer' = [finalizeTimer EXCEPT !.left = Less(finalizeTimer.left)]
  BY DEF Tick, handshakeVars, Armed
<1>2. /\ finalizeTimer'.kind = finalizeTimer.kind
      /\ finalizeTimer'.left = Less(finalizeTimer.left)
  BY <1>1 DEF Inv, TimersTyped
<1>3. FlagsTyped'
  BY <1>1 DEF Inv, FlagsTyped
<1>4. TimersTyped'
  <2>1. timeout' \in -1 .. Timeout /\ retryTimer' \in -1 .. RetryInterval
    BY <1>1 DEF Inv, TimersTyped, Less
  <2>2. Less(finalizeTimer.left) \in -1 .. CrWindow
    BY <1>1 DEF Inv, TimersTyped, Less
  <2>3. QED
    BY <1>1, <2>1, <2>2 DEF Inv, TimersTyped
<1>5. timeout' = -1 <=> timeout = -1
  BY <1>1 DEF Inv, TimersTyped, Less
<1>6. Outcome' /\ Bounded'
  BY <1>1, <1>5 DEF Inv, Outcome, Bounded, Less
<1>7. InStep'
  <2>1. CASE phase = "discovering" /\ finalizeTimer.kind = "finalize"
    <3>1. finalizeTimer.left \in 1 .. CrWindow
      BY <1>1, <2>1 DEF Inv, TimersTyped, InStep
    <3>2. finalizeTimer'.left = finalizeTimer.left - 1
      BY <1>2, <3>1 DEF Less
    <3>3. sock => timeout' = timeout - 1
      BY <1>1, <2>1 DEF Inv, Bounded, Less
    <3>4. QED
      BY <1>1, <1>2, <2>1, <3>1, <3>2, <3>3 DEF Inv, InStep, TimersTyped
  <2>2. QED
    BY <1>1, <1>2, <2>1 DEF Inv, InStep
<1>8. TimersMatchOutcome' /\ AnswerUsedUnlessWindow'
  BY <1>1, <1>2, <1>5 DEF Inv, TimersMatchOutcome, AnswerUsedUnlessWindow, AnswerUsed, Less
<1>9. QED
  BY <1>3, <1>4, <1>6, <1>7, <1>8 DEF Inv

-----------------------------------------------------------------------------
\* The inductive invariant holds in every reachable state.
THEOREM Invariance == Spec => []Inv
<1>1. Inv /\ UNCHANGED vars => Inv'
  BY DEF vars, Inv, FlagsTyped, TimersTyped, Outcome, Bounded, InStep,
         TimersMatchOutcome, AnswerUsedUnlessWindow, AnswerUsed
<1>2. Inv /\ Next => Inv'
  BY BeginInv, BindFailsInv, RecvInv, FireCrWindowInv, FireFinalizeInv, FireTimeoutInv, FireRetryInv,
     CloseInv, TickInv DEF Next, Bind, TimerStep
<1>3. QED
  BY InitInv, <1>1, <1>2, PTL DEF Spec

\* Timers and flags keep their types for all delays, also those that fire after
\* the stream was closed.
THEOREM TypeCorrect == Spec => []TypeOK
BY Invariance, InvTyped, PTL

\* connect() of an open stream fails only if the camera had not answered before
\* the last moments of the timeout, or a CR had opened a window for D2C_T.
THEOREM AnswersCount == Spec => []AnswerUsedUnlessWindow
<1>1. Inv => AnswerUsedUnlessWindow
  BY DEF Inv
<1>2. QED
  BY <1>1, Invariance, PTL

\* Once connect() has settled the discovery has stopped, and the data timers run
\* exactly on an open stream that is connected.
THEOREM TimersStop == Spec => []TimersMatchOutcome
<1>1. Inv => TimersMatchOutcome
  BY DEF Inv
<1>2. QED
  BY <1>1, Invariance, PTL

\* connect() of an open stream is still being set up, or has its timeout to come.
PendingIsBounded ==
  result = "pending" /\ sock => phase \in {"binding", "probing"} \/ timeout # Off

\* connect() never waits on an open stream without the timeout that ends it,
\* however answers and timers fall together: the part of ConnectSettles that does
\* not rest on fairness.
THEOREM ConnectIsBounded == Spec => []PendingIsBounded
<1>1. Inv => PendingIsBounded
  BY DEF Inv, Outcome, Bounded, PendingIsBounded
<1>2. QED
  BY <1>1, Invariance, PTL
=============================================================================
