---------------------------- MODULE AlwaysOnProofs ----------------------------
(***************************************************************************)
(* Safety of the always-on stream for every number of triggers and faults. *)
(***************************************************************************)
EXTENDS AlwaysOn, TLAPS

-----------------------------------------------------------------------------
(* The inductive invariant.                                                *)

Underway(c) == call[c] \in InProgress
Starting(c) == call[c] \in {"resetting", "starting"}
Settling(s) == idling[s] \in {"stopping", "rendering"}

\* A call belongs to a trigger that came, and the re-entrancy guard of goLive()
\* lets one call through.
OneStart ==
  /\ \A c \in Triggers : c > triggers => call[c] = "none"
  /\ \A c, d \in Triggers : Starting(c) /\ Starting(d) => c = d

\* While no transition is overtaken there is no timer but the one windowTimer
\* refers to, an openWindow() call under way is alone, and an attached stream
\* has no goIdle() of an earlier one beside it.
Serial ==
  ~overtaken =>
    /\ armed \subseteq {windowTimer}
    /\ \A c \in Triggers : Underway(c) =>
         /\ armed = {} /\ teardown \in {"up", "closed"}
         /\ \A d \in Triggers : Underway(d) => d = c
         /\ \A s \in Triggers : ~Settling(s)
    /\ stream # None => \A s \in Triggers : ~Settling(s)

Typed == TypeOK /\ OneStart
Inv == Typed /\ OpenWindowEnds /\ Serial /\ OneProducer

-----------------------------------------------------------------------------
(* Type correctness, with the guard of goLive().                           *)

CallType == [Triggers -> InProgress \cup {"none", "done"}]
IdlingType == [Triggers -> {"none", "stopping", "rendering", "done"}]

\* The flag of goLive() says that a call is in it.
Flag == starting \in BOOLEAN /\ (starting <=> \E c \in Triggers : Starting(c))

LEMMA InitTyped == Init => Typed
<1> SUFFICES ASSUME Init PROVE Typed
  OBVIOUS
<1>1. \A c \in Triggers : call[c] = "none"
  BY DEF Init
<1>2. Flag
  BY <1>1 DEF Init, Flag, Starting
<1>3. TypeOK
  <2>1. call \in CallType /\ idling \in IdlingType
    BY DEF Init, CallType, IdlingType
  <2>2. restarting \in [Triggers -> {"none", "stopping", "asking"}]
    BY DEF Init
  <2>3. 0 \in 0 .. MaxTriggers /\ 0 \in 0 .. MaxFaults
    BY AlwaysOnAssumption
  <2>4. QED
    BY <1>2, <2>1, <2>2, <2>3
       DEF Init, TypeOK, None, CallType, IdlingType, Flag, Starting
<1>4. QED
  BY <1>1, <1>3 DEF Typed, OneStart, Starting

\* goIdle() and what follows its awaits.
LEMMA GoIdleTyped ==
  ASSUME TypeOK, NEW isStopped \in BOOLEAN, GoIdle(isStopped)
  PROVE  /\ stream' \in 0 .. MaxTriggers /\ streaming' \in BOOLEAN
         /\ idling' \in IdlingType
         /\ placeholder' \in BOOLEAN /\ idleTimer' \in BOOLEAN /\ leaked' \in Nat
<1>1. CASE stream = None
  BY <1>1 DEF GoIdle, idleVars, TypeOK, IdlingType
<1>2. CASE stream # None
  <2>1. stream' = None /\ stream \in Triggers
    BY <1>2, AlwaysOnAssumption DEF GoIdle, TypeOK, Triggers, None
  <2>2. streaming' = (streaming /\ stream \notin active)
    BY <1>2 DEF GoIdle
  <2>3. AfterStop(stream, IF stream \in active THEN "stopping" ELSE "done", isStopped)
    BY <1>2 DEF GoIdle
  <2>4. idling' \in IdlingType
    BY <2>1, <2>3 DEF AfterStop, TypeOK, IdlingType
  <2>5. placeholder' \in BOOLEAN /\ idleTimer' \in BOOLEAN /\ leaked' \in Nat
    BY <2>3 DEF AfterStop, TypeOK
  <2>6. QED
    BY <2>1, <2>2, <2>4, <2>5, AlwaysOnAssumption DEF None
<1>3. QED
  BY <1>1, <1>2

\* The calls and `starting' together.
LEMMA CallsTyped ==
  ASSUME Typed, NEW c \in Triggers, NEW place \in InProgress \cup {"none", "done"},
         call' = [call EXCEPT ![c] = place],
         triggers' \in {triggers, c}, triggers' >= c, triggers' >= triggers,
         triggers \in Nat, triggers' \in Nat,
         place \in {"resetting", "starting"} => Starting(c) \/ ~starting,
         place \in {"resetting", "starting"} => starting' = TRUE,
         place = "done" /\ Starting(c) => starting' = FALSE,
         place \notin {"resetting", "starting"} /\ ~Starting(c) => starting' = starting,
         place \notin {"resetting", "starting"} /\ Starting(c) => place = "done"
  PROVE  call' \in CallType /\ OneStart' /\ Flag'
<1>1. /\ call' \in CallType /\ call'[c] = place
      /\ \A d \in Triggers \ {c} : call'[d] = call[d]
  BY DEF Typed, TypeOK, CallType
<1>2. /\ Flag
      /\ \A d, e \in Triggers : Starting(d) /\ Starting(e) => d = e
      /\ \A d \in Triggers : d > triggers => call[d] = "none"
  BY DEF Typed, TypeOK, OneStart, Flag, Starting
<1>3. \A d, e \in Triggers : Starting(d)' /\ Starting(e)' => d = e
  BY <1>1, <1>2 DEF Starting, Flag
<1>4. Flag'
  <2>1. CASE place \in {"resetting", "starting"}
    <3>1. Starting(c)'
      BY <1>1, <2>1 DEF Starting
    <3>2. starting' = TRUE
      BY <2>1
    <3>3. QED
      BY <3>1, <3>2 DEF Flag
  <2>2. CASE place \notin {"resetting", "starting"} /\ Starting(c)
    <3>1. \A d \in Triggers : ~Starting(d)'
      BY <1>1, <1>2, <2>2 DEF Starting
    <3>2. starting' = FALSE
      BY <2>2
    <3>3. QED
      BY <3>1, <3>2 DEF Flag
  <2>3. CASE place \notin {"resetting", "starting"} /\ ~Starting(c)
    <3>1. \A d \in Triggers : Starting(d)' <=> Starting(d)
      BY <1>1, <2>3 DEF Starting
    <3>2. starting' = starting
      BY <2>3
    <3>3. QED
      BY <1>2, <3>1, <3>2 DEF Flag
  <2>4. QED
    BY <2>1, <2>2, <2>3
<1>5. \A d \in Triggers : d > triggers' => call'[d] = "none"
  BY <1>1, <1>2 DEF Triggers
<1>6. QED
  BY <1>1, <1>3, <1>4, <1>5 DEF OneStart

LEMMA WindowTyped == Typed /\ (Prime \/ Event) => Typed'
<1> SUFFICES ASSUME Typed, Prime \/ Event PROVE Typed'
  OBVIOUS
<1>1. PICK c \in Triggers : OpenWindow(c) /\ c = triggers + 1
  BY AlwaysOnAssumption DEF Prime, Event, Triggers, Typed, TypeOK
<1>2. /\ triggers' = c /\ live' = TRUE /\ overtaken' \in BOOLEAN
      /\ windowTimer' \in {windowTimer, c} /\ armed' \subseteq armed \cup {c}
      /\ stale' \subseteq armed'
      /\ call' = [call EXCEPT ![c] = IF live THEN "done" ELSE "waking"]
      /\ UNCHANGED <<stream, starting, keyframe, idleVars, idling, active, streaming,
                     downVars, faultVars>>
  BY <1>1 DEF OpenWindow, Overtake
<1>3. triggers \in Nat /\ c \in Nat /\ c > triggers /\ c >= triggers
  BY <1>1, AlwaysOnAssumption DEF Typed, TypeOK, Triggers
<1>4. ~Starting(c)
  BY <1>3 DEF Typed, OneStart, Starting
<1>5. call' \in CallType /\ OneStart' /\ Flag'
  <2>1. PICK place \in {"done", "waking"} : call' = [call EXCEPT ![c] = place]
    BY <1>2
  <2>2. place \in InProgress \cup {"none", "done"} /\ place \notin {"resetting", "starting"}
    BY <2>1 DEF InProgress
  <2>3. /\ triggers' \in {triggers, c} /\ triggers' >= c /\ triggers' >= triggers
        /\ triggers' \in Nat /\ starting' = starting
    BY <1>2, <1>3
  <2>4. QED
    BY <1>3, <1>4, <2>1, <2>2, <2>3, CallsTyped
<1>6. triggers' \in 0 .. MaxTriggers /\ windowTimer' \in 0 .. MaxTriggers
  BY <1>2, AlwaysOnAssumption DEF Typed, TypeOK, Triggers
<1>7. armed' \subseteq Triggers /\ stale' \subseteq armed'
  BY <1>2 DEF Typed, TypeOK
<1>8. TypeOK'
  BY <1>2, <1>5, <1>6, <1>7 DEF Typed, TypeOK, Flag, Starting, CallType, idleVars, downVars, faultVars
<1>9. QED
  BY <1>5, <1>8 DEF Typed

\* What the steps of openWindow() after its await leave to be shown.
LEMMA OpenTyped == \A c \in Triggers : Typed /\ Open(c) => Typed'
<1> SUFFICES ASSUME NEW c \in Triggers, Typed, Open(c) PROVE Typed'
  OBVIOUS
<1>1. PICK place \in {"resetting", "starting", "done"} :
        /\ call' = [call EXCEPT ![c] = place]
        /\ place \in {"resetting", "starting"} => Starting(c) \/ ~starting
        /\ place \in {"resetting", "starting"} => starting' = TRUE
        /\ place = "done" /\ Starting(c) => starting' = FALSE
        /\ place = "done" /\ ~Starting(c) => starting' = starting
  <2>1. CASE Woken(c) /\ (stopped \/ stream # None \/ starting)
    <3>1. call[c] = "waking" /\ call' = [call EXCEPT ![c] = "done"] /\ starting' = starting
      BY <2>1 DEF Woken
    <3>2. ~Starting(c)
      BY <3>1 DEF Starting
    <3>3. QED
      BY <3>1, <3>2
  <2>2. CASE Woken(c) /\ ~(stopped \/ stream # None \/ starting)
    <3>1. call' = [call EXCEPT ![c] = "resetting"] /\ starting' = TRUE
      BY <2>2 DEF Woken
    <3>2. QED
      BY <2>2, <3>1
  <2>3. CASE Request(c)
    <3>1. Starting(c) /\ call' = [call EXCEPT ![c] = "starting"] /\ starting' = starting
      BY <2>3 DEF Request, Starting
    <3>2. Flag
      BY DEF Typed, TypeOK, Flag, Starting
    <3>3. starting' = TRUE
      BY <3>1, <3>2 DEF Flag
    <3>4. QED
      BY <3>1, <3>3
  <2>4. CASE Started(c) \/ StartFails(c)
    <3>1. Starting(c) /\ call' = [call EXCEPT ![c] = "done"] /\ starting' = FALSE
      BY <2>4 DEF Started, StartFails, Starting
    <3>2. QED
      BY <3>1
  <2>5. QED
    BY <2>1, <2>2, <2>3, <2>4 DEF Open
<1>2. triggers' = triggers /\ overtaken' = overtaken /\ live' = live
      /\ windowTimer' \in {windowTimer, c} /\ armed' \in {armed, armed \cup {c}}
      /\ stale' = stale
      /\ stream' \in {stream, c} /\ active' \subseteq active \cup {c}
      /\ UNCHANGED <<keyframe, idling, downVars, restarting, faults>>
  BY DEF Open, Woken, Request, Started, StartFails, Arm, windowVars, faultVars
<1>3. placeholder' \in BOOLEAN /\ idleTimer' \in BOOLEAN /\ leaked' \in Nat
      /\ streaming' \in BOOLEAN /\ orphaned' \in BOOLEAN
  <2>1. CASE Woken(c)
    BY <2>1 DEF Woken, StopIdleLoop, idleVars, faultVars, Typed, TypeOK
  <2>2. CASE Request(c)
    BY <2>2 DEF Request, AskForVideo, idleVars, Typed, TypeOK
  <2>3. CASE Started(c) \/ StartFails(c)
    BY <2>3 DEF Started, StartFails, idleVars, faultVars, Typed, TypeOK
  <2>4. QED
    BY <2>1, <2>2, <2>3 DEF Open
<1>4. triggers \in Nat /\ c \in Nat /\ triggers >= c
  <2>1. call[c] # "none"
    BY DEF Open, Woken, Request, Started, StartFails
  <2>2. QED
    BY <2>1, AlwaysOnAssumption DEF Typed, TypeOK, OneStart, Triggers
<1>5. call' \in CallType /\ OneStart' /\ Flag'
  <2>1. place \in InProgress \cup {"none", "done"}
    BY DEF InProgress
  <2>2. triggers' = triggers /\ triggers' >= c /\ triggers' >= triggers
    BY <1>2, <1>4
  <2>3. QED
    BY <1>1, <1>4, <2>1, <2>2, CallsTyped
<1>6. stream' \in 0 .. MaxTriggers /\ windowTimer' \in 0 .. MaxTriggers
  BY <1>2, AlwaysOnAssumption DEF Typed, TypeOK, Triggers
<1>7. armed' \subseteq Triggers /\ stale' \subseteq armed' /\ active' \subseteq Triggers
  BY <1>2 DEF Typed, TypeOK
<1>8. TypeOK'
  BY <1>2, <1>3, <1>5, <1>6, <1>7 DEF Typed, TypeOK, Flag, Starting, CallType, downVars
<1>9. QED
  BY <1>5, <1>8 DEF Typed

\* What the other steps leave alone of the calls.
CallsKept == UNCHANGED <<triggers, overtaken, call, starting, keyframe>>

LEMMA CallsKeptTyped ==
  Typed /\ CallsKept =>
    /\ OneStart' /\ Flag'
    /\ triggers' \in 0 .. MaxTriggers /\ overtaken' \in BOOLEAN /\ keyframe' \in BOOLEAN
    /\ call' \in CallType
BY DEF Typed, TypeOK, OneStart, CallsKept, Flag, Starting, CallType

LEMMA IdleTyped == \A s \in Triggers : Typed /\ Idle(s) => Typed'
<1> SUFFICES ASSUME NEW s \in Triggers, Typed, Idle(s) PROVE Typed'
  OBVIOUS
<1>1. /\ CallsKept /\ UNCHANGED <<windowVars, stream, downVars, streaming, faultVars>>
      /\ active' \subseteq active
  BY DEF Idle, StopDone, Rendered, CallsKept, windowVars
<1>2. /\ idling' \in IdlingType
      /\ placeholder' \in BOOLEAN /\ idleTimer' \in BOOLEAN /\ leaked' \in Nat
  <2>1. CASE StopDone(s)
    <3>1. AfterStop(s, "done", stopped)
      BY <2>1 DEF StopDone
    <3>2. idling' \in IdlingType
      BY <3>1 DEF AfterStop, Typed, TypeOK, IdlingType
    <3>3. placeholder' \in BOOLEAN /\ idleTimer' \in BOOLEAN /\ leaked' \in Nat
      BY <3>1 DEF AfterStop, Typed, TypeOK
    <3>4. QED
      BY <3>2, <3>3
  <2>2. CASE Rendered(s)
    BY <2>2 DEF Rendered, Typed, TypeOK, IdlingType
  <2>3. QED
    BY <2>1, <2>2 DEF Idle
<1>3. TypeOK'
  BY <1>1, <1>2, CallsKeptTyped
     DEF Typed, TypeOK, CallType, IdlingType, Flag, Starting, windowVars, downVars, faultVars
<1>4. QED
  BY <1>1, <1>3, CallsKeptTyped DEF Typed

LEMMA CloseTyped == \A t \in armed : Typed /\ CloseWindow(t) => Typed'
<1> SUFFICES ASSUME NEW t \in armed, Typed, CloseWindow(t) PROVE Typed'
  OBVIOUS
<1>1. /\ CallsKept /\ UNCHANGED <<active, downVars, faultVars>>
      /\ armed' = armed \ {t} /\ stale' = stale \ {t} /\ windowTimer' = None /\ live' = FALSE
  BY DEF CloseWindow, CallsKept
<1>2. /\ stream' \in 0 .. MaxTriggers /\ streaming' \in BOOLEAN
      /\ idling' \in IdlingType
      /\ placeholder' \in BOOLEAN /\ idleTimer' \in BOOLEAN /\ leaked' \in Nat
  <2>1. CASE live
    <3>1. GoIdle(stopped) /\ stopped \in BOOLEAN
      BY <2>1 DEF CloseWindow, Typed, TypeOK
    <3>2. QED
      BY <3>1, GoIdleTyped DEF Typed
  <2>2. CASE ~live
    BY <2>2 DEF CloseWindow, idleVars, Typed, TypeOK, IdlingType
  <2>3. QED
    BY <2>1, <2>2
<1>3. None \in 0 .. MaxTriggers
  BY AlwaysOnAssumption DEF None
<1>4. TypeOK'
  BY <1>1, <1>2, <1>3, CallsKeptTyped
     DEF Typed, TypeOK, CallType, IdlingType, Flag, Starting, downVars, faultVars
<1>5. QED
  BY <1>1, <1>4, CallsKeptTyped DEF Typed

LEMMA FaultTyped ==
  Typed /\ (Keyframe \/ SocketCloses \/ \E s \in Triggers : WatchdogTick(s) \/ Restart(s))
    => Typed'
<1> SUFFICES ASSUME Typed,
      Keyframe \/ SocketCloses \/ \E s \in Triggers : WatchdogTick(s) \/ Restart(s)
             PROVE  Typed'
  OBVIOUS
<1>1. /\ UNCHANGED <<windowVars, call, stream, starting, idleVars, idling, downVars>>
      /\ active' \subseteq active
      /\ keyframe' \in {keyframe, TRUE} /\ streaming' \in {streaming, TRUE, FALSE}
  BY DEF Keyframe, SocketCloses, WatchdogTick, Restart, RestartRequests, RestartEnds,
     AskForVideo
<1>2. restarting' \in [Triggers -> {"none", "stopping", "asking"}]
  BY DEF Keyframe, SocketCloses, WatchdogTick, Restart, RestartRequests, RestartEnds,
     faultVars, Typed, TypeOK
<1>3. faults' \in 0 .. MaxFaults
  BY AlwaysOnAssumption DEF Keyframe, SocketCloses, WatchdogTick, Restart, RestartRequests,
     RestartEnds, faultVars, Typed, TypeOK
<1>4. orphaned' \in BOOLEAN
  BY DEF Keyframe, SocketCloses, WatchdogTick, Restart, RestartRequests, RestartEnds,
     AskForVideo, faultVars, Typed, TypeOK
<1>5. keyframe' \in BOOLEAN /\ streaming' \in BOOLEAN
  BY <1>1 DEF Typed, TypeOK
<1>6. TypeOK'
  BY <1>1, <1>2, <1>3, <1>4, <1>5 DEF Typed, TypeOK, windowVars, idleVars, downVars
<1>7. OneStart'
  BY <1>1 DEF Typed, OneStart, Starting, windowVars
<1>8. QED
  BY <1>6, <1>7 DEF Typed

\* The part of stop() that leaves the continuous stream to itself.
LEMMA StopStreamTyped ==
  ASSUME TypeOK, StopStream
  PROVE  /\ stopped' = TRUE /\ teardown' \in {"closed", "closing"}
         /\ waiting' \in 0 .. MaxTriggers
         /\ stream' \in 0 .. MaxTriggers /\ streaming' \in BOOLEAN
         /\ idling' \in IdlingType
         /\ placeholder' \in BOOLEAN /\ idleTimer' \in BOOLEAN /\ leaked' \in Nat
<1>1. CASE stream = None
  <2>1. None \in 0 .. MaxTriggers
    BY AlwaysOnAssumption DEF None
  <2>2. QED
    BY <1>1, <2>1 DEF StopStream, StopIdleLoop, TypeOK, IdlingType
<1>2. CASE stream # None
  <2>1. /\ stopped' = TRUE /\ teardown' = "closing" /\ waiting' = stream /\ GoIdle(TRUE)
    BY <1>2 DEF StopStream
  <2>2. waiting' \in 0 .. MaxTriggers
    BY <2>1 DEF TypeOK
  <2>3. QED
    BY <2>1, <2>2, GoIdleTyped
<1>3. QED
  BY <1>1, <1>2

LEMMA StopTyped == Typed /\ Stop => Typed'
<1> SUFFICES ASSUME Typed, Stop PROVE Typed'
  OBVIOUS
<1>1. /\ UNCHANGED <<triggers, live, call, stream, starting, keyframe, idleVars,
                     idling, active, streaming, stopped, waiting, faultVars>>
      /\ armed' \subseteq armed /\ stale' \subseteq armed' /\ windowTimer' = None
      /\ teardown' = "unsubscribing" /\ overtaken' \in BOOLEAN
  BY DEF Stop, Overtake, Typed, TypeOK
<1>2. None \in 0 .. MaxTriggers
  BY AlwaysOnAssumption DEF None
<1>3. TypeOK'
  BY <1>1, <1>2 DEF Typed, TypeOK, idleVars, faultVars
<1>4. OneStart'
  BY <1>1 DEF Typed, OneStart, Starting
<1>5. QED
  BY <1>3, <1>4 DEF Typed

LEMMA TeardownTyped == Typed /\ (Unsubscribed \/ Idled \/ Closed) => Typed'
<1> SUFFICES ASSUME Typed, Unsubscribed \/ Idled \/ Closed PROVE Typed'
  OBVIOUS
<1>1. /\ CallsKept /\ UNCHANGED <<windowTimer, armed, stale, active, faultVars>>
      /\ live' \in {live, FALSE}
  BY DEF Unsubscribed, Idled, Closed, CallsKept, windowVars
<1>2. /\ stopped' \in BOOLEAN
      /\ teardown' \in {"up", "unsubscribing", "idling", "closing", "closed"}
      /\ waiting' \in 0 .. MaxTriggers
      /\ stream' \in 0 .. MaxTriggers /\ streaming' \in BOOLEAN
      /\ idling' \in IdlingType
      /\ placeholder' \in BOOLEAN /\ idleTimer' \in BOOLEAN /\ leaked' \in Nat
  <2>1. CASE StopStream
    BY <2>1, StopStreamTyped DEF Typed
  <2>2. CASE Unsubscribed /\ ~StopStream
    <3>1. /\ teardown' = "idling" /\ waiting' = stream /\ GoIdle(stopped)
          /\ UNCHANGED stopped
      BY <2>2 DEF Unsubscribed
    <3>2. stopped \in BOOLEAN /\ stream \in 0 .. MaxTriggers
      BY DEF Typed, TypeOK
    <3>3. QED
      BY <3>1, <3>2, GoIdleTyped DEF Typed
  <2>3. CASE Closed
    BY <2>3 DEF Closed, StopIdleLoop, Typed, TypeOK, IdlingType
  <2>4. QED
    BY <2>1, <2>2, <2>3 DEF Idled
<1>3. live' \in BOOLEAN
  BY <1>1 DEF Typed, TypeOK
<1>4. TypeOK'
  BY <1>1, <1>2, <1>3, CallsKeptTyped
     DEF Typed, TypeOK, CallType, IdlingType, Flag, Starting, faultVars
<1>5. QED
  BY <1>1, <1>4, CallsKeptTyped DEF Typed

LEMMA NextTyped == Typed /\ [Next]_vars => Typed'
<1> SUFFICES ASSUME Typed, [Next]_vars PROVE Typed'
  OBVIOUS
<1>1. CASE UNCHANGED vars
  BY <1>1 DEF vars, windowVars, idleVars, downVars, faultVars, Typed, TypeOK, OneStart,
     Starting
<1>2. CASE Next
  BY <1>2, WindowTyped, OpenTyped, IdleTyped, CloseTyped, FaultTyped, StopTyped,
     TeardownTyped DEF Next
<1>3. QED
  BY <1>1, <1>2

-----------------------------------------------------------------------------
(* The other parts of the invariant.                                       *)

Mixed == placeholder /\ (idleTimer \/ leaked > 0)
Attached == \A s \in active : s = stream \/ idling[s] = "stopping"
NotMixed == stream # None /\ ~overtaken => ~Mixed
Rest == OpenWindowEnds /\ Serial /\ Attached /\ NotMixed

LEMMA InvParts == Inv <=> Typed /\ Rest
BY DEF Inv, Rest, OneProducer, Attached, NotMixed, Mixed

\* goIdle() detaches the stream and has it stopped if it is active.
LEMMA GoIdleAttached ==
  ASSUME Typed, Attached, NEW isStopped \in BOOLEAN, GoIdle(isStopped), active' = active
  PROVE  stream' = None /\ Attached'
<1>1. CASE stream = None
  BY <1>1 DEF GoIdle, Attached
<1>2. CASE stream # None
  <2>1. stream' = None /\ stream \in Triggers
    BY <1>2, AlwaysOnAssumption DEF GoIdle, Typed, TypeOK, Triggers, None
  <2>2. AfterStop(stream, IF stream \in active THEN "stopping" ELSE "done", isStopped)
    BY <1>2 DEF GoIdle
  <2>3. \A s \in Triggers \ {stream} : idling'[s] = idling[s]
    BY <2>1, <2>2 DEF AfterStop, Typed, TypeOK
  <2>4. stream \in active => idling'[stream] = "stopping"
    BY <2>1, <2>2 DEF AfterStop, Typed, TypeOK
  <2>5. \A s \in active : s \in Triggers
    BY DEF Typed, TypeOK
  <2>6. QED
    BY <2>1, <2>3, <2>4, <2>5 DEF Attached
<1>3. QED
  BY <1>1, <1>2

LEMMA WindowRest == Inv /\ (Prime \/ Event) => Rest'
<1> SUFFICES ASSUME Inv, Prime \/ Event PROVE Rest'
  OBVIOUS
<1>1. PICK c \in Triggers : OpenWindow(c)
  BY AlwaysOnAssumption DEF Prime, Event, Triggers, Inv, Typed, TypeOK
<1>2. Typed /\ Rest
  BY InvParts
<1>3. /\ overtaken' = (overtaken \/ ~Quiet)
      /\ UNCHANGED <<stream, placeholder, idleTimer, leaked, idling, active, teardown>>
      /\ call' = [call EXCEPT ![c] = IF live THEN "done" ELSE "waking"]
      /\ armed' = IF live THEN (armed \ {windowTimer}) \cup {c} ELSE armed \ {windowTimer}
      /\ windowTimer' = IF live THEN c ELSE windowTimer
  BY <1>1 DEF OpenWindow, Overtake, idleVars, downVars
<1>4. /\ call'[c] = IF live THEN "done" ELSE "waking"
      /\ \A d \in Triggers \ {c} : call'[d] = call[d]
  BY <1>2, <1>3 DEF Typed, TypeOK
<1>5. OpenWindowEnds'
  BY <1>3, <1>4 DEF OpenWindowEnds, InProgress
<1>6. Serial'
  <2> SUFFICES ASSUME ~overtaken'
               PROVE  /\ armed' \subseteq {windowTimer'}
                      /\ \A d \in Triggers : Underway(d)' =>
                           /\ armed' = {} /\ teardown' \in {"up", "closed"}
                           /\ \A e \in Triggers : Underway(e)' => e = d
                           /\ \A s \in Triggers : ~Settling(s)'
                      /\ stream' # None => \A s \in Triggers : ~Settling(s)'
    BY DEF Serial
  <2>1. ~overtaken /\ Quiet
    BY <1>3
  <2>2. /\ \A d \in Triggers : ~Underway(d)
        /\ \A s \in Triggers : ~Settling(s)'
        /\ teardown' \in {"up", "closed"}
    BY <1>3, <2>1 DEF Quiet, Underway, Settling
  <2>3. armed \subseteq {windowTimer}
    BY <1>2, <2>1 DEF Rest, Serial
  <2>4. armed' \subseteq {windowTimer'}
    BY <1>3, <2>3
  <2>5. \A d \in Triggers : Underway(d)' => d = c /\ ~live
    BY <1>4, <2>2 DEF Underway, InProgress
  <2>6. ~live => armed' = {}
    BY <1>3, <2>3
  <2>7. QED
    BY <2>2, <2>4, <2>5, <2>6
<1>7. Attached' /\ NotMixed'
  BY <1>2, <1>3 DEF Rest, Attached, NotMixed, Mixed
<1>8. QED
  BY <1>5, <1>6, <1>7 DEF Rest

\* The end of an openWindow() call, which arms its timer.
LEMMA ArmedRest ==
  ASSUME Inv, NEW c \in Triggers, Underway(c),
         call' = [call EXCEPT ![c] = "done"], Arm(c), active' \subseteq active,
         UNCHANGED <<stream, placeholder, idleTimer, leaked, idling, teardown>>
  PROVE  Rest'
<1>1. Typed /\ Rest
  BY InvParts
<1>2. /\ armed' = armed \cup {c} /\ windowTimer' = c
      /\ overtaken' = overtaken /\ live' = live
  BY DEF Arm
<1>3. call'[c] = "done" /\ \A d \in Triggers \ {c} : call'[d] = call[d]
  BY <1>1 DEF Typed, TypeOK
<1>4. OpenWindowEnds'
  BY <1>2 DEF OpenWindowEnds
<1>5. Serial'
  <2>1. CASE overtaken
    BY <1>2, <2>1 DEF Serial
  <2>2. CASE ~overtaken
    <3>1. /\ armed = {} /\ \A d \in Triggers : Underway(d) => d = c
          /\ \A s \in Triggers : ~Settling(s)
      BY <1>1, <2>2 DEF Rest, Serial
    <3>2. \A d \in Triggers : ~Underway(d)'
      BY <1>3, <3>1 DEF Underway, InProgress
    <3>3. QED
      BY <1>2, <3>1, <3>2 DEF Serial, Settling
  <2>3. QED
    BY <2>1, <2>2
<1>6. Attached' /\ NotMixed'
  BY <1>1, <1>2 DEF Rest, Attached, NotMixed, Mixed
<1>7. QED
  BY <1>4, <1>5, <1>6 DEF Rest

LEMMA OpenRest == \A c \in Triggers : Inv /\ Open(c) => Rest'
<1> SUFFICES ASSUME NEW c \in Triggers, Inv, Open(c) PROVE Rest'
  OBVIOUS
<1>0. Typed /\ Rest
  BY InvParts
<1>1. CASE Woken(c) /\ (stopped \/ stream # None \/ starting)
  <2>1. /\ call[c] = "waking" /\ call' = [call EXCEPT ![c] = "done"] /\ Arm(c)
        /\ UNCHANGED <<stream, active, idleVars, idling, downVars>>
    BY <1>1 DEF Woken
  <2>2. QED
    BY <2>1, ArmedRest DEF Underway, InProgress, idleVars, downVars
<1>2. CASE Started(c) \/ StartFails(c)
  <2>1. /\ call[c] \in {"resetting", "starting"}
        /\ call' = [call EXCEPT ![c] = "done"] /\ Arm(c) /\ active' \subseteq active
        /\ UNCHANGED <<stream, idleVars, idling, downVars>>
    BY <1>2 DEF Started, StartFails
  <2>2. QED
    BY <2>1, ArmedRest DEF Underway, InProgress, idleVars, downVars
<1>3. CASE \/ Woken(c) /\ ~(stopped \/ stream # None \/ starting)
           \/ Request(c)
  <2>1. /\ Underway(c) /\ call' = [call EXCEPT ![c] = call'[c]] /\ Underway(c)'
    <3>1. CASE Woken(c) /\ ~(stopped \/ stream # None \/ starting)
      <4>1. call[c] = "waking" /\ call' = [call EXCEPT ![c] = "resetting"]
        BY <3>1 DEF Woken
      <4>2. QED
        BY <1>0, <4>1 DEF Underway, InProgress, Typed, TypeOK
    <3>2. CASE Request(c)
      <4>1. call[c] \in {"resetting", "starting"} /\ call' = [call EXCEPT ![c] = "starting"]
        BY <3>2 DEF Request
      <4>2. QED
        BY <1>0, <4>1 DEF Underway, InProgress, Typed, TypeOK
    <3>3. QED
      BY <1>3, <3>1, <3>2
  <2>2. \A d \in Triggers : Underway(d)' <=> Underway(d)
    BY <1>0, <2>1 DEF Underway, Typed, TypeOK
  <2>3. /\ UNCHANGED <<overtaken, live, armed, windowTimer, idling, teardown>>
    BY <1>3 DEF Woken, Request, windowVars, downVars
  <2>4. OpenWindowEnds'
    BY <2>1 DEF OpenWindowEnds, Underway
  <2>5. Serial'
    <3>1. CASE overtaken
      BY <2>3, <3>1 DEF Serial
    <3>2. CASE ~overtaken
      <4>1. /\ armed = {} /\ teardown \in {"up", "closed"}
            /\ \A d \in Triggers : Underway(d) => d = c
            /\ \A s \in Triggers : ~Settling(s)
        BY <1>0, <2>1, <3>2 DEF Rest, Serial
      <4>2. \A s \in Triggers : ~Settling(s)'
        BY <2>3, <4>1 DEF Settling
      <4>3. QED
        BY <2>2, <2>3, <4>1, <4>2 DEF Serial
    <3>3. QED
      BY <3>1, <3>2
  <2>6. Attached' /\ NotMixed'
    <3>1. CASE Request(c)
      BY <1>0, <3>1 DEF Request, windowVars, idleVars, Rest, Attached, NotMixed, Mixed
    <3>2. CASE Woken(c) /\ ~(stopped \/ stream # None \/ starting)
      <4>1. /\ stream = None /\ stream' = c /\ active' = active \cup {c}
            /\ placeholder' = FALSE /\ idling' = idling
        BY <3>2 DEF Woken, StopIdleLoop
      <4>2. \A s \in active : s # None
        BY <1>0, AlwaysOnAssumption DEF Typed, TypeOK, Triggers, None
      <4>3. QED
        BY <1>0, <4>1, <4>2 DEF Rest, Attached, NotMixed, Mixed
    <3>3. QED
      BY <1>3, <3>1, <3>2
  <2>7. QED
    BY <2>4, <2>5, <2>6 DEF Rest
<1>4. QED
  BY <1>1, <1>2, <1>3 DEF Open

LEMMA IdleRest == \A s \in Triggers : Inv /\ Idle(s) => Rest'
<1> SUFFICES ASSUME NEW s \in Triggers, Inv, Idle(s) PROVE Rest'
  OBVIOUS
<1>0. Typed /\ Rest
  BY InvParts
<1>1. /\ UNCHANGED <<overtaken, live, armed, windowTimer, call, stream, teardown>>
      /\ Settling(s)
      /\ \A a \in Triggers \ {s} : idling'[a] = idling[a]
  <2>1. CASE StopDone(s)
    BY <1>0, <2>1 DEF StopDone, AfterStop, windowVars, downVars, Settling, Typed, TypeOK
  <2>2. CASE Rendered(s)
    BY <1>0, <2>2 DEF Rendered, windowVars, downVars, Settling, Typed, TypeOK
  <2>3. QED
    BY <2>1, <2>2 DEF Idle
<1>2. OpenWindowEnds'
  BY <1>0, <1>1 DEF Rest, OpenWindowEnds
<1>3. ~overtaken => stream = None /\ \A c \in Triggers : ~Underway(c)
  BY <1>0, <1>1 DEF Rest, Serial
<1>4. Serial'
  BY <1>0, <1>1, <1>3 DEF Rest, Serial, Underway
<1>5. Attached'
  <2>1. /\ active' \subseteq active
        /\ s \in active' => s = stream
    <3>1. CASE StopDone(s)
      BY <3>1 DEF StopDone
    <3>2. CASE Rendered(s)
      <4>1. idling[s] = "rendering" /\ active' = active
        BY <3>2 DEF Rendered
      <4>2. QED
        BY <1>0, <4>1 DEF Rest, Attached
    <3>3. QED
      BY <3>1, <3>2 DEF Idle
  <2>2. active' \subseteq Triggers
    BY <1>0, <2>1 DEF Typed, TypeOK
  <2>3. QED
    BY <1>0, <1>1, <2>1, <2>2 DEF Rest, Attached
<1>6. NotMixed'
  BY <1>1, <1>3 DEF NotMixed
<1>7. QED
  BY <1>2, <1>4, <1>5, <1>6 DEF Rest

LEMMA CloseRest == \A t \in armed : Inv /\ CloseWindow(t) => Rest'
<1> SUFFICES ASSUME NEW t \in armed, Inv, CloseWindow(t) PROVE Rest'
  OBVIOUS
<1>0. Typed /\ Rest
  BY InvParts
<1>1. /\ UNCHANGED <<overtaken, call, active, teardown>>
      /\ live' = FALSE /\ armed' = armed \ {t} /\ windowTimer' = None
  BY DEF CloseWindow, downVars
<1>2. OpenWindowEnds'
  BY <1>1 DEF OpenWindowEnds
<1>3. CASE live
  <2>1. GoIdle(stopped) /\ stopped \in BOOLEAN
    BY <1>0, <1>3 DEF CloseWindow, Typed, TypeOK
  <2>2. stream' = None /\ Attached'
    BY <1>0, <1>1, <2>1, GoIdleAttached DEF Rest
  <2>3. Serial'
    BY <1>0, <1>1, <2>2 DEF Rest, Serial, Underway
  <2>4. QED
    BY <1>2, <2>2, <2>3 DEF Rest, NotMixed
<1>4. CASE ~live
  <2>1. UNCHANGED <<stream, idling, placeholder, idleTimer, leaked>>
    BY <1>4 DEF CloseWindow, idleVars
  <2>2. Serial'
    BY <1>0, <1>1, <2>1 DEF Rest, Serial, Underway, Settling
  <2>3. QED
    BY <1>0, <1>1, <1>2, <2>1, <2>2 DEF Rest, Attached, NotMixed, Mixed
<1>5. QED
  BY <1>3, <1>4

LEMMA FaultRest ==
  Inv /\ (Keyframe \/ SocketCloses \/ \E s \in Triggers : WatchdogTick(s) \/ Restart(s))
    => Rest'
<1> SUFFICES ASSUME Inv,
      Keyframe \/ SocketCloses \/ \E s \in Triggers : WatchdogTick(s) \/ Restart(s)
             PROVE  Rest'
  OBVIOUS
<1>0. Rest
  BY InvParts
<1>1. /\ UNCHANGED <<windowVars, call, stream, idleVars, idling, downVars>>
      /\ active' \subseteq active
  BY DEF Keyframe, SocketCloses, WatchdogTick, Restart, RestartRequests, RestartEnds
<1>2. QED
  BY <1>0, <1>1 DEF Rest, OpenWindowEnds, Serial, Attached, NotMixed, Mixed, Underway,
     Settling, windowVars, idleVars, downVars

LEMMA StopRest == Inv /\ Stop => Rest'
<1> SUFFICES ASSUME Inv, Stop PROVE Rest'
  OBVIOUS
<1>0. Rest
  BY InvParts
<1>1. /\ UNCHANGED <<call, stream, placeholder, idleTimer, leaked, idling, active>>
      /\ overtaken' = (overtaken \/ ~Quiet)
      /\ armed' = armed \ {windowTimer} /\ teardown' = "unsubscribing"
  BY DEF Stop, Overtake, idleVars
<1>2. ~overtaken' => /\ ~overtaken /\ armed' = {}
                     /\ \A c \in Triggers : ~Underway(c)'
                     /\ \A s \in Triggers : ~Settling(s)'
  BY <1>0, <1>1 DEF Rest, Serial, Quiet, Underway, Settling
<1>3. OpenWindowEnds' /\ Serial'
  BY <1>1, <1>2 DEF OpenWindowEnds, Serial
<1>4. Attached' /\ NotMixed'
  BY <1>0, <1>1 DEF Rest, Attached, NotMixed, Mixed
<1>5. QED
  BY <1>3, <1>4 DEF Rest

LEMMA TeardownRest == Inv /\ (Unsubscribed \/ Idled \/ Closed) => Rest'
<1> SUFFICES ASSUME Inv, Unsubscribed \/ Idled \/ Closed PROVE Rest'
  OBVIOUS
<1>0. Typed /\ Rest
  BY InvParts
<1>1. /\ UNCHANGED <<overtaken, armed, windowTimer, call, active>>
      /\ teardown \in {"unsubscribing", "idling", "closing"}
  BY DEF Unsubscribed, Idled, Closed, windowVars
<1>2. /\ teardown' # "up" /\ Attached' /\ NotMixed'
      /\ stream' = None \/ UNCHANGED <<stream, idling>>
  <2>1. CASE StopStream /\ stream = None
    <3>1. /\ teardown' = "closed" /\ UNCHANGED <<stream, idling>>
      BY <2>1 DEF StopStream
    <3>2. QED
      BY <1>0, <1>1, <2>1, <3>1 DEF Rest, Attached, NotMixed
  <2>2. CASE StopStream /\ stream # None
    <3>1. teardown' = "closing" /\ GoIdle(TRUE)
      BY <2>2 DEF StopStream
    <3>2. stream' = None /\ Attached'
      BY <1>0, <1>1, <3>1, GoIdleAttached DEF Rest
    <3>3. QED
      BY <3>1, <3>2 DEF NotMixed
  <2>3. CASE Unsubscribed /\ ~StopStream
    <3>1. teardown' = "idling" /\ GoIdle(stopped) /\ stopped \in BOOLEAN
      BY <1>0, <2>3 DEF Unsubscribed, Typed, TypeOK
    <3>2. stream' = None /\ Attached'
      BY <1>0, <1>1, <3>1, GoIdleAttached DEF Rest
    <3>3. QED
      BY <3>1, <3>2 DEF NotMixed
  <2>4. CASE Closed
    <3>1. teardown' = "closed" /\ placeholder' = FALSE /\ UNCHANGED <<stream, idling, active>>
      BY <2>4 DEF Closed, StopIdleLoop
    <3>2. QED
      BY <1>0, <3>1 DEF Rest, Attached, NotMixed, Mixed
  <2>5. QED
    BY <2>1, <2>2, <2>3, <2>4 DEF Idled
<1>3. ~overtaken => \A c \in Triggers : ~Underway(c)
  BY <1>0, <1>1 DEF Rest, Serial
<1>4. Serial'
  BY <1>0, <1>1, <1>2, <1>3 DEF Rest, Serial, Underway, Settling
<1>5. OpenWindowEnds'
  BY <1>2 DEF OpenWindowEnds
<1>6. QED
  BY <1>2, <1>4, <1>5 DEF Rest

-----------------------------------------------------------------------------
LEMMA InitInv == Init => Inv
<1> SUFFICES ASSUME Init PROVE Inv
  OBVIOUS
<1>1. \A c \in Triggers : call[c] = "none" /\ idling[c] = "none"
  BY DEF Init
<1>2. Rest
  BY <1>1 DEF Init, Rest, OpenWindowEnds, Serial, Attached, NotMixed, Mixed, Underway,
     Settling, InProgress
<1>3. QED
  BY <1>2, InitTyped, InvParts

\* The invariant holds in every reachable state.
THEOREM Invariance == Spec => []Inv
<1>1. Inv /\ [Next]_vars => Inv'
  <2> SUFFICES ASSUME Inv, [Next]_vars PROVE Inv'
    OBVIOUS
  <2>1. Typed'
    BY NextTyped DEF Inv
  <2>2. Rest'
    <3>1. CASE UNCHANGED vars
      <4>1. Rest
        BY InvParts
      <4>2. QED
        BY <3>1, <4>1 DEF vars, windowVars, idleVars, downVars, Rest, OpenWindowEnds,
           Serial, Attached, NotMixed, Mixed, Underway, Settling
    <3>2. CASE Next
      BY <3>2, WindowRest, OpenRest, IdleRest, CloseRest, FaultRest, StopRest, TeardownRest
         DEF Next
    <3>3. QED
      BY <3>1, <3>2
  <2>3. QED
    BY <2>1, <2>2 DEF Inv, Rest, OneProducer, Attached, NotMixed, Mixed
<1>2. QED
  BY InitInv, <1>1, PTL DEF Spec

\* Every variable of the controller, the streams and the teardown keeps its type,
\* and `starting' tells whether a call is in goLive().
THEOREM TypeCorrect == Spec => []TypeOK
BY Invariance, PTL DEF Inv, Typed

\* However triggers, calls, timers and faults interleave, an open window has a
\* timer or a call of openWindow() that will arm one.
THEOREM WindowsEnd == Spec => []OpenWindowEnds
BY Invariance, PTL DEF Inv

\* One live stream at a time has not been asked to stop, and its frames are not
\* mixed with the placeholder's as long as goLive() and goIdle() do not overlap.
THEOREM OneProducerOnly == Spec => []OneProducer
BY Invariance, PTL DEF Inv

-----------------------------------------------------------------------------
(* Events extend a window.                                                 *)

\* A trigger finds no timer but the one openWindow() clears.
NoneStale == ~overtaken => stale = {}

LEMMA NoneStaleKept == Inv /\ NoneStale /\ [Next]_vars => NoneStale'
<1> SUFFICES ASSUME Inv, NoneStale, [Next]_vars PROVE NoneStale'
  OBVIOUS
<1>1. CASE Prime \/ Event
  <2>1. overtaken' = (overtaken \/ ~Quiet) /\ stale' = armed \ {windowTimer}
    BY <1>1 DEF Prime, Event, OpenWindow, Overtake
  <2>2. ~overtaken => armed \subseteq {windowTimer}
    BY DEF Inv, Serial
  <2>3. QED
    BY <2>1, <2>2 DEF NoneStale
<1>2. ASSUME NEW c \in Triggers, Open(c) PROVE NoneStale'
  <2>1. UNCHANGED <<overtaken, stale>>
    BY <1>2 DEF Open, Woken, Request, Started, StartFails, Arm, windowVars
  <2>2. QED
    BY <2>1 DEF NoneStale
<1>3. ASSUME NEW s \in Triggers, Idle(s) \/ WatchdogTick(s) \/ Restart(s) PROVE NoneStale'
  <2>1. UNCHANGED <<overtaken, stale>>
    BY <1>3 DEF Idle, StopDone, Rendered, WatchdogTick, Restart, RestartRequests, RestartEnds,
       windowVars
  <2>2. QED
    BY <2>1 DEF NoneStale
<1>4. ASSUME NEW t \in armed, CloseWindow(t) PROVE NoneStale'
  BY <1>4 DEF CloseWindow, NoneStale
<1>5. CASE Stop
  BY <1>5 DEF Stop, Overtake, NoneStale
<1>6. CASE Keyframe \/ SocketCloses \/ Unsubscribed \/ Idled \/ Closed
  <2>1. UNCHANGED <<overtaken, stale>>
    BY <1>6 DEF Keyframe, SocketCloses, Unsubscribed, Idled, Closed, windowVars
  <2>2. QED
    BY <2>1 DEF NoneStale
<1>7. CASE UNCHANGED vars
  BY <1>7 DEF vars, windowVars, NoneStale
<1>8. QED
  BY <1>1, <1>2, <1>3, <1>4, <1>5, <1>6, <1>7 DEF Next

\* No timer that was armed before the latest trigger closes a window, as long as
\* no trigger and no stop() comes during a transition.
THEOREM WindowsExtended == Spec => WindowExtended
<1>1. Init => NoneStale
  BY DEF Init, NoneStale
<1>2. NoneStale /\ [Next]_vars => [\A t \in stale : CloseWindow(t) => ~live \/ overtaken]_vars
  BY DEF NoneStale
<1>3. QED
  BY Invariance, NoneStaleKept, <1>1, <1>2, PTL DEF Spec, WindowExtended

-----------------------------------------------------------------------------
(* Outside a window the camera sleeps.                                     *)

\* An attached stream and a call under way belong to an open window; stop() sets
\* `stopped' before its last step.
Attended ==
  /\ teardown \in {"closing", "closed"} => stopped
  /\ ~overtaken =>
       /\ stream # None => live /\ teardown \in {"up", "unsubscribing"}
       /\ \A c \in Triggers : Underway(c) => live
       /\ \A c \in Triggers : Starting(c) => teardown = "up"

\* While the camera is asked for video the window is open and its stream attached.
StreamsInWindow ==
  streaming /\ ~orphaned /\ ~overtaken =>
    live /\ stream \in active /\ teardown \in {"up", "unsubscribing"}

Sleep == Attended /\ StreamsInWindow

LEMMA WindowSleep == Inv /\ Sleep /\ (Prime \/ Event) => Sleep'
<1> SUFFICES ASSUME Inv, Sleep, NEW t \in Triggers, OpenWindow(t) PROVE Sleep'
  <2>1. Prime => 1 \in Triggers /\ OpenWindow(1)
    BY AlwaysOnAssumption DEF Prime, Triggers
  <2>2. Event => triggers + 1 \in Triggers /\ OpenWindow(triggers + 1)
    BY AlwaysOnAssumption DEF Event, Triggers
  <2>3. QED
    BY <2>1, <2>2
<1>1. /\ live' /\ (~overtaken' => ~overtaken /\ Quiet)
      /\ UNCHANGED <<stream, active, streaming, orphaned, teardown, stopped>>
      /\ \A c \in Triggers : call'[c] = call[c] \/ call'[c] \in {"waking", "done"}
  BY DEF OpenWindow, Overtake, faultVars, downVars, Inv, Typed, TypeOK
<1>2. QED
  BY <1>1 DEF Sleep, Attended, StreamsInWindow, Underway, Starting

LEMMA OpenSleep == \A c \in Triggers : Inv /\ Sleep /\ Open(c) => Sleep'
<1> SUFFICES ASSUME NEW c \in Triggers, Inv, Sleep, Open(c) PROVE Sleep'
  OBVIOUS
<1>1. Underway(c) /\ UNCHANGED <<overtaken, live, stopped, teardown>>
  BY DEF Open, Woken, Request, Started, StartFails, Arm, windowVars, downVars, Underway,
     InProgress
<1>2. \A d \in Triggers : d # c => call'[d] = call[d]
  BY DEF Open, Woken, Request, Started, StartFails, Inv, Typed, TypeOK
<1>3. ~overtaken => live /\ teardown \in {"up", "closed"}
  BY <1>1 DEF Inv, Serial, Sleep, Attended
<1>4. CASE Woken(c)
  <2>1. CASE stopped \/ stream # None \/ starting
    <3>1. /\ UNCHANGED <<stream, active, streaming, orphaned>> /\ call'[c] = "done"
      BY <1>4, <2>1 DEF Woken, faultVars, Inv, Typed, TypeOK
    <3>2. QED
      BY <1>1, <1>2, <3>1 DEF Sleep, Attended, StreamsInWindow, Underway, Starting,
         InProgress
  <2>2. CASE ~(stopped \/ stream # None \/ starting)
    <3>1. /\ ~streaming' /\ ~stopped
      BY <1>4, <2>2 DEF Woken
    <3>2. ~overtaken => teardown = "up"
      BY <1>3, <3>1 DEF Sleep, Attended
    <3>3. QED
      BY <1>1, <1>2, <1>3, <3>1, <3>2 DEF Sleep, Attended, StreamsInWindow, Underway
  <2>3. QED
    BY <2>1, <2>2
<1>5. CASE Request(c)
  <2>1. /\ Starting(c) /\ call'[c] = "starting" /\ UNCHANGED <<stream, active>>
        /\ orphaned' = (orphaned \/ c # stream \/ c \notin active)
    BY <1>5 DEF Request, AskForVideo, Starting, Inv, Typed, TypeOK
  <2>2. QED
    BY <1>1, <1>2, <1>3, <2>1 DEF Sleep, Attended, StreamsInWindow, Underway, Starting
<1>6. CASE Started(c) \/ StartFails(c)
  <2>1. /\ call'[c] = "done" /\ UNCHANGED <<stream, streaming>>
        /\ UNCHANGED <<active, orphaned>> \/ orphaned' = (orphaned \/ streaming)
    BY <1>6 DEF Started, StartFails, faultVars, Inv, Typed, TypeOK
  <2>2. QED
    BY <1>1, <1>2, <2>1 DEF Sleep, Attended, StreamsInWindow, Underway, Starting,
       InProgress
<1>7. QED
  BY <1>4, <1>5, <1>6 DEF Open

\* goIdle() detaches the stream and, when it is active, asks the camera to stop.
LEMMA GoIdleSleep ==
  ASSUME Inv, Sleep, NEW isStopped, GoIdle(isStopped), UNCHANGED <<overtaken, orphaned>>
  PROVE  /\ stream' = None
         /\ ~overtaken' /\ ~orphaned' => ~streaming'
<1>1. None \notin active
  BY DEF Inv, Typed, TypeOK, Triggers, None
<1>2. QED
  BY <1>1 DEF GoIdle, Sleep, StreamsInWindow

LEMMA CloseSleep == \A t \in armed : Inv /\ Sleep /\ CloseWindow(t) => Sleep'
<1> SUFFICES ASSUME NEW t \in armed, Inv, Sleep, CloseWindow(t) PROVE Sleep'
  OBVIOUS
<1>1. UNCHANGED <<overtaken, call, active, stopped, teardown, orphaned>> /\ ~live'
  BY DEF CloseWindow, downVars, faultVars
<1>2. ~overtaken => \A c \in Triggers : ~Underway(c)
  BY DEF Inv, Serial
<1>3. /\ ~overtaken' => stream' = None
      /\ ~overtaken' /\ ~orphaned' => ~streaming'
  <2>1. CASE live
    BY <1>1, <2>1, GoIdleSleep DEF CloseWindow, Inv, Typed, TypeOK
  <2>2. CASE ~live
    BY <1>1, <2>2 DEF CloseWindow, Sleep, Attended, StreamsInWindow
  <2>3. QED
    BY <2>1, <2>2
<1>4. QED
  BY <1>1, <1>2, <1>3 DEF Sleep, Attended, StreamsInWindow, Underway, Starting, InProgress

LEMMA FaultSleep ==
  \A s \in Triggers :
    Inv /\ Sleep /\ (Idle(s) \/ WatchdogTick(s) \/ Restart(s)) => Sleep'
<1> SUFFICES ASSUME NEW s \in Triggers, Inv, Sleep, Idle(s) \/ WatchdogTick(s) \/ Restart(s)
             PROVE  Sleep'
  OBVIOUS
<1>1. UNCHANGED <<overtaken, live, call, stream, stopped, teardown>>
  BY DEF Idle, StopDone, Rendered, WatchdogTick, Restart, RestartRequests, RestartEnds,
     windowVars, downVars
<1>2. Attended'
  BY <1>1 DEF Sleep, Attended, Underway, Starting
<1>3. CASE StopDone(s)
  <2>1. /\ Settling(s) /\ active' = active \ {s} /\ UNCHANGED <<streaming, orphaned>>
    BY <1>3 DEF StopDone, Settling, faultVars
  <2>2. stream # None => overtaken
    BY <2>1 DEF Inv, Serial
  <2>3. None \notin active
    BY DEF Inv, Typed, TypeOK, Triggers, None
  <2>4. QED
    BY <1>1, <1>2, <2>1, <2>2, <2>3 DEF Sleep, StreamsInWindow
<1>4. CASE Rendered(s) \/ RestartEnds(s)
  BY <1>1, <1>2, <1>4 DEF Rendered, RestartEnds, faultVars, Sleep, StreamsInWindow
<1>5. CASE WatchdogTick(s)
  BY <1>2, <1>5 DEF WatchdogTick, Sleep, StreamsInWindow
<1>6. CASE RestartRequests(s)
  <2>1. /\ UNCHANGED active /\ orphaned' = (orphaned \/ s # stream \/ s \notin active)
    BY <1>6 DEF RestartRequests, AskForVideo
  <2>2. s # None
    BY DEF Triggers, None
  <2>3. QED
    BY <1>1, <1>2, <2>1, <2>2 DEF Sleep, Attended, StreamsInWindow
<1>7. QED
  BY <1>3, <1>4, <1>5, <1>6 DEF Idle, Restart

LEMMA TeardownSleep == Inv /\ Sleep /\ (Stop \/ Unsubscribed \/ Idled \/ Closed) => Sleep'
<1> SUFFICES ASSUME Inv, Sleep, Stop \/ Unsubscribed \/ Idled \/ Closed PROVE Sleep'
  OBVIOUS
<1>1. UNCHANGED <<call, active, orphaned>>
  BY DEF Stop, Unsubscribed, Idled, Closed, faultVars
<1>2. CASE Stop
  <2>1. /\ UNCHANGED <<live, stream, streaming, stopped>> /\ teardown' = "unsubscribing"
        /\ teardown = "up" /\ (~overtaken' => ~overtaken /\ Quiet)
    BY <1>2 DEF Stop, Overtake
  <2>2. Quiet => \A c \in Triggers : ~Starting(c)
    BY DEF Quiet, InProgress, Starting
  <2>3. QED
    BY <1>1, <2>1, <2>2 DEF Sleep, Attended, StreamsInWindow, Underway, Starting
<1>3. CASE Unsubscribed
  <2>1. UNCHANGED overtaken /\ teardown = "unsubscribing" /\ ~live'
    BY <1>3 DEF Unsubscribed
  <2>2. ~overtaken => \A c \in Triggers : ~Underway(c)
    BY <2>1 DEF Inv, Serial
  <2>3. /\ teardown' \in {"closing", "closed"} => stopped'
        /\ stream' = None /\ (~overtaken' /\ ~orphaned' => ~streaming')
    <3>1. CASE live /\ stream # None
      BY <1>1, <1>3, <2>1, <3>1, GoIdleSleep DEF Unsubscribed, Inv, Typed, TypeOK
    <3>2. CASE ~(live /\ stream # None)
      <4>1. StopStream
        BY <1>3, <3>2 DEF Unsubscribed
      <4>2. CASE stream = None
        <5>1. None \notin active
          BY DEF Inv, Typed, TypeOK, Triggers, None
        <5>2. QED
          BY <1>1, <2>1, <4>1, <4>2, <5>1 DEF StopStream, Sleep, StreamsInWindow
      <4>3. CASE stream # None
        BY <1>1, <2>1, <4>1, <4>3, GoIdleSleep DEF StopStream
      <4>4. QED
        BY <4>2, <4>3
    <3>3. QED
      BY <3>1, <3>2
  <2>4. QED
    BY <1>1, <2>1, <2>2, <2>3 DEF Sleep, Attended, StreamsInWindow, Underway, Starting,
       InProgress
<1>4. CASE Idled \/ Closed
  <2>1. UNCHANGED overtaken /\ UNCHANGED live /\ teardown \in {"idling", "closing"}
    BY <1>4 DEF Idled, Closed, windowVars
  <2>2. ~overtaken => \A c \in Triggers : ~Underway(c)
    BY <2>1 DEF Inv, Serial
  <2>3. ~overtaken /\ ~orphaned => ~streaming
    BY <2>1 DEF Sleep, StreamsInWindow
  <2>4. /\ teardown' \in {"closing", "closed"} => stopped'
        /\ ~overtaken => stream' = None
        /\ streaming' => streaming
    <3>1. CASE Idled
      <4>1. StopStream
        BY <3>1 DEF Idled
      <4>2. CASE stream = None
        BY <4>1, <4>2 DEF StopStream
      <4>3. CASE stream # None
        BY <4>1, <4>3 DEF StopStream, GoIdle, Inv, Typed, TypeOK
      <4>4. QED
        BY <4>2, <4>3
    <3>2. CASE Closed
      BY <2>1, <3>2 DEF Closed, Sleep, Attended
    <3>3. QED
      BY <1>4, <3>1, <3>2
  <2>5. QED
    BY <1>1, <2>1, <2>2, <2>3, <2>4 DEF Sleep, Attended, StreamsInWindow, Underway,
       Starting, InProgress
<1>5. QED
  BY <1>2, <1>3, <1>4

LEMMA SleepKept == Inv /\ Sleep /\ [Next]_vars => Sleep'
<1> SUFFICES ASSUME Inv, Sleep, [Next]_vars PROVE Sleep'
  OBVIOUS
<1>1. CASE Keyframe
  BY <1>1 DEF Keyframe, windowVars, downVars, faultVars, Sleep, Attended, StreamsInWindow,
     Underway, Starting
<1>2. CASE SocketCloses
  BY <1>2 DEF SocketCloses, windowVars, downVars, Sleep, Attended, StreamsInWindow,
     Underway, Starting
<1>3. CASE UNCHANGED vars
  BY <1>3 DEF vars, windowVars, downVars, faultVars, Sleep, Attended, StreamsInWindow,
     Underway, Starting
<1>4. QED
  BY WindowSleep, OpenSleep, CloseSleep, FaultSleep, TeardownSleep, <1>1, <1>2, <1>3
     DEF Next

\* As long as no trigger and no stop() comes during a transition and no late
\* request orphans a stream, the camera is asked for video only during a window
\* and for the attached stream, which the end of the window stops: the part of
\* SleepsUnlessOvertaken that does not rest on fairness.
THEOREM SleepsOutsideWindow == Spec => []StreamsInWindow
<1>1. Init => Sleep
  BY DEF Init, Sleep, Attended, StreamsInWindow, Underway, Starting, InProgress
<1>2. Sleep => StreamsInWindow
  BY DEF Sleep
<1>3. QED
  BY Invariance, SleepKept, <1>1, <1>2, PTL DEF Spec

-----------------------------------------------------------------------------
(* Between windows the placeholder is shown.                               *)

\* The placeholder is repeated, or a goIdle() is about to start it.
Repeated == (placeholder /\ (idleTimer \/ leaked > 0)) \/ \E s \in Triggers : Settling(s)

\* An open window has its stream attached, once wakeUp() has settled; a consumer
\* that has seen a keyframe gets frames between windows.
Shown ==
  /\ stopped => teardown \in {"closing", "closed"}
  /\ teardown = "up" /\ ~overtaken =>
       /\ live => stream # None \/ \E c \in Triggers : call[c] = "waking"
       /\ keyframe /\ ~live => Repeated

LEMMA ShownWindow == Inv /\ Sleep /\ Shown /\ (Prime \/ Event) => Shown'
<1> SUFFICES ASSUME Inv, Sleep, Shown, NEW t \in Triggers, OpenWindow(t) PROVE Shown'
  <2>1. Prime => 1 \in Triggers /\ OpenWindow(1)
    BY AlwaysOnAssumption DEF Prime, Triggers
  <2>2. Event => triggers + 1 \in Triggers /\ OpenWindow(triggers + 1)
    BY AlwaysOnAssumption DEF Event, Triggers
  <2>3. QED
    BY <2>1, <2>2
<1>1. /\ live' /\ (~overtaken' => ~overtaken /\ Quiet)
      /\ UNCHANGED <<stream, teardown, stopped>>
  BY DEF OpenWindow, Overtake, downVars
<1>2. Quiet => \A c \in Triggers : call[c] # "waking"
  BY DEF Quiet, InProgress
<1>3. ~live => call'[t] = "waking"
  BY DEF OpenWindow, Inv, Typed, TypeOK
<1>4. QED
  BY <1>1, <1>2, <1>3 DEF Shown

LEMMA ShownOpen == \A c \in Triggers : Inv /\ Sleep /\ Shown /\ Open(c) => Shown'
<1> SUFFICES ASSUME NEW c \in Triggers, Inv, Sleep, Shown, Open(c) PROVE Shown'
  OBVIOUS
<1>1. Underway(c) /\ UNCHANGED <<overtaken, live, stopped, teardown>>
  BY DEF Open, Woken, Request, Started, StartFails, Arm, windowVars, downVars, Underway,
     InProgress
<1>2. ~overtaken => live /\ \A d \in Triggers : Underway(d) => d = c
  BY <1>1 DEF Inv, Serial, Sleep, Attended
<1>3. teardown = "up" /\ ~overtaken => stream' # None
  <2> SUFFICES ASSUME teardown = "up", ~overtaken PROVE stream' # None
    OBVIOUS
  <2>1. ~stopped /\ c # None
    BY DEF Shown, Triggers, None
  <2>2. CASE Woken(c)
    <3>1. ~starting
      BY <1>2, <2>2 DEF Woken, Inv, Typed, TypeOK, Underway, InProgress
    <3>2. QED
      BY <2>1, <2>2, <3>1 DEF Woken
  <2>3. CASE Request(c) \/ Started(c) \/ StartFails(c)
    <3>1. call[c] # "waking" /\ stream' = stream
      BY <2>3 DEF Request, Started, StartFails
    <3>2. QED
      BY <1>2, <3>1 DEF Shown, Underway, InProgress
  <2>4. QED
    BY <2>2, <2>3 DEF Open
<1>4. QED
  BY <1>1, <1>2, <1>3 DEF Shown

LEMMA ShownIdle == \A s \in Triggers : Inv /\ Sleep /\ Shown /\ Idle(s) => Shown'
<1> SUFFICES ASSUME NEW s \in Triggers, Inv, Sleep, Shown, Idle(s) PROVE Shown'
  OBVIOUS
<1>1. UNCHANGED <<overtaken, live, call, stream, keyframe, stopped, teardown>>
  BY DEF Idle, StopDone, Rendered, windowVars, downVars
<1>2. teardown = "up" /\ keyframe => Repeated'
  <2>1. CASE StopDone(s)
    BY <2>1 DEF StopDone, AfterStop, Inv, Typed, TypeOK, Shown, Repeated, Settling
  <2>2. CASE Rendered(s)
    BY <2>2 DEF Rendered, Repeated
  <2>3. QED
    BY <2>1, <2>2 DEF Idle
<1>3. QED
  BY <1>1, <1>2 DEF Shown

LEMMA ShownClose == \A t \in armed : Inv /\ Sleep /\ Shown /\ CloseWindow(t) => Shown'
<1> SUFFICES ASSUME NEW t \in armed, Inv, Sleep, Shown, CloseWindow(t) PROVE Shown'
  OBVIOUS
<1>1. ~live' /\ UNCHANGED <<overtaken, call, keyframe, stopped, teardown>>
  BY DEF CloseWindow, downVars
<1>2. ~overtaken => \A c \in Triggers : call[c] # "waking"
  BY DEF Inv, Serial, Underway, InProgress
<1>3. teardown = "up" /\ ~overtaken /\ keyframe => Repeated'
  <2> SUFFICES ASSUME teardown = "up", ~overtaken, keyframe PROVE Repeated'
    OBVIOUS
  <2>1. CASE live
    <3>1. stream \in Triggers /\ ~stopped
      BY <1>2, <2>1, AlwaysOnAssumption DEF Shown, Inv, Typed, TypeOK, Triggers, None
    <3>2. GoIdle(stopped) /\ stream # None
      BY <2>1, <3>1 DEF CloseWindow, Triggers, None
    <3>3. idling'[stream] \in {"stopping", "rendering"}
      BY <3>1, <3>2 DEF GoIdle, AfterStop, Inv, Typed, TypeOK
    <3>4. QED
      BY <3>1, <3>3 DEF Repeated, Settling
  <2>2. CASE ~live
    BY <2>2 DEF CloseWindow, idleVars, Shown, Repeated, Settling
  <2>3. QED
    BY <2>1, <2>2
<1>4. QED
  BY <1>1, <1>3 DEF Shown

LEMMA ShownKept == Inv /\ Sleep /\ Shown /\ [Next]_vars => Shown'
<1> SUFFICES ASSUME Inv, Sleep, Shown, [Next]_vars PROVE Shown'
  OBVIOUS
<1>1. CASE Keyframe
  <2>1. /\ stream \in active
        /\ UNCHANGED <<overtaken, live, call, stream, stopped, teardown>>
    BY <1>1 DEF Keyframe, windowVars, downVars
  <2>2. ~overtaken => live
    BY <2>1 DEF Sleep, Attended, Inv, Typed, TypeOK, Triggers, None
  <2>3. QED
    BY <2>1, <2>2 DEF Shown
<1>2. ASSUME NEW s \in Triggers, WatchdogTick(s) \/ Restart(s) PROVE Shown'
  BY <1>2 DEF WatchdogTick, Restart, RestartRequests, RestartEnds, windowVars, idleVars,
     downVars, Shown, Repeated, Settling
<1>3. CASE SocketCloses
  BY <1>3 DEF SocketCloses, windowVars, idleVars, downVars, Shown, Repeated, Settling
<1>4. CASE Stop \/ Unsubscribed \/ Idled \/ Closed
  <2>1. CASE Stop
    BY <2>1 DEF Stop, Shown
  <2>2. CASE Unsubscribed
    <3>1. UNCHANGED stopped \/ (stopped' /\ teardown' \in {"closing", "closed"})
      BY <2>2 DEF Unsubscribed, StopStream
    <3>2. teardown = "unsubscribing" /\ teardown' \in {"idling", "closing", "closed"}
      BY <2>2 DEF Unsubscribed, StopStream
    <3>3. QED
      BY <3>1, <3>2 DEF Shown
  <2>3. CASE Idled
    <3>1. teardown' \in {"closing", "closed"}
      BY <2>3 DEF Idled, StopStream
    <3>2. QED
      BY <3>1 DEF Shown
  <2>4. CASE Closed
    BY <2>4 DEF Closed, Shown
  <2>5. QED
    BY <1>4, <2>1, <2>2, <2>3, <2>4
<1>5. CASE UNCHANGED vars
  BY <1>5 DEF vars, windowVars, idleVars, downVars, Shown, Repeated, Settling
<1>6. QED
  BY ShownWindow, ShownOpen, ShownIdle, ShownClose, <1>1, <1>2, <1>3, <1>4, <1>5 DEF Next

\* What the consumer sees once a keyframe came: frames repeated or about to be, or
\* a window.
RepeatedOutsideWindow == keyframe /\ ~live /\ teardown = "up" /\ ~overtaken => Repeated

\* Between windows the last keyframe is repeated, or a goIdle() that is about to
\* start it is under way, as long as transitions are not overtaken: the part of
\* StaysContinuous that does not rest on fairness.
THEOREM RepeatsBetweenWindows == Spec => []RepeatedOutsideWindow
<1>1. Init => Sleep /\ Shown
  BY DEF Init, Sleep, Attended, StreamsInWindow, Underway, Starting, InProgress, Shown
<1>2. Shown => RepeatedOutsideWindow
  BY DEF Shown, RepeatedOutsideWindow
<1>3. QED
  BY Invariance, SleepKept, ShownKept, <1>1, <1>2, PTL DEF Spec
===============================================================================
