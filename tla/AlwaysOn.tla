------------------------------ MODULE AlwaysOn ------------------------------
(***************************************************************************)
(* The always-on stream of a battery camera: AlwaysOnController opens a    *)
(* live window per trigger event, ContinuousVideoStream serves real frames *)
(* during a window and repeats the last keyframe outside, and a new        *)
(* BaichuanVideoStream is started for each window.  BaichuanRtspServer     *)
(* tears all of it down.                                                   *)
(*                                                                         *)
(* Every async function is a process that may be overtaken at its awaits.  *)
(* A trigger, the openWindow() call it causes, the timer that call arms    *)
(* and the live stream it starts are all named by the trigger's number.    *)
(* All window timers run for windowMs, so a timer fires less than windowMs *)
(* after the latest trigger exactly when it was armed before that trigger. *)
(* A live stream has a watchdog that asks the camera again when no media    *)
(* comes, and ends when the socket under it closes.                         *)
(***************************************************************************)
EXTENDS Integers, FiniteSets

CONSTANTS
  MaxTriggers,  \* bound: triggers, the prime on start included
  MayFail,      \* the camera may not answer the start request
  MayStop,      \* the server may be stopped
  MaxFaults     \* bound: silences of the camera and closes of the socket

ASSUME AlwaysOnAssumption ==
  /\ {MaxTriggers, MaxFaults} \subseteq Nat
  /\ {MayFail, MayStop} \subseteq BOOLEAN

VARIABLES
  triggers,     \* history: triggers so far
  overtaken,    \* history: a trigger or stop() came during a transition
  \* AlwaysOnController
  live,         \* a window is open
  windowTimer,  \* the timer this.windowTimer refers to
  armed,        \* timers that will fire
  stale,        \* history: those armed before the latest trigger
  call,         \* progress of each openWindow() call
  \* ContinuousVideoStream
  stream,       \* this.live
  starting,     \* goLive() is under way
  stopped,      \* stop() was called
  keyframe,     \* a keyframe is cached
  placeholder,  \* idlePlaceholder is set
  idleTimer,    \* this.idleTimer is set
  leaked,       \* idle intervals that run but are no longer referred to
  idling,       \* progress of goIdle() for each stream
  \* BaichuanVideoStream, camera, server
  active,       \* live streams whose `active' flag is set
  restarting,   \* progress of restartNativeStream() for each stream
  streaming,    \* the camera was asked for video last, not to stop
  faults,       \* history: silences and closes so far
  orphaned,     \* history: video was asked for that no stop() will end
  teardown,     \* progress of BaichuanRtspServer.stop()
  waiting       \* the stream whose goIdle() the teardown awaits

windowVars == <<triggers, overtaken, live, windowTimer, armed, stale>>
idleVars == <<placeholder, idleTimer, leaked>>
downVars == <<stopped, teardown, waiting>>
faultVars == <<restarting, faults, orphaned>>
vars == <<windowVars, call, stream, starting, keyframe, idleVars, idling,
          active, streaming, downVars, faultVars>>

Triggers == 1 .. MaxTriggers
None == 0

InProgress == {"waking", "resetting", "starting"}
Quiet ==
  /\ \A c \in Triggers : call[c] \notin InProgress
  /\ \A s \in Triggers : idling[s] \notin {"stopping", "rendering"}
  /\ teardown \in {"up", "closed"}

-----------------------------------------------------------------------------
(* ContinuousVideoStream.                                                  *)

\* stopIdleLoop()
StopIdleLoop ==
  /\ idleTimer' = FALSE
  /\ placeholder' = FALSE
  /\ UNCHANGED leaked

\* Mutant: goIdle() returns before starting the idle loop.
AfterStop_NoIdleLoop(s, now, isStopped) ==
  /\ idling' = [idling EXCEPT ![s] = now]
  /\ UNCHANGED idleVars

\* startIdleLoop() up to its await: with a keyframe the placeholder is
\* rendered by ffmpeg, without one there is nothing to repeat.
AfterStop(s, now, isStopped) ==
  /\ idling' = [idling EXCEPT ![s] = IF now # "done" THEN now
                                     ELSE IF keyframe /\ ~isStopped THEN "rendering"
                                     ELSE "done"]
  /\ placeholder' = (placeholder /\ (now # "done" \/ isStopped \/ keyframe))
  /\ UNCHANGED <<idleTimer, leaked>>

\* goIdle(): the stream is detached and asked to stop, which tells the camera.
GoIdle(isStopped) ==
  IF stream = None
  THEN UNCHANGED <<stream, streaming, idling, idleVars>>
  ELSE /\ stream' = None
       /\ streaming' = (streaming /\ stream \notin active)
       /\ AfterStop(stream, IF stream \in active THEN "stopping" ELSE "done", isStopped)

\* The stop request of s is answered: `active' is reset, the idle loop starts.
StopDone(s) ==
  /\ idling[s] = "stopping"
  /\ active' = active \ {s}
  /\ AfterStop(s, "done", stopped)
  /\ UNCHANGED <<windowVars, call, stream, starting, keyframe, streaming, downVars, faultVars>>

\* The placeholder is rendered: the interval starts, whatever happened since.
Rendered(s) ==
  /\ idling[s] = "rendering"
  /\ idling' = [idling EXCEPT ![s] = "done"]
  /\ placeholder' = TRUE
  /\ leaked' = IF idleTimer THEN leaked + 1 ELSE leaked
  /\ idleTimer' = TRUE
  /\ UNCHANGED <<windowVars, call, stream, starting, keyframe, active,
                 streaming, downVars, faultVars>>

\* The camera sends a keyframe to the attached stream.
Keyframe ==
  /\ streaming /\ stream \in active
  /\ keyframe' = TRUE
  /\ UNCHANGED <<windowVars, call, stream, starting, idleVars, idling, active,
                 streaming, downVars, faultVars>>

-----------------------------------------------------------------------------
(* AlwaysOnController.                                                     *)

\* The timer at the end of openWindow(); nothing checks for stop().
Arm(c) ==
  /\ armed' = armed \cup {c}
  /\ windowTimer' = c
  /\ UNCHANGED <<triggers, overtaken, live, stale>>

Overtake == overtaken' = (overtaken \/ ~Quiet)

\* Mutant: an event in an open window clears the timer and does not set it.
OpenWindow_NotExtended(c) ==
  /\ triggers' = c /\ Overtake
  /\ live' = TRUE
  /\ armed' = armed \ {windowTimer} /\ stale' = armed'
  /\ call' = [call EXCEPT ![c] = IF live THEN "done" ELSE "waking"]
  /\ UNCHANGED <<windowTimer, stream, starting, keyframe, idleVars, idling,
                 active, streaming, downVars, faultVars>>

\* Mutant: an open window is not extended.
OpenWindow_KeepsTimer(c) ==
  /\ triggers' = c /\ Overtake
  /\ live' = TRUE
  /\ stale' = armed
  /\ call' = [call EXCEPT ![c] = IF live THEN "done" ELSE "waking"]
  /\ UNCHANGED <<windowTimer, armed, stream, starting, keyframe, idleVars, idling,
                 active, streaming, downVars, faultVars>>

\* openWindow(): clears the timer, then wakes the camera or, when a window is
\* already open, only sets the timer again.
OpenWindow(c) ==
  /\ triggers' = c /\ Overtake
  /\ live' = TRUE
  /\ stale' = armed \ {windowTimer}
  /\ IF live
     THEN /\ armed' = stale' \cup {c} /\ windowTimer' = c
          /\ call' = [call EXCEPT ![c] = "done"]
     ELSE /\ armed' = stale' /\ UNCHANGED windowTimer
          /\ call' = [call EXCEPT ![c] = "waking"]
  /\ UNCHANGED <<stream, starting, keyframe, idleVars, idling, active, streaming,
                 downVars, faultVars>>

\* start() has subscribed and primes the stream, even if stop() came first.
Prime ==
  /\ triggers = 0 /\ MaxTriggers > 0
  /\ OpenWindow(1)

\* An event of a configured type arrives; stop() removes the listener first.
Event ==
  /\ triggers \in 1 .. MaxTriggers - 1
  /\ teardown = "up"
  /\ OpenWindow(triggers + 1)

\* Mutant: goLive() does not look at this.live.
Woken_NoGuard(c) ==
  /\ call[c] = "waking"
  /\ ~stopped /\ ~starting
  /\ call' = [call EXCEPT ![c] = "resetting"]
  /\ starting' = TRUE
  /\ StopIdleLoop
  /\ stream' = c
  /\ active' = active \cup {c}
  /\ streaming' = FALSE
  /\ UNCHANGED <<windowVars, keyframe, idling, downVars, faultVars>>

\* wakeUp() settles and goLive() is called; a stream that exists or is being
\* started, or a stopped one, makes it return at once.
Woken(c) ==
  /\ call[c] = "waking"
  /\ IF stopped \/ stream # None \/ starting
     THEN /\ call' = [call EXCEPT ![c] = "done"]
          /\ Arm(c)
          /\ UNCHANGED <<stream, starting, active, streaming, idleVars>>
     ELSE /\ call' = [call EXCEPT ![c] = "resetting"]
          /\ starting' = TRUE
          /\ StopIdleLoop
          /\ stream' = c
          /\ active' = active \cup {c}
          /\ streaming' = FALSE       \* start() first stops the profile
          /\ UNCHANGED windowVars
  /\ UNCHANGED <<keyframe, idling, downVars, faultVars>>

\* startVideoStream() for s reaches the camera, over a new connection if need be.
\* Nobody will ask the camera to stop if s is detached already or has ended.
AskForVideo(s) ==
  /\ streaming' = TRUE
  /\ orphaned' = (orphaned \/ s # stream \/ s \notin active)

\* BaichuanVideoStream.start() resumes 100 ms after its stop request and asks
\* the camera for video, whether or not the stream was stopped meanwhile; over
\* UDP it asks again when the request fails.
Request(c) ==
  /\ call[c] = "resetting" \/ (MayFail /\ call[c] = "starting" /\ ~streaming)
  /\ call' = [call EXCEPT ![c] = "starting"]
  /\ AskForVideo(c)
  /\ UNCHANGED <<windowVars, stream, starting, keyframe, idleVars, idling, active,
                 downVars, restarting, faults>>

\* Mutant: the `finally' block is missing.
Started_KeepsFlag(c) ==
  /\ call[c] = "starting"
  /\ call' = [call EXCEPT ![c] = "done"]
  /\ Arm(c)
  /\ UNCHANGED <<stream, starting, keyframe, idleVars, idling, active, streaming,
                 downVars, faultVars>>

\* The camera answers: goLive() ends and openWindow() sets its timer.
Started(c) ==
  /\ call[c] = "starting"
  /\ call' = [call EXCEPT ![c] = "done"]
  /\ starting' = FALSE
  /\ Arm(c)
  /\ UNCHANGED <<stream, keyframe, idleVars, idling, active, streaming, downVars, faultVars>>

\* The camera does not answer (UDP): start() throws, which goLive() reports as
\* an 'error' event only.  The camera may have got the request all the same.
StartFails(c) ==
  /\ MayFail
  /\ call[c] \in {"resetting", "starting"}
  /\ call' = [call EXCEPT ![c] = "done"]
  /\ starting' = FALSE
  /\ active' = active \ {c}
  /\ Arm(c)
  /\ orphaned' = (orphaned \/ streaming)
  /\ UNCHANGED <<stream, keyframe, idleVars, idling, streaming, downVars,
                 restarting, faults>>

\* Mutant: the flag is reset, the stream is left alone.
CloseWindow_StaysLive(t) ==
  /\ t \in armed
  /\ armed' = armed \ {t} /\ stale' = stale \ {t}
  /\ windowTimer' = None
  /\ live' = FALSE
  /\ UNCHANGED <<triggers, overtaken, call, stream, streaming, idling, idleVars, starting,
                 keyframe, active, downVars, faultVars>>

\* closeWindow(), fired by a timer
CloseWindow(t) ==
  /\ t \in armed
  /\ armed' = armed \ {t} /\ stale' = stale \ {t}
  /\ windowTimer' = None
  /\ live' = FALSE
  /\ IF live THEN GoIdle(stopped) ELSE UNCHANGED <<stream, streaming, idling, idleVars>>
  /\ UNCHANGED <<triggers, overtaken, call, starting, keyframe, active, downVars, faultVars>>

-----------------------------------------------------------------------------
(* BaichuanVideoStream while it is active.                                 *)

\* The watchdog of s runs; stop() stops it before it asks the camera to stop.
Watched(s) == s \in active /\ idling[s] # "stopping"

\* No media came for idleRestartMs: restartNativeStream() asks the camera to
\* stop.  Three restarts a minute are more than MaxFaults.
WatchdogTick(s) ==
  /\ Watched(s) /\ restarting[s] = "none"
  /\ faults < MaxFaults /\ faults' = faults + 1
  /\ restarting' = [restarting EXCEPT ![s] = "stopping"]
  /\ streaming' = FALSE
  /\ UNCHANGED <<windowVars, call, stream, starting, keyframe, idleVars, idling,
                 active, downVars, orphaned>>

\* The stop request has settled, or the last request failed (UDP): the camera is
\* asked for video; `active' is not read again.
RestartRequests(s) ==
  /\ restarting[s] = "stopping" \/ (MayFail /\ restarting[s] = "asking" /\ ~streaming)
  /\ restarting' = [restarting EXCEPT ![s] = "asking"]
  /\ AskForVideo(s)
  /\ UNCHANGED <<windowVars, call, stream, starting, keyframe, idleVars, idling,
                 active, downVars, faults>>

\* startVideoStream() settles; a failure is an 'error' event.
RestartEnds(s) ==
  /\ restarting[s] = "asking" \/ (MayFail /\ restarting[s] = "stopping")
  /\ restarting' = [restarting EXCEPT ![s] = "none"]
  /\ UNCHANGED <<windowVars, call, stream, starting, keyframe, idleVars, idling,
                 active, streaming, downVars, faults, orphaned>>

\* clientCloseHandler of every stream that has not been asked to stop: it ends
\* and leaves this.live of the continuous stream set.
SocketCloses ==
  /\ faults < MaxFaults /\ faults' = faults + 1
  /\ active' = {s \in active : idling[s] = "stopping"}
  /\ streaming' = FALSE
  /\ UNCHANGED <<windowVars, call, stream, starting, keyframe, idleVars, idling,
                 downVars, restarting, orphaned>>

-----------------------------------------------------------------------------
(* BaichuanRtspServer.stop(): controller.stop(), then stream.stop().       *)

\* The part of ContinuousVideoStream.stop() up to its await.
StopStream ==
  /\ stopped' = TRUE
  /\ IF stream = None
     THEN teardown' = "closed" /\ waiting' = None /\ StopIdleLoop
          /\ UNCHANGED <<stream, streaming, idling>>
     ELSE teardown' = "closing" /\ waiting' = stream /\ GoIdle(TRUE)

\* controller.stop() up to its first await
Stop ==
  /\ MayStop /\ teardown = "up"
  /\ teardown' = "unsubscribing" /\ Overtake
  /\ armed' = armed \ {windowTimer} /\ stale' = stale \ {windowTimer}
  /\ windowTimer' = None
  /\ UNCHANGED <<triggers, live, call, stream, starting, keyframe, idleVars,
                 idling, active, streaming, stopped, waiting, faultVars>>

\* offSimpleEvent() settles.
Unsubscribed ==
  /\ teardown = "unsubscribing"
  /\ live' = FALSE
  /\ IF live /\ stream # None
     THEN teardown' = "idling" /\ waiting' = stream /\ GoIdle(stopped)
          /\ UNCHANGED stopped
     ELSE StopStream
  /\ UNCHANGED <<triggers, overtaken, windowTimer, armed, stale, call, starting,
                 keyframe, active, faultVars>>

Idled ==
  /\ teardown = "idling" /\ idling[waiting] = "done"
  /\ StopStream
  /\ UNCHANGED <<windowVars, call, starting, keyframe, active, faultVars>>

Closed ==
  /\ teardown = "closing" /\ idling[waiting] = "done"
  /\ teardown' = "closed"
  /\ StopIdleLoop
  /\ UNCHANGED <<windowVars, call, stream, starting, keyframe, idling, active,
                 streaming, stopped, waiting, faultVars>>

-----------------------------------------------------------------------------
Init ==
  /\ triggers = 0 /\ overtaken = FALSE
  /\ live = FALSE /\ windowTimer = None /\ armed = {} /\ stale = {}
  /\ call = [c \in Triggers |-> "none"]
  /\ stream = None /\ starting = FALSE /\ stopped = FALSE /\ keyframe = FALSE
  /\ placeholder = FALSE /\ idleTimer = FALSE /\ leaked = 0
  /\ idling = [s \in Triggers |-> "none"]
  /\ active = {} /\ streaming = FALSE
  /\ restarting = [s \in Triggers |-> "none"] /\ faults = 0 /\ orphaned = FALSE
  /\ teardown = "up" /\ waiting = None

Open(c) == Woken(c) \/ Request(c) \/ Started(c) \/ StartFails(c)
Idle(s) == StopDone(s) \/ Rendered(s)
Restart(s) == RestartRequests(s) \/ RestartEnds(s)

Next ==
  \/ Prime \/ Event \/ Keyframe
  \/ \E c \in Triggers : Open(c) \/ Idle(c) \/ WatchdogTick(c) \/ Restart(c)
  \/ SocketCloses
  \/ \E t \in armed : CloseWindow(t)
  \/ Stop \/ Unsubscribed \/ Idled \/ Closed

Spec == Init /\ [][Next]_vars

(* Promises settle and timers fire; triggers and stop() may never come. *)
FairSpec ==
  /\ Spec
  /\ \A c \in Triggers : WF_vars(Open(c)) /\ WF_vars(Idle(c)) /\ WF_vars(Restart(c))
  /\ \A t \in Triggers : WF_vars(CloseWindow(t))
  /\ WF_vars(Unsubscribed) /\ WF_vars(Idled) /\ WF_vars(Closed)

-----------------------------------------------------------------------------
(* Properties.                                                             *)

\* Type invariant of the controller, the stream and the teardown.
TypeOK ==
  /\ triggers \in 0 .. MaxTriggers
  /\ overtaken \in BOOLEAN /\ live \in BOOLEAN /\ windowTimer \in 0 .. MaxTriggers
  /\ armed \subseteq Triggers /\ stale \subseteq armed
  /\ call \in [Triggers -> InProgress \cup {"none", "done"}]
  /\ stream \in 0 .. MaxTriggers
  /\ starting <=> \E c \in Triggers : call[c] \in {"resetting", "starting"}
  /\ {starting, stopped, keyframe, placeholder, idleTimer, streaming, orphaned} \subseteq BOOLEAN
  /\ restarting \in [Triggers -> {"none", "stopping", "asking"}] /\ faults \in 0 .. MaxFaults
  /\ leaked \in Nat
  /\ idling \in [Triggers -> {"none", "stopping", "rendering", "done"}]
  /\ active \subseteq Triggers
  /\ teardown \in {"up", "unsubscribing", "idling", "closing", "closed"}
  /\ waiting \in 0 .. MaxTriggers

\* An open window always ends: a timer is armed or an openWindow() call that
\* will arm one is under way, however calls and timers interleave.  A window
\* without either keeps a battery camera awake for good.
OpenWindowEnds ==
  live /\ teardown = "up" =>
    armed # {} \/ \E c \in Triggers : call[c] \in InProgress

\* Frames the attached stream delivers, or the placeholder interval.
Producing ==
  \/ streaming /\ stream \in active
  \/ placeholder /\ (idleTimer \/ leaked > 0)

(* As long as no trigger and no stop() comes during a transition:          *)

\* A continuous stream: once a keyframe was seen, the consumer is always going
\* to get frames again, until the server is stopped.
StaysContinuous == keyframe ~> (Producing \/ teardown # "up" \/ overtaken)

\* "Subsequent events within that window extend it": a window is not closed by
\* a timer older than the latest trigger.
WindowExtended ==
  [][\A t \in stale : CloseWindow(t) => ~live \/ overtaken]_vars

\* One producer: of the live streams whose `active' flag is set, at most one has
\* not been asked to stop (the re-entrancy guard of goLive()), and, as "while the
\* camera sleeps the last keyframe is repeated", placeholder frames are not
\* mixed into it.
OneProducer ==
  /\ \A s \in active : s = stream \/ idling[s] = "stopping"
  /\ stream # None /\ ~overtaken => ~(placeholder /\ (idleTimer \/ leaked > 0))

\* "camera can sleep": when triggers end, the camera is no longer asked for
\* video, unless the request of a start or of a watchdog's restart came after
\* the end of its stream.
SleepsUnlessOvertaken == <>(overtaken \/ orphaned) \/ <>[]~streaming
=============================================================================
