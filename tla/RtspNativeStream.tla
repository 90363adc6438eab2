-------------------------- MODULE RtspNativeStream --------------------------
(***************************************************************************)
(* The shared native stream of BaichuanRtspServer.ts: the first RTSP       *)
(* client starts it, every client subscribes to its fanout, it stops some  *)
(* time after the last client left, and it is restarted when the camera    *)
(* ends it while clients are connected.                                    *)
(*                                                                         *)
(* A call of startNativeStream() is named by its number; so are the        *)
(* dedicated session it acquires and the fanout (with its source, one      *)
(* camera stream) it creates.  Each client id connects once.  The idle     *)
(* timeouts have their defaults (all enabled) and always-on is disabled.   *)
(*                                                                         *)
(* The environment is of one of two kinds: with `overlap' clients, timers,  *)
(* the camera and stop() overtake transitions; without it they wait for a  *)
(* transition to end, and a start is faster than reading the metadata.     *)
(***************************************************************************)
EXTENDS Integers, FiniteSets

CONSTANTS
  Clients,    \* RTSP clients
  MaxRuns,    \* bound: calls of startNativeStream()
  MaxOverlaps, \* bound: the same when they may overlap
  ApiSleeps,  \* the control socket may be down, or go while a stream is started
  Overlaps,   \* kinds of environment
  MayStop     \* the server may be stopped

ASSUME NativeStreamAssumption ==
  /\ MaxRuns \in Nat /\ MaxOverlaps \in 0 .. MaxRuns
  /\ {ApiSleeps, MayStop} \subseteq BOOLEAN /\ Overlaps \subseteq BOOLEAN

VARIABLES
  overlap,        \* kind of the environment, chosen once
  active,         \* nativeStreamActive
  fanout,         \* nativeFanout: the run that made it, None when null
  release,        \* dedicatedSessionRelease: the run whose session it frees
  firstFrame,     \* firstFrameReceived
  hasParamSets,   \* of the flow, kept across streams
  noFrameTimer,   \* noFrameDeadlineTimer is armed
  noClientTimer,  \* noClientAutoStopTimer is armed
  calls,          \* history: calls of startNativeStream() past its first check
  call,           \* progress of each of them
  held,           \* sessions acquired and not released
  source,         \* of each fanout
  stop,           \* stopNativeStream() waiting for a fanout
  restart,        \* releaseAndRestart() of each fanout that ended
  hadFrames,      \* its closure: the stream had delivered
  connected,      \* connectedClients
  pipeline,       \* of each client
  feed,           \* the fanout a client's pipeline reads
  lost,           \* history: clients were left without the shared stream, see Lose
  tearingDown,
  teardown,       \* progress of stop()
  waiting         \* the fanout whose stop the teardown awaits

sessionVars == <<release, held>>
timerVars == <<noFrameTimer, noClientTimer>>
callVars == <<calls, call>>
clientVars == <<connected, pipeline, feed, lost>>
downVars == <<tearingDown, teardown, waiting, overlap>>
vars == <<active, fanout, sessionVars, firstFrame, hasParamSets, timerVars, callVars,
          source, stop, restart, hadFrames, clientVars, downVars>>

Runs == 1 .. MaxRuns
None == 0
Live(r) == source[r] \in {"running", "stopping"}

Quiet ==
  /\ \A r \in Runs : /\ call[r] \in {"none", "done"}
                     /\ stop[r] # "awaiting" /\ source[r] # "stopping"
                     /\ restart[r] \notin {"releasing", "sleeping"}
  /\ \A c \in Clients : pipeline[c] # "preparing"

\* A client waits for the stream, or watches it.
Attending == connected # {} \/ \E c \in Clients : pipeline[c] = "preparing"

\* The shared stream fails to start, ends or is stopped: who attends it has to do
\* with a stream of its own, and so may those who come until all have gone.
Lose == lost' = (lost \/ Attending)
Recover ==
  lost' = (lost /\ \/ Attending' \/ \E c \in Clients : pipeline'[c] = "own"
                   \/ active /\ fanout = None)

Undisturbed == overlap \/ Quiet
StartsLeft == calls < IF overlap THEN MaxOverlaps ELSE MaxRuns

-----------------------------------------------------------------------------
(* startNativeStream().                                                    *)

\* The synchronous part after the API is known to be connected.
Activate(r) ==
  /\ active' = TRUE
  /\ firstFrame' = FALSE
  /\ call' = [call EXCEPT ![r] = "session"]

\* startNativeStream() up to its first await; a stream that is active is left.
Start ==
  IF active
  THEN UNCHANGED <<active, firstFrame, callVars>>
  ELSE /\ StartsLeft
       /\ calls' = calls + 1
       /\ \/ Activate(calls + 1)
          \/ /\ ApiSleeps
             /\ call' = [call EXCEPT ![calls + 1] = "connecting"]
             /\ UNCHANGED <<active, firstFrame>>

\* ensureConnected() settles.  `nativeStreamActive' is not read again.
Connected(r) ==
  /\ call[r] = "connecting"
  /\ Activate(r)
  /\ UNCHANGED <<fanout, sessionVars, hasParamSets, timerVars, calls, source, stop,
                 restart, hadFrames, clientVars, downVars>>

\* An API that is closed makes the start return at once, to the same effect.
ConnectFails(r) ==
  /\ call[r] = "connecting"
  /\ call' = [call EXCEPT ![r] = "done"]
  /\ Lose
  /\ UNCHANGED <<active, firstFrame, fanout, sessionVars, hasParamSets, timerVars, calls,
                 source, stop, restart, hadFrames, connected, pipeline, feed, downVars>>

\* createDedicatedSession() settles, with a session or with an error that makes
\* the stream fall back to the shared socket; the fanout is created and started
\* and both timers are armed, whatever was stopped meanwhile.
Launch(r) ==
  /\ call[r] = "session"
  /\ call' = [call EXCEPT ![r] = "done"]
  /\ \/ held' = held \cup {r} /\ release' = r
     \/ UNCHANGED sessionVars
  /\ fanout' = r
  /\ source' = [source EXCEPT ![r] = "running"]
  /\ noFrameTimer' = TRUE /\ noClientTimer' = TRUE
  /\ UNCHANGED <<active, firstFrame, hasParamSets, calls, stop, restart, hadFrames,
                 clientVars, downVars>>

\* The general socket is gone when startKeepAlive() asks for it: the call is
\* rejected with `nativeStreamActive' set, the session kept, no fanout, no timer.
LaunchFails(r) ==
  /\ call[r] = "session" /\ ApiSleeps
  /\ call' = [call EXCEPT ![r] = "done"]
  /\ \/ held' = held \cup {r} /\ release' = r
     \/ UNCHANGED sessionVars
  /\ lost' = TRUE
  /\ UNCHANGED <<active, firstFrame, fanout, hasParamSets, timerVars, calls, source, stop,
                 restart, hadFrames, connected, pipeline, feed, downVars>>

-----------------------------------------------------------------------------
(* stopNativeStream() and the end of a fanout.                             *)

\* Mutant: the handle is kept after its session is released.
ReleaseSession_KeepsHandle ==
  /\ held' = held \ {release}
  /\ UNCHANGED release

\* The handle is taken out before its session is released.
ReleaseSession ==
  /\ held' = held \ {release}
  /\ release' = None

\* Mutant: the pipeline is told, the queue it reads is not.
EndOfFeed_KeepsFeed(r) ==
  /\ pipeline' = [c \in Clients |-> IF feed[c] = r THEN "over" ELSE pipeline[c]]
  /\ UNCHANGED feed

\* The clients that read fanout r come to the end of their queue.
EndOfFeed(r) ==
  /\ pipeline' = [c \in Clients |-> IF feed[c] = r THEN "over" ELSE pipeline[c]]
  /\ feed' = [c \in Clients |-> IF feed[c] = r THEN None ELSE feed[c]]

\* stopNativeStream() up to its first await: with a fanout the source is told
\* to return, without one the session is released at once.
StopNativeStream ==
  IF ~active
  THEN UNCHANGED <<active, firstFrame, fanout, sessionVars, timerVars, source, stop,
                   pipeline, feed, lost>>
  ELSE /\ active' = FALSE /\ firstFrame' = FALSE
       /\ noFrameTimer' = FALSE /\ noClientTimer' = FALSE
       /\ fanout' = None
       /\ Lose
       /\ IF fanout = None
          THEN ReleaseSession /\ UNCHANGED <<source, stop, pipeline, feed>>
          ELSE /\ source' = [source EXCEPT ![fanout] =
                               IF @ = "running" THEN "stopping" ELSE @]
               /\ EndOfFeed(fanout)
               /\ stop' = [stop EXCEPT ![fanout] = "awaiting"]
               /\ UNCHANGED sessionVars

\* fanout.stop() settles: the session in use at that moment is released.
Stopped(r) ==
  /\ stop[r] = "awaiting" /\ ~Live(r)
  /\ stop' = [stop EXCEPT ![r] = "done"]
  /\ ReleaseSession
  /\ UNCHANGED <<active, fanout, firstFrame, hasParamSets, timerVars, callVars, source,
                 restart, hadFrames, clientVars, downVars>>

\* The check of releaseAndRestart() once the session is released.
AfterRelease(had) ==
  IF ~tearingDown /\ connected # {} /\ had THEN "sleeping" ELSE "done"

\* onEnd of fanout r: the state of the stream is reset, whichever stream is
\* active, and its session released.
OnEnd(r) ==
  IF ~active
  THEN UNCHANGED <<active, firstFrame, noFrameTimer, fanout, sessionVars, restart,
                   hadFrames, lost>>
  ELSE /\ active' = FALSE /\ firstFrame' = FALSE /\ noFrameTimer' = FALSE
       /\ fanout' = None
       /\ Lose
       /\ ReleaseSession
       /\ hadFrames' = [hadFrames EXCEPT ![r] = firstFrame]
       /\ restart' = [restart EXCEPT ![r] = IF release = None THEN AfterRelease(firstFrame)
                                            ELSE "releasing"]

\* The camera ends the stream, or its source returns as it was told.
SourceEnds(r) ==
  /\ Live(r)
  /\ source[r] = "stopping" \/ Undisturbed
  /\ source' = [source EXCEPT ![r] = "ended"]
  /\ EndOfFeed(r)
  /\ OnEnd(r)
  /\ UNCHANGED <<hasParamSets, noClientTimer, callVars, stop, connected, downVars>>

\* release() settles.
Released(r) ==
  /\ restart[r] = "releasing"
  /\ restart' = [restart EXCEPT ![r] = AfterRelease(hadFrames[r])]
  /\ UNCHANGED <<active, fanout, sessionVars, firstFrame, hasParamSets, timerVars,
                 callVars, source, stop, hadFrames, clientVars, downVars>>

\* The 500 ms after which the stream is restarted are over.
Restart(r) ==
  /\ restart[r] = "sleeping"
  /\ restart' = [restart EXCEPT ![r] = "done"]
  /\ Start
  /\ UNCHANGED <<fanout, sessionVars, hasParamSets, timerVars, source, stop, hadFrames,
                 clientVars, downVars>>

\* A key frame arrives: its parameter sets are kept and the stream is alive.
Frame(r) ==
  /\ Live(r)
  /\ hasParamSets' = TRUE
  /\ firstFrame' = active
  /\ noFrameTimer' = (noFrameTimer /\ (~active \/ firstFrame))
  /\ UNCHANGED <<active, fanout, sessionVars, noClientTimer, callVars, source, stop,
                 restart, hadFrames, clientVars, downVars>>

\* No frame came within the deadline.
FireNoFrame ==
  /\ noFrameTimer /\ Undisturbed
  /\ IF ~firstFrame /\ active
     THEN StopNativeStream
     ELSE /\ noFrameTimer' = FALSE
          /\ UNCHANGED <<active, firstFrame, fanout, sessionVars, noClientTimer, source,
                         stop, pipeline, feed, lost>>
  /\ UNCHANGED <<hasParamSets, callVars, restart, hadFrames, connected, downVars>>

\* Mutant: nobody looks at the stream that was primed or left.
FireNoClient_Nothing ==
  /\ noClientTimer /\ Undisturbed
  /\ noClientTimer' = FALSE
  /\ UNCHANGED <<active, firstFrame, fanout, sessionVars, noFrameTimer, source, stop,
                 hasParamSets, callVars, restart, hadFrames, clientVars, downVars>>

\* No client came, or none came back.
FireNoClient ==
  /\ noClientTimer /\ Undisturbed
  /\ IF connected = {} /\ active
     THEN StopNativeStream
     ELSE /\ noClientTimer' = FALSE
          /\ UNCHANGED <<active, firstFrame, fanout, sessionVars, noFrameTimer, source,
                         stop, pipeline, feed, lost>>
  /\ UNCHANGED <<hasParamSets, callVars, restart, hadFrames, connected, downVars>>

-----------------------------------------------------------------------------
(* RTSP clients.                                                           *)

\* DESCRIBE primes the stream unless its parameter sets are known.
Describe ==
  /\ teardown # "down" /\ Undisturbed
  /\ ~hasParamSets /\ connected = {} /\ ~active
  /\ Start
  /\ UNCHANGED <<fanout, sessionVars, hasParamSets, timerVars, source, stop, restart,
                 hadFrames, clientVars, downVars>>

\* Mutant: every client starts a stream of its own.
Setup_StartsEach(c) ==
  /\ teardown # "down" /\ Undisturbed
  /\ pipeline[c] = "none"
  /\ pipeline' = [pipeline EXCEPT ![c] = "preparing"]
  /\ connected' = connected \cup {c}
  /\ noClientTimer' = FALSE
  /\ StartsLeft /\ calls' = calls + 1 /\ Activate(calls + 1)
  /\ UNCHANGED <<fanout, sessionVars, hasParamSets, noFrameTimer, source, stop, restart,
                 hadFrames, feed, lost, downVars>>

\* SETUP of a track: the only client starts the stream when none is active;
\* the first SETUP of a client begins its pipeline.
Setup(c) ==
  /\ teardown # "down" /\ Undisturbed
  /\ \/ pipeline[c] = "none" /\ pipeline' = [pipeline EXCEPT ![c] = "preparing"]
     \/ c \in connected /\ pipeline[c] # "preparing" /\ UNCHANGED pipeline
  /\ connected' = connected \cup {c}
  /\ noClientTimer' = FALSE
  /\ IF connected' = {c} THEN Start ELSE UNCHANGED <<active, firstFrame, callVars>>
  /\ UNCHANGED <<fanout, sessionVars, hasParamSets, noFrameTimer, source, stop, restart,
                 hadFrames, feed, lost, downVars>>

\* startClientFfmpeg() has the metadata: the pipeline subscribes to the fanout,
\* or opens a native stream of its own when there is none.
Subscribe(c) ==
  /\ pipeline[c] = "preparing"
  /\ overlap \/ \A r \in Runs : call[r] \in {"none", "done"}
  /\ pipeline' = [pipeline EXCEPT ![c] = IF fanout = None THEN "own" ELSE "feeding"]
  /\ feed' = [feed EXCEPT ![c] = fanout]
  /\ UNCHANGED <<active, fanout, sessionVars, firstFrame, hasParamSets, timerVars,
                 callVars, source, stop, restart, hadFrames, connected, lost, downVars>>

\* The camera ends a client's own stream, or the client has left it.
OwnEnds(c) ==
  /\ pipeline[c] = "own"
  /\ pipeline' = [pipeline EXCEPT ![c] = "over"]
  /\ UNCHANGED connected
  /\ Recover
  /\ UNCHANGED <<active, fanout, sessionVars, firstFrame, hasParamSets, timerVars,
                 callVars, source, stop, restart, hadFrames, feed, downVars>>

\* removeClient() and the end of the pipeline at its next frame.
Leave(c) ==
  /\ c \in connected /\ Undisturbed
  /\ connected' = connected \ {c}
  /\ noClientTimer' = (noClientTimer \/ connected' = {})
  /\ IF pipeline[c] = "feeding"
     THEN pipeline' = [pipeline EXCEPT ![c] = "over"] /\ feed' = [feed EXCEPT ![c] = None]
     ELSE UNCHANGED <<pipeline, feed>>
  /\ Recover
  /\ UNCHANGED <<active, fanout, sessionVars, firstFrame, hasParamSets, noFrameTimer,
                 callVars, source, stop, restart, hadFrames, downVars>>

-----------------------------------------------------------------------------
(* stop() of the server.                                                   *)

Stop ==
  /\ MayStop /\ teardown = "up" /\ Undisturbed
  /\ tearingDown' = TRUE
  /\ teardown' = "stopping"
  /\ waiting' = IF active THEN fanout ELSE None
  /\ StopNativeStream
  /\ UNCHANGED <<hasParamSets, callVars, restart, hadFrames, connected, overlap>>

\* The clients' sockets are destroyed, which removes the clients, and the
\* listening socket is closed.
TornDown ==
  /\ teardown = "stopping"
  /\ waiting # None => stop[waiting] = "done"
  /\ teardown' = "down"
  /\ connected' = {}
  /\ noClientTimer' = (noClientTimer \/ connected # {})
  /\ pipeline' = [c \in Clients |-> IF pipeline[c] = "feeding" THEN "over" ELSE pipeline[c]]
  /\ feed' = [c \in Clients |-> None]
  /\ Recover
  /\ UNCHANGED <<active, fanout, sessionVars, firstFrame, hasParamSets, noFrameTimer,
                 callVars, source, stop, restart, hadFrames, tearingDown, waiting,
                 overlap>>

-----------------------------------------------------------------------------
\* start() has run: the server listens and no stream was asked for.
Init ==
  /\ overlap \in Overlaps
  /\ active = FALSE /\ fanout = None /\ release = None
  /\ firstFrame = FALSE /\ hasParamSets = FALSE
  /\ noFrameTimer = FALSE /\ noClientTimer = FALSE
  /\ calls = 0 /\ call = [r \in Runs |-> "none"]
  /\ held = {}
  /\ source = [r \in Runs |-> "none"] /\ stop = [r \in Runs |-> "none"]
  /\ restart = [r \in Runs |-> "none"] /\ hadFrames = [r \in Runs |-> FALSE]
  /\ connected = {}
  /\ pipeline = [c \in Clients |-> "none"] /\ feed = [c \in Clients |-> None]
  /\ lost = FALSE
  /\ tearingDown = FALSE /\ teardown = "up" /\ waiting = None

Starting(r) == Connected(r) \/ ConnectFails(r) \/ Launch(r) \/ LaunchFails(r)
Ending(r) == Stopped(r) \/ Released(r) \/ Restart(r)
Client(c) == Setup(c) \/ Subscribe(c) \/ OwnEnds(c) \/ Leave(c)

Next ==
  \/ \E r \in Runs : Starting(r) \/ Ending(r) \/ SourceEnds(r) \/ Frame(r)
  \/ FireNoFrame \/ FireNoClient
  \/ Describe \/ \E c \in Clients : Client(c)
  \/ Stop \/ TornDown

Spec == Init /\ [][Next]_vars

(* Promises settle, timers fire, an aborted source returns, and a client's *)
(* own stream ends after the client left.  Clients, frames, the camera     *)
(* ending a stream and stop() may never come.                              *)
FairSpec ==
  /\ Spec
  /\ \A r \in Runs : WF_vars(Starting(r)) /\ WF_vars(Ending(r))
  /\ \A r \in Runs : WF_vars(source[r] = "stopping" /\ SourceEnds(r))
  /\ \A c \in Clients : WF_vars(Subscribe(c)) /\ WF_vars(c \notin connected /\ OwnEnds(c))
  /\ WF_vars(FireNoFrame) /\ WF_vars(FireNoClient) /\ WF_vars(TornDown)

-----------------------------------------------------------------------------
(* Properties.                                                             *)

\* Type invariant; a client reads a fanout exactly when it is "feeding".
TypeOK ==
  /\ {overlap, active, firstFrame, hasParamSets, noFrameTimer, noClientTimer, tearingDown,
      lost} \subseteq BOOLEAN
  /\ fanout \in 0 .. MaxRuns /\ release \in 0 .. MaxRuns /\ waiting \in 0 .. MaxRuns
  /\ calls \in 0 .. MaxRuns /\ held \subseteq Runs
  /\ call \in [Runs -> {"none", "connecting", "session", "done"}]
  /\ source \in [Runs -> {"none", "running", "stopping", "ended"}]
  /\ stop \in [Runs -> {"none", "awaiting", "done"}]
  /\ restart \in [Runs -> {"none", "releasing", "sleeping", "done"}]
  /\ hadFrames \in [Runs -> BOOLEAN]
  /\ connected \subseteq Clients
  /\ pipeline \in [Clients -> {"none", "preparing", "feeding", "own", "over"}]
  /\ feed \in [Clients -> 0 .. MaxRuns]
  /\ \A c \in Clients : feed[c] # None <=> pipeline[c] = "feeding"
  /\ teardown \in {"up", "stopping", "down"}

\* A session is released once: the handle the server keeps is always one of a
\* session it still holds, however starts, stops and restarts interleave (the
\* socket pool counts references, a second release would close a socket in use).
ReleasedOnce == release # None => release \in held

(* As long as clients, timers and the camera wait for transitions:         *)

\* "they all share the same underlying camera-native stream": one source at a time
\* and no camera stream of a client's own beside it, until a start has failed, or
\* the stream has ended or been stopped, with clients there; who attended it and
\* who comes before they have gone may then open a stream each.  Whatever failed,
\* no session is lost ("prevent session leaks"): each one held is referred to by
\* the handle, and no client is subscribed to a fanout that has ended ("a dead
\* queue and no frames").
OneSource ==
  ~overlap => /\ Cardinality({r \in Runs : Live(r)}) <= 1
              /\ ~lost => \A c \in Clients : pipeline[c] # "own"
              /\ held \subseteq {release}
              /\ \A c \in Clients : feed[c] # None => source[feed[c]] = "running"

\* "auto-stop after a short window so battery cams can go back to sleep": with
\* no client the camera is not kept streaming.
NoViewerSleeps ==
  connected = {} /\ ~overlap ~> (connected # {} \/ \A r \in Runs : ~Live(r))

\* "If connected clients exist, restart immediately so they can continue
\* receiving frames": a restarted stream feeds the clients it is started for.
ClientsResumed ==
  \A r \in Runs :
    restart[r] = "sleeping" ~>
      (\A c \in connected : pipeline[c] \in {"preparing", "feeding", "own"}) \/ connected = {}
=============================================================================
