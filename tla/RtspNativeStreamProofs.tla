------------------------ MODULE RtspNativeStreamProofs ------------------------
(***************************************************************************)
(* Safety of the shared native stream for every number of clients and of   *)
(* starts.                                                                 *)
(***************************************************************************)
EXTENDS RtspNativeStream, FiniteSetTheorems, TLAPS

-----------------------------------------------------------------------------
(* The inductive invariant.                                                *)

Busy(r) == call[r] \in {"connecting", "session"}
Stopping(r) == stop[r] = "awaiting"
Restarting(r) == restart[r] \in {"releasing", "sleeping"}

\* Start, stop and restart exclude each other.
OneTransition ==
  /\ \A r \in Runs : Busy(r) =>
       /\ active <=> call[r] = "session"
       /\ fanout = None
       /\ \A s \in Runs : (Busy(s) => s = r) /\ ~Stopping(s) /\ ~Restarting(s)
  /\ \A r \in Runs : Stopping(r) =>
       ~active /\ \A s \in Runs : (Stopping(s) => s = r) /\ ~Restarting(s)
  /\ \A r \in Runs : Restarting(r) =>
       ~active /\ \A s \in Runs : Restarting(s) => s = r

\* A fanout belongs to an active stream and has a running source; a source and a
\* session outlive it only while it is being stopped.
OneFanout ==
  /\ fanout # None => active /\ source[fanout] = "running"
  /\ \A r \in Runs : Live(r) => r = fanout \/ (Stopping(r) /\ source[r] = "stopping")
  /\ \A c \in Clients : feed[c] \in {None, fanout}

OneSession ==
  /\ held \subseteq {release}
  /\ release # None => \/ active /\ \A r \in Runs : ~Busy(r)
                       \/ \E r \in Runs : Stopping(r)

\* Unless clients were left without the stream: whoever attends it has one that is
\* active or being started, which has a fanout as soon as the start has ended.
Sharing ==
  ~lost => /\ \A c \in Clients : pipeline[c] # "own"
           /\ Attending => active \/ \E r \in Runs : Busy(r)
           /\ active /\ (\A r \in Runs : ~Busy(r)) => fanout # None

Serial == ~overlap => OneTransition /\ OneFanout /\ OneSession /\ Sharing

Inv == TypeOK /\ ReleasedOnce /\ Serial

NoTransition == \A r \in Runs : ~Busy(r) /\ ~Stopping(r) /\ ~Restarting(r)

-----------------------------------------------------------------------------
(* Types, and that the handle is that of a session held.                   *)

LEMMA InitTyped == Init => TypeOK /\ ReleasedOnce
<1> SUFFICES ASSUME Init PROVE TypeOK /\ ReleasedOnce
  OBVIOUS
<1>1. /\ overlap \in BOOLEAN /\ active \in BOOLEAN /\ firstFrame \in BOOLEAN
      /\ hasParamSets \in BOOLEAN /\ noFrameTimer \in BOOLEAN
      /\ noClientTimer \in BOOLEAN /\ tearingDown \in BOOLEAN /\ lost \in BOOLEAN
  BY NativeStreamAssumption DEF Init
<1>2. /\ fanout \in 0 .. MaxRuns /\ release \in 0 .. MaxRuns /\ waiting \in 0 .. MaxRuns
      /\ calls \in 0 .. MaxRuns /\ held \subseteq Runs
  BY NativeStreamAssumption DEF Init, None
<1>3. \A c \in Clients : feed[c] # None <=> pipeline[c] = "feeding"
  BY DEF Init
<1>4. feed \in [Clients -> 0 .. MaxRuns]
  BY NativeStreamAssumption DEF Init, None
<1>5. QED
  BY <1>1, <1>2, <1>3, <1>4 DEF Init, TypeOK, ReleasedOnce

Kept == TypeOK /\ ReleasedOnce

\* The history of clients left without the stream is a flag.
LEMMA LostTyped ==
  ASSUME Kept, Lose \/ Recover \/ UNCHANGED lost PROVE lost' \in BOOLEAN
BY DEF Kept, TypeOK, Lose, Recover, Attending

LEMMA SessionReleased ==
  ASSUME Kept, ReleaseSession
  PROVE  release' = None /\ held' \subseteq Runs
BY DEF Kept, TypeOK, ReleaseSession, None

\* startNativeStream() changes the flags and the calls only.
LEMMA StartTyped ==
  ASSUME Kept, Start
  PROVE  /\ active' \in BOOLEAN /\ firstFrame' \in BOOLEAN
         /\ calls' \in 0 .. MaxRuns
         /\ call' \in [Runs -> {"none", "connecting", "session", "done"}]
<1>1. CASE active
  BY <1>1 DEF Start, callVars, Kept, TypeOK
<1>2. CASE ~active
  <2>1. calls + 1 \in Runs /\ calls' = calls + 1
    BY <1>2, NativeStreamAssumption DEF Start, StartsLeft, Kept, TypeOK, Runs
  <2>2. \/ Activate(calls + 1)
        \/ call' = [call EXCEPT ![calls + 1] = "connecting"] /\ UNCHANGED <<active, firstFrame>>
    BY <1>2 DEF Start
  <2>3. calls' \in 0 .. MaxRuns
    BY <2>1 DEF Runs, Kept, TypeOK
  <2>4. QED
    BY <2>1, <2>2, <2>3 DEF Activate, Kept, TypeOK
<1>3. QED
  BY <1>1, <1>2

FeedTyped ==
  /\ pipeline \in [Clients -> {"none", "preparing", "feeding", "own", "over"}]
  /\ feed \in [Clients -> 0 .. MaxRuns]
  /\ \A c \in Clients : feed[c] # None <=> pipeline[c] = "feeding"

LEMMA EndOfFeedTyped ==
  ASSUME Kept, NEW r \in 0 .. MaxRuns, r # None, EndOfFeed(r)
  PROVE  FeedTyped'
<1>1. /\ pipeline' = [c \in Clients |-> IF feed[c] = r THEN "over" ELSE pipeline[c]]
      /\ feed' = [c \in Clients |-> IF feed[c] = r THEN None ELSE feed[c]]
  BY DEF EndOfFeed
<1>2. None \in 0 .. MaxRuns
  BY NativeStreamAssumption DEF None
<1>3. QED
  BY <1>1, <1>2 DEF FeedTyped, Kept, TypeOK

LEMMA StopStreamTyped ==
  ASSUME Kept, StopNativeStream
  PROVE  /\ active' \in BOOLEAN /\ firstFrame' \in BOOLEAN
         /\ noFrameTimer' \in BOOLEAN /\ noClientTimer' \in BOOLEAN
         /\ fanout' \in 0 .. MaxRuns /\ release' \in 0 .. MaxRuns /\ held' \subseteq Runs
         /\ source' \in [Runs -> {"none", "running", "stopping", "ended"}]
         /\ stop' \in [Runs -> {"none", "awaiting", "done"}]
         /\ ReleasedOnce' /\ FeedTyped' /\ lost' \in BOOLEAN
<1>0. None \in 0 .. MaxRuns /\ lost' \in BOOLEAN
  BY NativeStreamAssumption, LostTyped DEF None, StopNativeStream
<1>1. CASE ~active
  BY <1>1 DEF StopNativeStream, sessionVars, timerVars, Kept, TypeOK, ReleasedOnce, FeedTyped
<1>2. CASE active /\ fanout = None
  <2>1. ReleaseSession
    BY <1>2 DEF StopNativeStream
  <2>2. release' = None /\ held' \subseteq Runs
    BY <2>1, SessionReleased
  <2>3. QED
    BY <1>0, <1>2, <2>2 DEF StopNativeStream, Kept, TypeOK, ReleasedOnce, FeedTyped
<1>3. CASE active /\ fanout # None
  <2>1. fanout \in Runs
    BY <1>3 DEF Kept, TypeOK, Runs, None
  <2>2. FeedTyped'
    BY <1>3, EndOfFeedTyped DEF StopNativeStream, Kept, TypeOK
  <2>3. /\ source' = [source EXCEPT ![fanout] = IF @ = "running" THEN "stopping" ELSE @]
        /\ stop' = [stop EXCEPT ![fanout] = "awaiting"]
        /\ UNCHANGED sessionVars
        /\ active' = FALSE /\ firstFrame' = FALSE /\ fanout' = None
        /\ noFrameTimer' = FALSE /\ noClientTimer' = FALSE
    BY <1>3 DEF StopNativeStream
  <2>4. QED
    BY <1>0, <2>1, <2>2, <2>3 DEF Kept, TypeOK, ReleasedOnce, sessionVars
<1>4. QED
  BY <1>1, <1>2, <1>3

\* Starts: the environment, a timer or an await asks for the stream.
LEMMA StartingTyped ==
  ASSUME Kept, NEW r \in Runs, Starting(r) \/ Restart(r) PROVE Kept'
<1>0. r \in 0 .. MaxRuns
  BY DEF Runs
<1>1. CASE Connected(r) \/ ConnectFails(r)
  <2>1. lost' \in BOOLEAN
    BY <1>1, LostTyped DEF Connected, ConnectFails, clientVars
  <2>2. QED
    BY <1>1, <2>1 DEF Connected, ConnectFails, Activate, Kept, TypeOK, ReleasedOnce,
       sessionVars, timerVars, clientVars, downVars
<1>2. CASE Launch(r) \/ LaunchFails(r)
  <2>1. /\ \/ held' = held \cup {r} /\ release' = r
           \/ UNCHANGED sessionVars
        /\ held' \subseteq Runs /\ release' \in 0 .. MaxRuns
    BY <1>0, <1>2 DEF Launch, LaunchFails, sessionVars, Kept, TypeOK
  <2>2. ReleasedOnce'
    BY <2>1 DEF ReleasedOnce, Kept, sessionVars
  <2>3. QED
    BY <1>0, <1>2, <2>1, <2>2 DEF Launch, LaunchFails, Kept, TypeOK, timerVars,
       clientVars, downVars
<1>3. CASE Restart(r)
  BY <1>3, StartTyped DEF Restart, Kept, TypeOK, ReleasedOnce, sessionVars, timerVars,
     clientVars, downVars
<1>4. QED
  BY <1>1, <1>2, <1>3 DEF Starting

LEMMA EndingTyped ==
  ASSUME Kept, NEW r \in Runs, Stopped(r) \/ Released(r) \/ Frame(r) PROVE Kept'
<1>0. None \in 0 .. MaxRuns
  BY NativeStreamAssumption DEF None
<1>1. CASE Stopped(r)
  <2>1. release' = None /\ held' \subseteq Runs
    BY <1>1, SessionReleased DEF Stopped
  <2>2. QED
    BY <1>0, <1>1, <2>1 DEF Stopped, Kept, TypeOK, ReleasedOnce, timerVars, callVars,
       clientVars, downVars
<1>2. CASE Released(r)
  <2>1. restart' \in [Runs -> {"none", "releasing", "sleeping", "done"}]
    BY <1>2 DEF Released, AfterRelease, Kept, TypeOK
  <2>2. QED
    BY <1>2, <2>1 DEF Released, Kept, TypeOK, ReleasedOnce, sessionVars, timerVars,
       callVars, clientVars, downVars
<1>3. CASE Frame(r)
  BY <1>3 DEF Frame, Kept, TypeOK, ReleasedOnce, sessionVars, callVars, clientVars,
     downVars
<1>4. QED
  BY <1>1, <1>2, <1>3

LEMMA SourceTyped ==
  ASSUME Kept, NEW r \in Runs, SourceEnds(r) PROVE Kept'
<1>0. r \in 0 .. MaxRuns /\ r # None /\ None \in 0 .. MaxRuns
  BY NativeStreamAssumption DEF Runs, None
<1>1. FeedTyped' /\ lost' \in BOOLEAN
  BY <1>0, EndOfFeedTyped, LostTyped DEF SourceEnds, OnEnd
<1>2. /\ source' \in [Runs -> {"none", "running", "stopping", "ended"}]
      /\ UNCHANGED <<hasParamSets, noClientTimer, callVars, stop, connected, downVars>>
  BY DEF SourceEnds, Kept, TypeOK
<1>3. /\ active' \in BOOLEAN /\ firstFrame' \in BOOLEAN /\ noFrameTimer' \in BOOLEAN
      /\ fanout' \in 0 .. MaxRuns /\ release' \in 0 .. MaxRuns /\ held' \subseteq Runs
      /\ restart' \in [Runs -> {"none", "releasing", "sleeping", "done"}]
      /\ hadFrames' \in [Runs -> BOOLEAN]
      /\ ReleasedOnce'
  <2>1. OnEnd(r)
    BY DEF SourceEnds
  <2>2. CASE ~active
    BY <2>1, <2>2 DEF OnEnd, sessionVars, Kept, TypeOK, ReleasedOnce
  <2>3. CASE active
    <3>1. release' = None /\ held' \subseteq Runs
      BY <2>1, <2>3, SessionReleased DEF OnEnd
    <3>2. AfterRelease(firstFrame) \in {"sleeping", "done"}
      BY DEF AfterRelease
    <3>3. firstFrame \in BOOLEAN
      BY DEF Kept, TypeOK
    <3>4. hadFrames' \in [Runs -> BOOLEAN]
      BY <2>1, <2>3, <3>3 DEF OnEnd, Kept, TypeOK
    <3>5. restart' \in [Runs -> {"none", "releasing", "sleeping", "done"}]
      BY <2>1, <2>3, <3>2 DEF OnEnd, Kept, TypeOK
    <3>6. QED
      BY <1>0, <2>1, <2>3, <3>1, <3>4, <3>5 DEF OnEnd, ReleasedOnce
  <2>4. active \in BOOLEAN
    BY DEF Kept, TypeOK
  <2>5. QED
    BY <2>2, <2>3, <2>4, Zenon
<1>4. UNCHANGED <<calls, call, overlap, tearingDown, teardown, waiting>>
  BY <1>2 DEF callVars, downVars
<1>5. QED
  BY <1>1, <1>2, <1>3, <1>4 DEF Kept, TypeOK, FeedTyped

LEMMA TimersTyped == Kept /\ (FireNoFrame \/ FireNoClient \/ Describe) => Kept'
<1> SUFFICES ASSUME Kept, FireNoFrame \/ FireNoClient \/ Describe PROVE Kept'
  OBVIOUS
<1>1. CASE (FireNoFrame \/ FireNoClient) /\ StopNativeStream
  BY <1>1, StopStreamTyped DEF FireNoFrame, FireNoClient, Kept, TypeOK, FeedTyped,
     callVars, downVars
<1>2. CASE (FireNoFrame \/ FireNoClient) /\ ~StopNativeStream
  <2>1. /\ UNCHANGED <<overlap, active, firstFrame, fanout, release, held, source, stop,
                       pipeline, feed, lost, hasParamSets, calls, call, restart,
                       hadFrames, connected, tearingDown, teardown, waiting>>
        /\ noFrameTimer' \in {noFrameTimer, FALSE}
        /\ noClientTimer' \in {noClientTimer, FALSE}
    BY <1>2 DEF FireNoFrame, FireNoClient, sessionVars, callVars, downVars
  <2>2. QED
    BY <2>1 DEF Kept, TypeOK, ReleasedOnce
<1>3. CASE Describe
  BY <1>3, StartTyped DEF Describe, Kept, TypeOK, ReleasedOnce, sessionVars, timerVars,
     clientVars, downVars
<1>4. QED
  BY <1>1, <1>2, <1>3

LEMMA ClientTyped ==
  ASSUME Kept, NEW c \in Clients, Client(c) PROVE Kept'
<1>1. CASE Setup(c)
  <2>1. /\ active' \in BOOLEAN /\ firstFrame' \in BOOLEAN /\ calls' \in 0 .. MaxRuns
        /\ call' \in [Runs -> {"none", "connecting", "session", "done"}]
    <3>1. CASE Start
      BY <3>1, StartTyped
    <3>2. CASE UNCHANGED <<active, firstFrame, callVars>>
      BY <3>2 DEF callVars, Kept, TypeOK
    <3>3. QED
      BY <1>1, <3>1, <3>2 DEF Setup
  <2>2. FeedTyped'
    BY <1>1 DEF Setup, FeedTyped, Kept, TypeOK
  <2>3. QED
    BY <1>1, <2>1, <2>2 DEF Setup, FeedTyped, Kept, TypeOK, ReleasedOnce, sessionVars,
       downVars
<1>2. CASE Subscribe(c) \/ OwnEnds(c)
  <2>1. lost' \in BOOLEAN
    BY <1>2, LostTyped DEF Subscribe, OwnEnds
  <2>2. QED
    BY <1>2, <2>1 DEF Subscribe, OwnEnds, Kept, TypeOK, ReleasedOnce, sessionVars,
       timerVars, callVars, downVars
<1>3. CASE Leave(c)
  <2>1. FeedTyped' /\ lost' \in BOOLEAN
    <3>1. None \in 0 .. MaxRuns
      BY NativeStreamAssumption DEF None
    <3>2. lost' \in BOOLEAN
      BY <1>3, LostTyped DEF Leave
    <3>3. QED
      BY <1>3, <3>1, <3>2 DEF Leave, FeedTyped, Kept, TypeOK
  <2>2. QED
    BY <1>3, <2>1 DEF Leave, FeedTyped, Kept, TypeOK, ReleasedOnce, sessionVars, callVars,
       downVars
<1>4. QED
  BY <1>1, <1>2, <1>3 DEF Client

LEMMA TeardownTyped == Kept /\ (Stop \/ TornDown) => Kept'
<1> SUFFICES ASSUME Kept, Stop \/ TornDown PROVE Kept'
  OBVIOUS
<1>0. None \in 0 .. MaxRuns
  BY NativeStreamAssumption DEF None
<1>1. CASE Stop
  BY <1>0, <1>1, StopStreamTyped DEF Stop, Kept, TypeOK, FeedTyped, callVars
<1>2. CASE TornDown
  <2>1. FeedTyped' /\ lost' \in BOOLEAN
    BY <1>0, <1>2, LostTyped DEF TornDown, FeedTyped, Kept, TypeOK
  <2>2. QED
    BY <1>2, <2>1 DEF TornDown, FeedTyped, Kept, TypeOK, ReleasedOnce, sessionVars,
       callVars
<1>3. QED
  BY <1>1, <1>2

LEMMA NextTyped == Kept /\ [Next]_vars => Kept'
<1> SUFFICES ASSUME Kept, [Next]_vars PROVE Kept'
  OBVIOUS
<1>1. CASE UNCHANGED vars
  BY <1>1 DEF vars, sessionVars, timerVars, callVars, clientVars, downVars, Kept, TypeOK,
     ReleasedOnce
<1>2. CASE Next
  BY <1>2, StartingTyped, EndingTyped, SourceTyped, TimersTyped, ClientTyped,
     TeardownTyped DEF Next, Ending
<1>3. QED
  BY <1>1, <1>2

-----------------------------------------------------------------------------
(* Transitions exclude each other.                                         *)

\* At rest only an active stream has a fanout, a session or a source, and the
\* source is that of its fanout.
LEMMA AtRest ==
  ASSUME TypeOK, OneTransition, OneFanout, OneSession, NoTransition
  PROVE  /\ fanout # None \/ release # None => active
         /\ \A r \in Runs : Live(r) => r = fanout
         /\ ~active => held = {} /\ \A r \in Runs : ~Live(r)
<1>1. fanout # None \/ release # None => active
  BY DEF OneFanout, OneSession, NoTransition
<1>2. \A r \in Runs : Live(r) => r = fanout
  BY DEF OneFanout, NoTransition
<1>3. None \notin Runs
  BY DEF None, Runs
<1>4. ~active => held = {} /\ \A r \in Runs : ~Live(r)
  BY <1>1, <1>2, <1>3 DEF TypeOK, OneSession
<1>5. QED
  BY <1>1, <1>2, <1>4

LEMMA UndisturbedRest == ~overlap /\ Undisturbed /\ TypeOK => NoTransition
BY DEF Undisturbed, Quiet, NoTransition, Busy, Stopping, Restarting, TypeOK

\* A start that is asked for at rest.
LEMMA StartSerial ==
  ASSUME TypeOK, OneTransition, OneFanout, OneSession, Start,
         \A r \in Runs : ~Busy(r) /\ ~Stopping(r) /\ ~Restarting(r)',
         active => NoTransition,
         UNCHANGED <<fanout, sessionVars, source, stop, feed>>
  PROVE  OneTransition' /\ OneFanout' /\ OneSession'
<1>1. CASE active
  BY <1>1 DEF Start, OneTransition, OneFanout, OneSession, Busy, Stopping, Restarting, Live,
     callVars, sessionVars
<1>2. CASE ~active
  <2>1. fanout = None /\ \A r \in Runs : ~Live(r)
    <3>1. fanout = None
      BY <1>2 DEF OneFanout
    <3>2. QED
      BY <3>1 DEF OneFanout, None, Runs
  <2>2. calls + 1 \in Runs
    BY <1>2, NativeStreamAssumption DEF Start, StartsLeft, TypeOK, Runs
  <2>3. \/ active' = TRUE /\ call' = [call EXCEPT ![calls + 1] = "session"]
        \/ active' = active /\ call' = [call EXCEPT ![calls + 1] = "connecting"]
    BY <1>2 DEF Start, Activate
  <2>4. /\ \A s \in Runs : Busy(s)' <=> s = calls + 1
        /\ active' <=> call'[calls + 1] = "session"
    BY <1>2, <2>2, <2>3 DEF Busy, TypeOK
  <2>5. OneTransition'
    BY <2>1, <2>4, <2>2 DEF OneTransition, Stopping
  <2>6. OneFanout'
    BY <2>1, <2>4, <2>2 DEF OneFanout, Live
  <2>7. OneSession'
    <3>1. release = None
      BY <1>2 DEF OneSession, Stopping
    <3>2. QED
      BY <3>1 DEF OneSession, sessionVars
  <2>8. QED
    BY <2>5, <2>6, <2>7
<1>3. QED
  BY <1>1, <1>2

\* stopNativeStream() at rest.
LEMMA StopStreamSerial ==
  ASSUME TypeOK, OneTransition, OneFanout, OneSession, NoTransition, StopNativeStream,
         UNCHANGED <<call, restart>>
  PROVE  OneTransition' /\ OneFanout' /\ OneSession'
<1>1. CASE ~active
  BY <1>1 DEF StopNativeStream, OneTransition, OneFanout, OneSession, Busy, Stopping,
     Restarting, Live, sessionVars
<1>2. CASE active /\ fanout = None
  <2>1. /\ active' = FALSE /\ fanout' = None
        /\ held' = held \ {release} /\ release' = None
        /\ UNCHANGED <<source, stop, feed>>
    BY <1>2 DEF StopNativeStream, ReleaseSession
  <2>2. /\ \A r \in Runs : ~Busy(r)' /\ ~Stopping(r)' /\ ~Restarting(r)'
        /\ \A r \in Runs : ~Live(r)'
    BY <1>2, <2>1, AtRest DEF NoTransition, Busy, Stopping, Restarting, Live, None, Runs
  <2>3. QED
    BY <1>2, <2>1, <2>2 DEF OneTransition, OneFanout, OneSession
<1>3. CASE active /\ fanout # None
  <2>1. fanout # None /\ source[fanout] = "running" /\ fanout \in Runs
    BY <1>3 DEF OneFanout, TypeOK, None, Runs
  <2>2. /\ active' = FALSE /\ fanout' = None
        /\ source' = [source EXCEPT ![fanout] = "stopping"]
        /\ stop' = [stop EXCEPT ![fanout] = "awaiting"]
        /\ feed' = [c \in Clients |-> IF feed[c] = fanout THEN None ELSE feed[c]]
        /\ release' = release /\ held' = held
    BY <1>3, <2>1 DEF StopNativeStream, EndOfFeed, sessionVars, TypeOK
  <2>3. \A s \in Runs : (Stopping(s)' <=> s = fanout) /\ ~Busy(s)' /\ ~Restarting(s)'
    BY <2>1, <2>2 DEF NoTransition, Stopping, Busy, Restarting, TypeOK
  <2>4. OneTransition'
    BY <2>2, <2>3 DEF OneTransition
  <2>5. OneFanout'
    <3>1. \A r \in Runs : Live(r)' => r = fanout
      BY <2>1, <2>2 DEF OneFanout, NoTransition, Live, TypeOK
    <3>2. source'[fanout] = "stopping"
      BY <2>1, <2>2 DEF TypeOK
    <3>3. \A c \in Clients : feed'[c] = None
      BY <2>2 DEF OneFanout
    <3>4. QED
      BY <2>1, <2>2, <2>3, <3>1, <3>2, <3>3 DEF OneFanout
  <2>6. OneSession'
    <3>1. \E s \in Runs : Stopping(s)'
      BY <2>1, <2>3
    <3>2. QED
      BY <2>1, <2>2, <3>1 DEF OneSession
  <2>7. QED
    BY <2>4, <2>5, <2>6
<1>4. QED
  BY <1>1, <1>2, <1>3

Whole == TypeOK /\ OneTransition /\ OneFanout /\ OneSession

LEMMA StartingSerial ==
  ASSUME Whole, NEW r \in Runs, Starting(r) \/ Restart(r)
  PROVE  OneTransition' /\ OneFanout' /\ OneSession'
<1>1. CASE Connected(r) \/ ConnectFails(r)
  <2>1. /\ call[r] = "connecting"
        /\ UNCHANGED <<fanout, release, held, source, stop, restart, feed>>
        /\ \/ active' = TRUE /\ call' = [call EXCEPT ![r] = "session"]
           \/ active' = active /\ call' = [call EXCEPT ![r] = "done"]
    BY <1>1 DEF Connected, ConnectFails, Activate, sessionVars, clientVars
  <2>2. /\ ~active /\ fanout = None
        /\ \A s \in Runs : (Busy(s) => s = r) /\ ~Stopping(s) /\ ~Restarting(s)
    BY <2>1 DEF Whole, OneTransition, Busy, TypeOK
  <2>3. /\ \A s \in Runs : Busy(s)' => s = r /\ call'[s] = "session"
        /\ active' => Busy(r)'
        /\ \A s \in Runs : ~Stopping(s)' /\ ~Restarting(s)'
        /\ ~Busy(r)' => ~active'
        /\ Busy(r)' => active'
    BY <2>1, <2>2 DEF Whole, TypeOK, Busy, Stopping, Restarting
  <2>4. OneTransition'
    BY <2>1, <2>2, <2>3 DEF OneTransition
  <2>5. OneFanout'
    BY <2>1, <2>2, <2>3 DEF Whole, OneFanout, Live
  <2>6. OneSession'
    <3>1. release = None
      BY <2>2 DEF Whole, OneSession
    <3>2. QED
      BY <2>1, <3>1 DEF Whole, OneSession
  <2>7. QED
    BY <2>4, <2>5, <2>6
<1>2. CASE Launch(r)
  <2>1. /\ call[r] = "session" /\ call' = [call EXCEPT ![r] = "done"]
        /\ \/ held' = held \cup {r} /\ release' = r
           \/ held' = held /\ release' = release
        /\ fanout' = r /\ source' = [source EXCEPT ![r] = "running"]
        /\ UNCHANGED <<active, stop, restart, feed>>
    BY <1>2 DEF Launch, sessionVars, clientVars
  <2>2. /\ active /\ fanout = None
        /\ \A s \in Runs : (Busy(s) => s = r) /\ ~Stopping(s) /\ ~Restarting(s)
    BY <2>1 DEF Whole, OneTransition, Busy
  <2>3. \A s \in Runs : ~Busy(s)' /\ ~Stopping(s)' /\ ~Restarting(s)'
    BY <2>1, <2>2 DEF Whole, TypeOK, Busy, Stopping, Restarting
  <2>4. release = None /\ held = {}
    <3>1. release = None
      BY <2>1, <2>2 DEF Whole, OneSession, Busy
    <3>2. QED
      BY <3>1 DEF Whole, OneSession, TypeOK, None, Runs
  <2>5. r # None
    BY DEF Runs, None
  <2>6. \A s \in Runs : ~Live(s)
    BY <2>2 DEF Whole, OneFanout, None, Runs
  <2>7. OneFanout'
    <3>1. source'[r] = "running" /\ \A s \in Runs : Live(s)' => s = r
      BY <2>1, <2>6 DEF Live, Whole, TypeOK
    <3>2. QED
      BY <2>1, <2>2, <2>3, <2>5, <3>1 DEF OneFanout, Whole
  <2>8. active' /\ held' \subseteq {release'}
    BY <2>1, <2>2, <2>4
  <2>9. QED
    BY <2>3, <2>7, <2>8 DEF OneTransition, OneSession
<1>3. CASE LaunchFails(r)
  <2>1. /\ call[r] = "session" /\ call' = [call EXCEPT ![r] = "done"]
        /\ \/ held' = held \cup {r} /\ release' = r
           \/ held' = held /\ release' = release
        /\ UNCHANGED <<active, fanout, source, stop, restart, feed>>
    BY <1>3 DEF LaunchFails, sessionVars
  <2>2. /\ active /\ fanout = None
        /\ \A s \in Runs : (Busy(s) => s = r) /\ ~Stopping(s) /\ ~Restarting(s)
    BY <2>1 DEF Whole, OneTransition, Busy
  <2>3. \A s \in Runs : ~Busy(s)' /\ ~Stopping(s)' /\ ~Restarting(s)'
    BY <2>1, <2>2 DEF Whole, TypeOK, Busy, Stopping, Restarting
  <2>4. release = None /\ held = {}
    <3>1. release = None
      BY <2>1, <2>2 DEF Whole, OneSession, Busy
    <3>2. QED
      BY <3>1 DEF Whole, OneSession, TypeOK, None, Runs
  <2>5. OneFanout'
    BY <2>1, <2>2, <2>3 DEF Whole, OneFanout, Live, Stopping
  <2>6. OneTransition' /\ OneSession'
    BY <2>1, <2>2, <2>3, <2>4 DEF OneTransition, OneSession
  <2>7. QED
    BY <2>5, <2>6
<1>4. CASE Restart(r)
  <2>1. restart[r] = "sleeping" /\ restart' = [restart EXCEPT ![r] = "done"] /\ Start
    BY <1>4 DEF Restart
  <2>2. ~active /\ \A s \in Runs : Restarting(s) => s = r
    BY <2>1 DEF Whole, OneTransition, Restarting
  <2>3. \A s \in Runs : ~Busy(s) /\ ~Stopping(s) /\ ~Restarting(s)'
    BY <2>1, <2>2 DEF Whole, TypeOK, OneTransition, Restarting
  <2>4. UNCHANGED <<fanout, sessionVars, source, stop, feed>>
    BY <1>4 DEF Restart, clientVars
  <2>5. QED
    BY <2>1, <2>2, <2>3, <2>4, StartSerial DEF Whole
<1>5. QED
  BY <1>1, <1>2, <1>3, <1>4 DEF Starting

LEMMA EndingSerial ==
  ASSUME Whole, NEW r \in Runs, Stopped(r) \/ Released(r) \/ Frame(r)
  PROVE  OneTransition' /\ OneFanout' /\ OneSession'
<1>1. CASE Stopped(r)
  <2>1. /\ stop[r] = "awaiting" /\ ~Live(r) /\ stop' = [stop EXCEPT ![r] = "done"]
        /\ held' = held \ {release} /\ release' = None
        /\ UNCHANGED <<active, fanout, call, source, restart, feed>>
    BY <1>1 DEF Stopped, ReleaseSession, callVars, clientVars
  <2>2. /\ ~active /\ fanout = None
        /\ \A s \in Runs : (Stopping(s) => s = r) /\ ~Restarting(s) /\ ~Busy(s)
    BY <2>1 DEF Whole, OneTransition, OneFanout, Stopping
  <2>3. \A s \in Runs : ~Busy(s)' /\ ~Stopping(s)' /\ ~Restarting(s)'
    BY <2>1, <2>2 DEF Whole, TypeOK, Busy, Stopping, Restarting
  <2>4. OneFanout'
    <3>1. \A s \in Runs : ~Live(s)
      BY <2>1, <2>2 DEF Whole, OneFanout, None, Runs
    <3>2. QED
      BY <2>1, <2>2, <3>1 DEF Whole, OneFanout, Live
  <2>5. OneTransition' /\ OneSession'
    BY <2>1, <2>3 DEF Whole, OneTransition, OneSession
  <2>6. QED
    BY <2>4, <2>5
<1>2. CASE Released(r)
  <2>1. /\ restart[r] = "releasing"
        /\ \A s \in Runs : Restarting(s)' => Restarting(s)
        /\ UNCHANGED <<active, fanout, release, held, call, source, stop, feed>>
    BY <1>2 DEF Released, Restarting, sessionVars, callVars, clientVars, Whole, TypeOK
  <2>2. QED
    BY <2>1 DEF Whole, OneTransition, OneFanout, OneSession, Busy, Stopping, Live
<1>3. CASE Frame(r)
  BY <1>3 DEF Frame, sessionVars, callVars, clientVars, Whole, OneTransition, OneFanout,
     OneSession, Busy, Stopping, Restarting, Live
<1>4. QED
  BY <1>1, <1>2, <1>3

LEMMA SourceSerial ==
  ASSUME Whole, NEW r \in Runs, SourceEnds(r), ~overlap
  PROVE  OneTransition' /\ OneFanout' /\ OneSession'
<1>1. /\ Live(r) /\ (source[r] = "stopping" \/ Undisturbed)
      /\ source' = [source EXCEPT ![r] = "ended"]
      /\ feed' = [c \in Clients |-> IF feed[c] = r THEN None ELSE feed[c]]
      /\ UNCHANGED <<call, stop>>
  BY DEF SourceEnds, EndOfFeed, callVars
<1>2. \A s \in Runs : Live(s)' => s # r /\ Live(s) /\ source'[s] = source[s]
  BY <1>1 DEF Live, Whole, TypeOK
<1>3. CASE ~active
  <2>1. UNCHANGED <<active, fanout, release, held, restart>>
    BY <1>3 DEF SourceEnds, OnEnd, sessionVars
  <2>2. fanout = None
    BY <1>3 DEF Whole, OneFanout
  <2>3. OneFanout'
    BY <1>1, <1>2, <1>3, <2>1, <2>2 DEF Whole, OneFanout, Stopping
  <2>4. OneTransition' /\ OneSession'
    BY <1>1, <2>1 DEF Whole, OneTransition, OneSession, Busy, Stopping, Restarting
  <2>5. QED
    BY <2>3, <2>4
<1>4. CASE active
  <2>1. source[r] # "stopping"
    BY <1>1, <1>4 DEF Whole, OneTransition, OneFanout, None, Runs
  <2>2. NoTransition
    BY <1>1, <2>1, UndisturbedRest DEF Whole
  <2>3. \A s \in Runs : Live(s) => s = fanout
    BY <2>2 DEF Whole, OneFanout, NoTransition
  <2>4. /\ active' = FALSE /\ fanout' = None
        /\ held' = held \ {release} /\ release' = None
        /\ \A s \in Runs \ {r} : restart'[s] = restart[s]
    BY <1>4 DEF SourceEnds, OnEnd, ReleaseSession, Whole, TypeOK
  <2>5. \A s \in Runs : ~Busy(s)' /\ ~Stopping(s)' /\ (Restarting(s)' => s = r)
    BY <1>1, <2>2, <2>4 DEF NoTransition, Busy, Stopping, Restarting
  <2>6. r = fanout
    BY <1>1, <2>3
  <2>7. \A s \in Runs : ~Live(s)'
    BY <1>2, <2>3, <2>6
  <2>8. \A c \in Clients : feed'[c] = None
    BY <1>1, <2>6 DEF Whole, OneFanout
  <2>9. OneTransition'
    BY <2>4, <2>5 DEF OneTransition
  <2>10. OneFanout' /\ OneSession'
    BY <2>4, <2>7, <2>8 DEF OneFanout, OneSession, Whole
  <2>11. QED
    BY <2>9, <2>10
<1>5. QED
  BY <1>3, <1>4

LEMMA TimersSerial ==
  ASSUME Whole, FireNoFrame \/ FireNoClient \/ Describe \/ Stop, ~overlap
  PROVE  OneTransition' /\ OneFanout' /\ OneSession'
<1>1. NoTransition
  BY UndisturbedRest DEF FireNoFrame, FireNoClient, Describe, Stop, Whole
<1>2. CASE StopNativeStream /\ UNCHANGED <<call, restart>>
  BY <1>1, <1>2, StopStreamSerial DEF Whole
<1>3. CASE Describe
  <2>1. Start /\ UNCHANGED <<fanout, sessionVars, source, stop, feed, restart>>
    BY <1>3 DEF Describe, clientVars
  <2>2. \A r \in Runs : ~Busy(r) /\ ~Stopping(r) /\ ~Restarting(r)'
    BY <1>1, <2>1 DEF NoTransition, Restarting
  <2>3. QED
    BY <1>1, <2>1, <2>2, StartSerial DEF Whole
<1>4. CASE /\ UNCHANGED <<active, fanout, sessionVars, source, stop, feed>>
           /\ UNCHANGED <<callVars, restart>>
  BY <1>4 DEF sessionVars, callVars, Whole, OneTransition, OneFanout, OneSession, Busy,
     Stopping, Restarting, Live
<1>5. QED
  BY <1>2, <1>3, <1>4 DEF FireNoFrame, FireNoClient, Stop, callVars

LEMMA ClientSerial ==
  ASSUME Whole, ~overlap, TornDown \/ \E c \in Clients : Client(c)
  PROVE  OneTransition' /\ OneFanout' /\ OneSession'
<1>1. CASE \E c \in Clients : Setup(c)
  <2>1. PICK c \in Clients : Setup(c)
    BY <1>1
  <2>2. UNCHANGED <<fanout, sessionVars, source, stop, feed, restart>>
    BY <2>1 DEF Setup
  <2>3. NoTransition
    BY <2>1, UndisturbedRest DEF Setup, Whole
  <2>4. \A r \in Runs : ~Busy(r) /\ ~Stopping(r) /\ ~Restarting(r)'
    BY <2>2, <2>3 DEF NoTransition, Restarting
  <2>5. CASE Start
    BY <2>2, <2>3, <2>4, <2>5, StartSerial DEF Whole
  <2>6. CASE UNCHANGED <<active, callVars>>
    BY <2>2, <2>6 DEF sessionVars, callVars, Whole, OneTransition, OneFanout, OneSession,
       Busy, Stopping, Restarting, Live
  <2>7. QED
    BY <2>1, <2>5, <2>6 DEF Setup
<1>2. CASE TornDown \/ \E c \in Clients : Subscribe(c) \/ OwnEnds(c) \/ Leave(c)
  <2>1. /\ UNCHANGED <<active, fanout, release, held, call, source, stop, restart>>
        /\ \A d \in Clients : feed'[d] \in {feed[d], None, fanout}
    BY <1>2 DEF TornDown, Subscribe, OwnEnds, Leave, sessionVars, callVars, Whole, TypeOK
  <2>2. QED
    BY <2>1 DEF Whole, OneTransition, OneFanout, OneSession, Busy, Stopping, Restarting,
       Live
<1>3. QED
  BY <1>1, <1>2 DEF Client

-----------------------------------------------------------------------------
(* Clients share the stream, unless they were left without it.             *)

\* No client opens a stream of its own in this step.
NoneOpens == \A c \in Clients : pipeline'[c] = "own" => pipeline[c] = "own"

LEMMA KeepSharing ==
  ASSUME Sharing, NoneOpens, Attending' => Attending,
         UNCHANGED <<active, fanout, call, lost>>
  PROVE  Sharing'
BY DEF Sharing, NoneOpens, Busy

\* A client goes, and with it perhaps what was left of a lost stream.
LEMMA RecoverSharing ==
  ASSUME Sharing, Recover, NoneOpens, Attending' => Attending,
         UNCHANGED <<active, fanout, call>>
  PROVE  Sharing'
BY DEF Sharing, Recover, NoneOpens, Busy

\* Whoever comes, the stream is active or being started.
LEMMA StartSharing ==
  ASSUME TypeOK, Sharing, Start, NoneOpens, UNCHANGED <<fanout, lost>>
  PROVE  Sharing'
<1>1. CASE active
  BY <1>1 DEF Start, callVars, Sharing, NoneOpens, Busy
<1>2. CASE ~active
  <2>1. calls + 1 \in Runs
    BY <1>2, NativeStreamAssumption DEF Start, StartsLeft, TypeOK, Runs
  <2>2. \E r \in Runs : Busy(r)'
    BY <1>2, <2>1 DEF Start, Activate, Busy, TypeOK
  <2>3. QED
    BY <2>1, <2>2 DEF Sharing, NoneOpens
<1>3. QED
  BY <1>1, <1>2

LEMMA StopSharing ==
  ASSUME TypeOK, Sharing, StopNativeStream, UNCHANGED <<connected, call>>
  PROVE  Sharing'
<1>1. CASE ~active
  BY <1>1, KeepSharing DEF StopNativeStream, NoneOpens, Attending
<1>2. CASE active
  <2>1. /\ active' = FALSE /\ Lose
        /\ \A c \in Clients : pipeline'[c] \in {pipeline[c], "over"}
    BY <1>2 DEF StopNativeStream, EndOfFeed, TypeOK
  <2>2. ~lost' => ~lost /\ ~Attending'
    BY <2>1 DEF Lose, Attending
  <2>3. QED
    BY <2>1, <2>2 DEF Sharing
<1>3. QED
  BY <1>1, <1>2

LEMMA StartingSharing ==
  ASSUME Whole, Sharing, NEW r \in Runs, Starting(r) PROVE Sharing'
<1>1. CASE Connected(r)
  <2>1. active' = TRUE /\ Busy(r)' /\ UNCHANGED clientVars
    BY <1>1 DEF Connected, Activate, Busy, Whole, TypeOK
  <2>2. QED
    BY <2>1 DEF Sharing, clientVars
<1>2. CASE ConnectFails(r)
  <2>1. ~active' /\ Lose /\ UNCHANGED <<connected, pipeline>>
    BY <1>2 DEF ConnectFails, Whole, OneTransition, Busy
  <2>2. QED
    BY <2>1 DEF Sharing, Lose, Attending
<1>3. CASE Launch(r)
  <2>1. active' /\ fanout' = r /\ r # None /\ UNCHANGED clientVars
    BY <1>3 DEF Launch, Whole, OneTransition, Busy, Runs, None
  <2>2. QED
    BY <2>1 DEF Sharing, clientVars
<1>4. CASE LaunchFails(r)
  BY <1>4 DEF LaunchFails, Sharing
<1>5. QED
  BY <1>1, <1>2, <1>3, <1>4 DEF Starting

LEMMA EndingSharing ==
  ASSUME Whole, Sharing, NEW r \in Runs, Ending(r) \/ Frame(r) \/ SourceEnds(r)
  PROVE  Sharing'
<1>1. CASE Stopped(r) \/ Released(r) \/ Frame(r)
  <2>1. UNCHANGED <<active, fanout, call, clientVars>>
    BY <1>1 DEF Stopped, Released, Frame, callVars
  <2>2. QED
    BY <2>1, KeepSharing DEF clientVars, NoneOpens, Attending
<1>2. CASE Restart(r)
  BY <1>2, StartSharing DEF Restart, Whole, clientVars, NoneOpens
<1>3. CASE SourceEnds(r)
  <2>1. /\ \A c \in Clients : pipeline'[c] \in {pipeline[c], "over"}
        /\ UNCHANGED <<call, connected>>
    BY <1>3 DEF SourceEnds, EndOfFeed, callVars, Whole, TypeOK
  <2>2. NoneOpens /\ (Attending' => Attending)
    BY <2>1 DEF NoneOpens, Attending
  <2>3. CASE ~active
    BY <1>3, <2>1, <2>2, <2>3, KeepSharing DEF SourceEnds, OnEnd
  <2>4. CASE active
    <3>1. active' = FALSE /\ Lose
      BY <1>3, <2>4 DEF SourceEnds, OnEnd
    <3>2. QED
      BY <2>2, <3>1 DEF Sharing, Lose, NoneOpens
  <2>5. QED
    BY <2>3, <2>4
<1>4. QED
  BY <1>1, <1>2, <1>3 DEF Ending

LEMMA TimersSharing ==
  ASSUME Whole, Sharing, FireNoFrame \/ FireNoClient \/ Stop \/ Describe PROVE Sharing'
<1>1. CASE Describe
  BY <1>1, StartSharing DEF Describe, Whole, clientVars, NoneOpens
<1>2. CASE ~Describe
  <2>1. UNCHANGED <<connected, call>>
    BY <1>2 DEF FireNoFrame, FireNoClient, Stop, callVars
  <2>2. StopNativeStream \/ UNCHANGED <<active, fanout, pipeline, lost>>
    BY <1>2 DEF FireNoFrame, FireNoClient, Stop
  <2>3. QED
    BY <2>1, <2>2, StopSharing, KeepSharing DEF Whole, NoneOpens, Attending
<1>3. QED
  BY <1>1, <1>2

LEMMA ClientSharing ==
  ASSUME Whole, Sharing, ~overlap, TornDown \/ \E c \in Clients : Client(c)
  PROVE  Sharing'
<1>1. CASE TornDown
  <2>1. Recover /\ UNCHANGED <<active, fanout, call>> /\ connected' = {}
        /\ \A c \in Clients : pipeline'[c] \in {pipeline[c], "over"}
    BY <1>1 DEF TornDown, callVars, Whole, TypeOK
  <2>2. QED
    BY <2>1, RecoverSharing DEF NoneOpens, Attending
<1>2. ASSUME NEW c \in Clients, OwnEnds(c) \/ Leave(c) PROVE Sharing'
  <2>1. Recover /\ UNCHANGED <<active, fanout, call>> /\ connected' \subseteq connected
        /\ \A d \in Clients : pipeline'[d] \in {pipeline[d], "over"}
    BY <1>2 DEF OwnEnds, Leave, callVars, Whole, TypeOK
  <2>2. QED
    BY <2>1, RecoverSharing DEF NoneOpens, Attending
<1>3. ASSUME NEW c \in Clients, Setup(c) PROVE Sharing'
  <2>1. NoneOpens /\ UNCHANGED <<fanout, lost>>
    BY <1>3 DEF Setup, Whole, TypeOK, NoneOpens
  <2>2. CASE Start
    BY <2>1, <2>2, StartSharing DEF Whole
  <2>3. CASE connected' # {c} /\ UNCHANGED <<active, call>>
    <3>1. Attending
      BY <1>3, <2>3 DEF Setup, Attending
    <3>2. QED
      BY <2>1, <2>3, <3>1, KeepSharing
  <2>4. QED
    BY <1>3, <2>2, <2>3 DEF Setup, callVars
<1>4. ASSUME NEW c \in Clients, Subscribe(c) PROVE Sharing'
  <2>1. /\ Attending /\ \A r \in Runs : ~Busy(r)
        /\ UNCHANGED <<active, fanout, call, lost>>
        /\ pipeline' = [pipeline EXCEPT ![c] = IF fanout = None THEN "own" ELSE "feeding"]
    BY <1>4 DEF Subscribe, Attending, Busy, callVars, Whole, TypeOK
  <2>2. ~lost => fanout # None
    BY <2>1 DEF Sharing
  <2>3. CASE fanout # None
    <3>1. NoneOpens
      BY <2>1, <2>3 DEF NoneOpens, Whole, TypeOK
    <3>2. QED
      BY <2>1, <3>1, KeepSharing
  <2>4. CASE lost
    BY <2>1, <2>4 DEF Sharing
  <2>5. QED
    BY <2>2, <2>3, <2>4
<1>5. QED
  BY <1>1, <1>2, <1>3, <1>4 DEF Client

LEMMA NextSerial == Kept /\ Serial /\ [Next]_vars => Serial'
<1> SUFFICES ASSUME Kept, Serial, [Next]_vars, ~overlap
             PROVE  OneTransition' /\ OneFanout' /\ OneSession' /\ Sharing'
  <2>1. CASE UNCHANGED vars \/ FireNoFrame \/ FireNoClient \/ Describe \/ Stop \/ TornDown
    BY <2>1 DEF vars, FireNoFrame, FireNoClient, Describe, Stop, TornDown, downVars, Serial
  <2>2. CASE \E r \in Runs : Starting(r) \/ Ending(r)
    BY <2>2 DEF Starting, Ending, Connected, ConnectFails, Launch, LaunchFails, Stopped,
       Released, Restart, downVars, Serial
  <2>3. CASE \E r \in Runs : SourceEnds(r) \/ Frame(r)
    BY <2>3 DEF SourceEnds, Frame, downVars, Serial
  <2>4. CASE \E c \in Clients : Client(c)
    BY <2>4 DEF Client, Setup, Subscribe, OwnEnds, Leave, downVars, Serial
  <2>5. QED
    BY <2>1, <2>2, <2>3, <2>4 DEF Next
<1>1. Whole /\ Sharing
  BY DEF Kept, Serial, Whole
<1>2. CASE UNCHANGED vars
  <2>1. Sharing'
    BY <1>1, <1>2, KeepSharing DEF vars, callVars, clientVars, NoneOpens, Attending
  <2>2. QED
    BY <1>1, <1>2, <2>1 DEF vars, sessionVars, callVars, clientVars, Whole, OneTransition,
       OneFanout, OneSession, Busy, Stopping, Restarting, Live
<1>3. CASE Next
  <2>1. OneTransition' /\ OneFanout' /\ OneSession'
    BY <1>1, <1>3, StartingSerial, EndingSerial, SourceSerial, TimersSerial, ClientSerial
       DEF Next, Ending
  <2>2. Sharing'
    BY <1>1, <1>3, StartingSharing, EndingSharing, TimersSharing, ClientSharing DEF Next
  <2>3. QED
    BY <2>1, <2>2
<1>4. QED
  BY <1>2, <1>3

LEMMA InitInv == Init => Inv
<1> SUFFICES ASSUME Init PROVE Inv
  OBVIOUS
<1>1. TypeOK /\ ReleasedOnce
  BY InitTyped
<1>2. OneTransition /\ OneFanout /\ OneSession
  BY DEF Init, OneTransition, OneFanout, OneSession, Busy, Stopping, Restarting, Live
<1>3. Sharing
  BY DEF Init, Sharing, Attending
<1>4. QED
  BY <1>1, <1>2, <1>3 DEF Inv, Serial

LEMMA OneSourceFollows == Inv => OneSource
<1> SUFFICES ASSUME Inv, ~overlap
             PROVE  /\ Cardinality({r \in Runs : Live(r)}) <= 1
                    /\ ~lost => \A c \in Clients : pipeline[c] # "own"
                    /\ held \subseteq {release}
                    /\ \A c \in Clients : feed[c] # None => source[feed[c]] = "running"
  BY DEF OneSource
<1>0. TypeOK /\ OneTransition /\ OneFanout /\ OneSession /\ Sharing
  BY DEF Inv, Serial
<1>1. \A r, s \in Runs : Live(r) /\ Live(s) => r = s
  <2> SUFFICES ASSUME NEW r \in Runs, NEW s \in Runs, Live(r), Live(s) PROVE r = s
    OBVIOUS
  <2>1. CASE Stopping(r)
    <3>1. fanout = None /\ s # None /\ \A t \in Runs : Stopping(t) => t = r
      BY <1>0, <2>1 DEF OneTransition, OneFanout, None, Runs
    <3>2. QED
      BY <1>0, <3>1 DEF OneFanout
  <2>2. CASE Stopping(s)
    <3>1. fanout = None /\ r # None /\ \A t \in Runs : Stopping(t) => t = s
      BY <1>0, <2>2 DEF OneTransition, OneFanout, None, Runs
    <3>2. QED
      BY <1>0, <3>1 DEF OneFanout
  <2>3. QED
    BY <1>0, <2>1, <2>2 DEF OneFanout
<1>2. Cardinality({r \in Runs : Live(r)}) <= 1
  <2> DEFINE S == {r \in Runs : Live(r)}
  <2>1. S = {} \/ \E r \in Runs : S = {r}
    BY <1>1
  <2>2. Cardinality(S) \in {0, 1}
    <3> HIDE DEF S
    <3>1. QED
      BY <2>1, FS_EmptySet, FS_Singleton
  <2>3. QED
    BY <2>2
<1>3. QED
  BY <1>0, <1>2 DEF OneFanout, OneSession, Sharing

\* The invariant holds in every reachable state.
THEOREM Invariance == Spec => []Inv
<1>1. Inv /\ [Next]_vars => Inv'
  BY NextTyped, NextSerial DEF Inv, Kept
<1>2. QED
  BY InitInv, <1>1, PTL DEF Spec

\* Every variable of the native stream keeps its type, and a client reads a
\* fanout exactly when its pipeline is fed.
THEOREM TypeCorrect == Spec => []TypeOK
BY Invariance, PTL DEF Inv

\* The handle of the dedicated session is one of a session that is still held,
\* also when starts, stops and restarts overlap: no session is released twice.
THEOREM SessionReleasedOnce == Spec => []ReleasedOnce
BY Invariance, PTL DEF Inv

\* As long as transitions are not overtaken all clients share one camera stream:
\* none opens one of its own until a start has failed or the stream has ended under
\* clients, and again once these have gone; and whatever fails there is one source,
\* no session beside the one the handle frees, and no client at a dead queue.
THEOREM SharedStream == Spec => []OneSource
BY Invariance, OneSourceFollows, PTL

-----------------------------------------------------------------------------
(* A stream without clients.                                               *)

\* Without overtaking, a stream that has a fanout and no clients has the auto-stop
\* timer: Launch() arms it, and the last client that leaves.
Timed == ~overlap /\ fanout # None /\ connected = {} => noClientTimer

LEMMA NextTimed == Inv /\ Timed /\ [Next]_vars => Timed'
<1> SUFFICES ASSUME Inv, Timed, [Next]_vars PROVE Timed'
  OBVIOUS
<1>0. ~overlap /\ fanout # None => active
  BY DEF Inv, Serial, OneFanout
<1>1. ASSUME NEW r \in Runs, Starting(r) \/ Ending(r) PROVE Timed'
  BY <1>1 DEF Starting, Ending, Connected, ConnectFails, Launch, LaunchFails, Stopped,
     Released, Restart, timerVars, clientVars, downVars, Timed
<1>2. ASSUME NEW r \in Runs, SourceEnds(r) \/ Frame(r) PROVE Timed'
  BY <1>2 DEF SourceEnds, OnEnd, Frame, clientVars, downVars, Timed
<1>3. CASE FireNoFrame \/ FireNoClient \/ Stop
  <2>1. \/ UNCHANGED <<fanout, noClientTimer>>
        \/ fanout' = None
        \/ fanout' = fanout /\ (connected # {} \/ ~active)
    BY <1>3 DEF FireNoFrame, FireNoClient, Stop, StopNativeStream, timerVars
  <2>2. UNCHANGED <<connected, overlap>>
    BY <1>3 DEF FireNoFrame, FireNoClient, Stop, downVars
  <2>3. QED
    BY <1>0, <2>1, <2>2 DEF Timed
<1>4. CASE Describe
  BY <1>4 DEF Describe, timerVars, clientVars, downVars, Timed
<1>5. ASSUME NEW c \in Clients, Client(c) PROVE Timed'
  BY <1>5 DEF Client, Setup, Subscribe, OwnEnds, Leave, timerVars, downVars, Timed
<1>6. CASE TornDown
  BY <1>6 DEF TornDown, Timed
<1>7. CASE UNCHANGED vars
  BY <1>7 DEF vars, timerVars, clientVars, downVars, Timed
<1>8. QED
  BY <1>1, <1>2, <1>3, <1>4, <1>5, <1>6, <1>7 DEF Next

\* A source nobody watches is being stopped, or the timer that stops it runs.
UnwatchedTimed ==
  ~overlap /\ connected = {} =>
    \A r \in Runs : Live(r) => noClientTimer \/ source[r] = "stopping"

LEMMA UnwatchedFollows == Inv /\ Timed => UnwatchedTimed
<1> SUFFICES ASSUME Inv, Timed, ~overlap, connected = {},
                    NEW r \in Runs, Live(r), source[r] # "stopping"
             PROVE  noClientTimer
  BY DEF UnwatchedTimed
<1>1. OneFanout
  BY DEF Inv, Serial
<1>2. r = fanout /\ fanout # None
  BY <1>1 DEF OneFanout, None, Runs
<1>3. QED
  BY <1>2 DEF Timed

\* A stream without clients never runs on without the auto-stop timer, whichever
\* of DESCRIBE, the last client's leaving and a restart left it so: the part of
\* NoViewerSleeps that does not rest on fairness.
THEOREM UnwatchedIsTimed == Spec => []UnwatchedTimed
<1>1. Init => Timed
  BY DEF Init, Timed
<1>2. QED
  BY Invariance, NextTimed, UnwatchedFollows, <1>1, PTL DEF Spec
===============================================================================
