--------------------------- MODULE BcUdpP2pProofs ---------------------------
(***************************************************************************)
(* The shared lookup of a uid and the exchanges after it, for every set of *)
(* lanes, number of relays and number of cache entries that expire.        *)
(***************************************************************************)
EXTENDS BcUdpP2p, TLAPS

-----------------------------------------------------------------------------
(* The inductive invariant.                                                *)

Phases ==
  {"connected", "failed", "resolving", "probing",
   "idle", "binding", "sharing", "registering", "connecting", "confirming"}

LanesTyped ==
  /\ phase \in [Lanes -> Phases]
  /\ reason \in [Lanes -> {"none", "bind", "lookup", "camera"}]
  /\ tried \in [Lanes -> (0 .. MaxCandidates - 1) \cap (0 .. MaxProbes - 1)]
  /\ sock \in [Lanes -> BOOLEAN] /\ timers \in [Lanes -> BOOLEAN]
  /\ client \in [Lanes -> {"none", "waiting"}]
  /\ device \in [Lanes -> {"none", "wait_t", "wait_cfm"}]

SharedTyped ==
  /\ answering \in {None} \cup Candidates
  /\ inflight \in Lanes \cup {NoLane}
  /\ found \in BOOLEAN /\ failure \in BOOLEAN
  /\ lookups \in Nat /\ expiries \in 0 .. MaxExpiries

\* The lane in flight is the one that works on the lookup.
OneWorker == \A l \in Lanes : inflight = l <=> phase[l] \in Working

DataPath == \A l \in Lanes : timers[l] <=> sock[l] /\ phase[l] = "connected"

\* A lookup is in flight, or its outcome is cached, or its entry has expired.
Accounted ==
  /\ inflight # NoLane => ~found /\ ~failure
  /\ ~(found /\ failure)
  /\ lookups <= expiries + (IF inflight # NoLane \/ found \/ failure THEN 1 ELSE 0)

\* As long as no lane is closed a relay that answers and that there is time to
\* ask is still ahead.
AnswerAhead ==
  answering \in 1 .. MaxProbes /\ (\A l \in Lanes : sock[l]) =>
    /\ ~failure
    /\ \A l \in Lanes : reason[l] # "lookup" /\ tried[l] < answering

\* Whoever awaits the lookup of another lane awaits one that is under way, and
\* whoever awaits an exchange has one whose timeout is to come.
NobodyStuck ==
  \A l \in Lanes :
    /\ phase[l] = "sharing" => \E k \in Lanes : phase[k] \in Working
    /\ phase[l] = "connecting" => Running(l)

Inv ==
  /\ LanesTyped /\ SharedTyped /\ OneWorker /\ DataPath /\ Accounted /\ AnswerAhead
  /\ NobodyStuck

LEMMA InvProperties == Inv => TypeOK /\ LookupsBounded /\ AnswerFound
<1> SUFFICES ASSUME Inv PROVE TypeOK /\ LookupsBounded /\ AnswerFound
  OBVIOUS
<1>1. timers = [l \in Lanes |-> sock[l] /\ phase[l] = "connected"]
  BY DEF Inv, DataPath, LanesTyped
<1>2. phase \in [Lanes -> Settled \cup Working \cup
                   {"idle", "binding", "sharing", "registering", "connecting",
                    "confirming"}]
  BY DEF Inv, LanesTyped, Phases, Settled, Working
<1>3. {found, failure} \subseteq BOOLEAN
  BY DEF Inv, SharedTyped
<1>4. TypeOK
  BY <1>1, <1>2, <1>3 DEF Inv, LanesTyped, SharedTyped, OneWorker, TypeOK
<1>5. LookupsBounded
  BY P2pAssumption DEF Inv, Accounted, SharedTyped, LookupsBounded
<1>6. AnswerFound
  BY DEF Inv, AnswerAhead, AnswerFound
<1>7. QED
  BY <1>4, <1>5, <1>6

LEMMA InitInv == Init => Inv
<1> SUFFICES ASSUME Init PROVE Inv
  OBVIOUS
<1> USE P2pAssumption DEF Init
<1>1. LanesTyped /\ SharedTyped
  <2>1. LanesTyped
    BY DEF LanesTyped, Phases, None, Candidates
  <2>2. SharedTyped
    <3>1. found \in BOOLEAN /\ failure \in BOOLEAN
      OBVIOUS
    <3>2. lookups \in Nat /\ expiries \in 0 .. MaxExpiries
      OBVIOUS
    <3>3. QED
      BY <3>1, <3>2 DEF SharedTyped
  <2>3. QED
    BY <2>1, <2>2
<1>2. OneWorker
  BY DEF OneWorker, Working
<1>3. DataPath
  BY DEF DataPath
<1>4. Accounted
  BY DEF Accounted
<1>5. AnswerAhead
  BY DEF AnswerAhead, Candidates, None
<1>6. NobodyStuck
  BY DEF NobodyStuck
<1>7. QED
  BY <1>1, <1>2, <1>3, <1>4, <1>5, <1>6 DEF Inv

-----------------------------------------------------------------------------
(* The lookup.                                                             *)

\* The lane in flight, if there is one, is a lane.
LEMMA InflightLane ==
  ASSUME Inv PROVE inflight # NoLane <=> \E k \in Lanes : phase[k] \in Working
BY P2pAssumption DEF Inv, SharedTyped, OneWorker

\* bind() returns to an open lane, and the lookup is entered one of four ways.
LEMMA BoundInv ==
  ASSUME Inv, NEW l \in Lanes, Bound(l) PROVE Inv'
<1> USE P2pAssumption
<1>1. /\ phase[l] = "binding"
      /\ UNCHANGED <<answering, found, failure, expiries, tried, sock, client, device, timers>>
  BY DEF Bound, taskVars
<1>2. \/ /\ found /\ phase' = [phase EXCEPT ![l] = "registering"]
         /\ UNCHANGED <<reason, inflight, lookups>>
      \/ /\ ~found /\ failure /\ phase' = [phase EXCEPT ![l] = "failed"]
         /\ reason' = [reason EXCEPT ![l] = "lookup"] /\ UNCHANGED <<inflight, lookups>>
      \/ /\ ~found /\ ~failure /\ inflight = NoLane
         /\ phase' = [phase EXCEPT ![l] = "resolving"]
         /\ inflight' = l /\ lookups' = lookups + 1 /\ UNCHANGED reason
      \/ /\ ~found /\ ~failure /\ inflight # NoLane
         /\ phase' = [phase EXCEPT ![l] = "sharing"]
         /\ UNCHANGED <<reason, inflight, lookups>>
  BY DEF Bound, Lookup, Enter, Fail
<1>3. LanesTyped' /\ SharedTyped'
  BY <1>1, <1>2 DEF Inv, LanesTyped, SharedTyped, Phases
<1>4. OneWorker' /\ DataPath'
  BY <1>1, <1>2 DEF Inv, LanesTyped, OneWorker, DataPath, Working
<1>5. Accounted'
  BY <1>1, <1>2 DEF Inv, SharedTyped, Accounted
<1>6. AnswerAhead'
  BY <1>1, <1>2 DEF Inv, LanesTyped, AnswerAhead
<1>7. NobodyStuck'
  BY <1>1, <1>2, InflightLane DEF Inv, LanesTyped, NobodyStuck, Working, Running
<1>8. QED
  BY <1>3, <1>4, <1>5, <1>6, <1>7 DEF Inv

\* The lookup of a lane that is at work ends in failure, for all that share it.
LEMMA LookupFailsInv ==
  ASSUME Inv, NEW l \in Lanes, phase[l] \in Working, LookupFails(l),
         answering \in 1 .. MaxProbes => \E k \in Lanes : ~sock[k],
         UNCHANGED <<answering, found, lookups, expiries, sock, taskVars, timers>>
  PROVE  Inv'
<1> USE P2pAssumption
<1>1. /\ inflight = l /\ l # NoLane /\ ~found /\ ~failure
      /\ inflight' = NoLane /\ failure' = TRUE
      /\ phase' = [k \in Lanes |-> IF k \in Asking(l) THEN "failed" ELSE phase[k]]
      /\ reason' = [k \in Lanes |-> IF k \in Asking(l) THEN "lookup" ELSE reason[k]]
      /\ tried' = [tried EXCEPT ![l] = 0]
      /\ UNCHANGED <<answering, found, lookups, expiries, sock, client, device, timers>>
  BY DEF LookupFails, Done, Inv, OneWorker, Accounted, taskVars
<1>2. /\ \A k \in Lanes : k = l \/ phase[k] = "sharing" <=> k \in Asking(l)
      /\ \A k \in Lanes : k \in Asking(l) => phase[k] # "connected"
      /\ \A k \in Lanes : k \notin Asking(l) => phase[k] \notin Working
  BY <1>1 DEF Asking, Working, Inv, OneWorker
<1>3. LanesTyped' /\ SharedTyped'
  BY <1>1 DEF Inv, LanesTyped, SharedTyped, Phases
<1>4. OneWorker' /\ DataPath'
  BY <1>1, <1>2 DEF Inv, LanesTyped, OneWorker, DataPath, Working
<1>5. Accounted'
  BY <1>1 DEF Inv, SharedTyped, Accounted
<1>6. AnswerAhead'
  BY <1>1 DEF AnswerAhead
<1>7. NobodyStuck'
  BY <1>1, <1>2 DEF Inv, NobodyStuck, Running
<1>8. QED
  BY <1>3, <1>4, <1>5, <1>6, <1>7 DEF Inv

LEMMA ResolveInv ==
  ASSUME Inv, NEW l \in Lanes, Resolved(l) \/ ResolveFails(l) PROVE Inv'
<1> USE P2pAssumption
<1>1. CASE ResolveFails(l)
  BY <1>1, LookupFailsInv DEF ResolveFails, Working, None
<1>2. CASE Resolved(l)
  <2>1. /\ phase[l] = "resolving" /\ phase' = [phase EXCEPT ![l] = "probing"]
        /\ UNCHANGED <<answering, inflight, found, failure, lookups, expiries, reason,
                       tried, sock, client, device, timers>>
    BY <1>2 DEF Resolved, Enter, cacheVars, taskVars
  <2>2. LanesTyped' /\ SharedTyped'
    BY <2>1 DEF Inv, LanesTyped, SharedTyped, Phases
  <2>3. OneWorker' /\ DataPath'
    BY <2>1 DEF Inv, LanesTyped, OneWorker, DataPath, Working
  <2>4. Accounted' /\ AnswerAhead'
    BY <2>1 DEF Inv, Accounted, AnswerAhead
  <2>5. NobodyStuck'
    BY <2>1 DEF Inv, LanesTyped, NobodyStuck, Working, Running
  <2>6. QED
    BY <2>2, <2>3, <2>4, <2>5 DEF Inv
<1>3. QED
  BY <1>1, <1>2

LEMMA LookupFoundInv ==
  ASSUME Inv, NEW l \in Lanes, LookupFound(l) PROVE Inv'
<1> USE P2pAssumption
<1>1. /\ phase[l] = "probing" /\ inflight = l /\ l # NoLane /\ ~found /\ ~failure
      /\ inflight' = NoLane /\ found' = TRUE
      /\ phase' = [k \in Lanes |-> IF k \in Asking(l) THEN "registering" ELSE phase[k]]
      /\ tried' = [tried EXCEPT ![l] = 0]
      /\ UNCHANGED <<answering, failure, lookups, expiries, reason, sock, client, device, timers>>
  BY DEF LookupFound, Done, Inv, OneWorker, Accounted, taskVars, Working
<1>2. /\ \A k \in Lanes : k = l \/ phase[k] = "sharing" <=> k \in Asking(l)
      /\ \A k \in Lanes : k \in Asking(l) => phase[k] # "connected"
      /\ \A k \in Lanes : k \notin Asking(l) => phase[k] \notin Working
  BY <1>1 DEF Asking, Working, Inv, OneWorker
<1>3. LanesTyped' /\ SharedTyped'
  BY <1>1 DEF Inv, LanesTyped, SharedTyped, Phases
<1>4. OneWorker' /\ DataPath'
  BY <1>1, <1>2 DEF Inv, LanesTyped, OneWorker, DataPath, Working
<1>5. Accounted'
  BY <1>1 DEF Inv, SharedTyped, Accounted
<1>6. AnswerAhead'
  BY <1>1 DEF Inv, LanesTyped, SharedTyped, AnswerAhead, Candidates, None
<1>7. NobodyStuck'
  BY <1>1, <1>2 DEF Inv, NobodyStuck, Running
<1>8. QED
  BY <1>3, <1>4, <1>5, <1>6, <1>7 DEF Inv

\* A relay that drops the probe of an open lane is not the one that answers, so
\* there is another one to try.
LEMMA ProbeTimeoutInv ==
  ASSUME Inv, NEW l \in Lanes, ProbeTimeout(l) PROVE Inv'
<1> USE P2pAssumption
<1>1. /\ phase[l] = "probing" /\ sock[l] => answering # tried[l] + 1
      /\ tried[l] \in (0 .. MaxCandidates - 1) \cap (0 .. MaxProbes - 1)
      /\ answering \in {None} \cup Candidates
      /\ UNCHANGED <<answering, found, lookups, expiries, sock, taskVars, timers>>
  BY DEF ProbeTimeout, Inv, LanesTyped, SharedTyped
<1>2. (answering \in 1 .. MaxProbes /\ \A k \in Lanes : sock[k]) =>
        tried[l] + 1 < answering /\ tried[l] + 1 \notin {MaxCandidates, MaxProbes}
  BY <1>1 DEF ProbeTimeout, Inv, AnswerAhead, Candidates, None
<1>3. CASE tried[l] + 1 \in {MaxCandidates, MaxProbes}
  BY <1>1, <1>2, <1>3, LookupFailsInv DEF ProbeTimeout, Working
<1>4. CASE tried[l] + 1 \notin {MaxCandidates, MaxProbes}
  <2>1. /\ tried' = [tried EXCEPT ![l] = tried[l] + 1]
        /\ UNCHANGED <<answering, inflight, found, failure, lookups, expiries, phase,
                       reason, sock, client, device, timers>>
    BY <1>1, <1>4 DEF ProbeTimeout, taskVars
  <2>2. LanesTyped' /\ SharedTyped'
    BY <1>1, <1>4, <2>1 DEF Inv, LanesTyped, SharedTyped
  <2>3. OneWorker' /\ DataPath' /\ Accounted'
    BY <2>1 DEF Inv, OneWorker, DataPath, Accounted
  <2>4. AnswerAhead'
    BY <1>2, <2>1 DEF Inv, LanesTyped, AnswerAhead
  <2>5. NobodyStuck'
    BY <2>1 DEF Inv, NobodyStuck, Running
  <2>6. QED
    BY <2>2, <2>3, <2>4, <2>5 DEF Inv
<1>5. QED
  BY <1>3, <1>4

\* An entry that expires makes room for one lookup more.
LEMMA ExpireInv == Inv /\ Expire => Inv'
<1> SUFFICES ASSUME Inv, Expire PROVE Inv'
  OBVIOUS
<1> USE P2pAssumption
<1>1. /\ expiries < MaxExpiries /\ expiries' = expiries + 1
      /\ \/ found /\ found' = FALSE /\ failure' = failure
         \/ failure /\ failure' = FALSE /\ found' = found
      /\ UNCHANGED <<answering, inflight, lookups, phase, reason, tried, sock, client,
                     device, timers>>
  BY DEF Expire, taskVars
<1>2. LanesTyped' /\ SharedTyped'
  <2>1. LanesTyped'
    BY <1>1 DEF Inv, LanesTyped
  <2>2. SharedTyped'
    <3>1. found' \in BOOLEAN /\ failure' \in BOOLEAN
      BY <1>1 DEF Inv, SharedTyped
    <3>2. expiries' \in 0 .. MaxExpiries
      BY <1>1 DEF Inv, SharedTyped
    <3>3. QED
      BY <1>1, <3>1, <3>2 DEF Inv, SharedTyped
  <2>3. QED
    BY <2>1, <2>2
<1>3. OneWorker' /\ DataPath'
  BY <1>1 DEF Inv, OneWorker, DataPath
<1>4. Accounted'
  BY <1>1 DEF Inv, Accounted, SharedTyped
<1>5. AnswerAhead' /\ NobodyStuck'
  BY <1>1 DEF Inv, AnswerAhead, NobodyStuck, Running
<1>6. QED
  BY <1>2, <1>3, <1>4, <1>5 DEF Inv

-----------------------------------------------------------------------------
(* After the lookup: one lane, which shares nothing, changes.              *)

LEMMA LaneInv ==
  ASSUME Inv, NEW l \in Lanes, NEW p \in Phases,
         \/ p = phase[l]
         \/ /\ p \notin Working \cup {"sharing"}
            /\ phase[l] \notin Working \cup {"sharing"},
         phase' = [phase EXCEPT ![l] = p],
         \/ reason' = reason
         \/ \E why \in {"bind", "camera"} : reason' = [reason EXCEPT ![l] = why],
         client' \in [Lanes -> {"none", "waiting"}],
         device' \in [Lanes -> {"none", "wait_t", "wait_cfm"}],
         \A k \in Lanes \ {l} : client'[k] = client[k] /\ device'[k] = device[k],
         p = "connecting" => Running(l)',
         timers' = [timers EXCEPT ![l] = (sock[l] /\ p = "connected")],
         UNCHANGED <<answering, cacheVars, tried, sock>>
  PROVE  Inv'
<1> USE P2pAssumption
<1>1. UNCHANGED <<answering, inflight, found, failure, lookups, expiries, tried, sock>>
  BY DEF cacheVars
<1>2. /\ \A k \in Lanes : k # l => phase'[k] = phase[k] /\ timers'[k] = timers[k]
      /\ phase'[l] = p /\ (timers'[l] <=> sock[l] /\ p = "connected")
  BY DEF Inv, LanesTyped
<1>3. LanesTyped'
  BY <1>1, <1>2 DEF Inv, LanesTyped
<1>4. SharedTyped'
  BY <1>1 DEF Inv, SharedTyped
<1>5. OneWorker'
  BY <1>1, <1>2 DEF Inv, OneWorker
<1>6. DataPath'
  <2>1. \A k \in Lanes \ {l} : timers'[k] <=> sock'[k] /\ phase'[k] = "connected"
    BY <1>1, <1>2 DEF Inv, DataPath
  <2>2. timers'[l] <=> sock'[l] /\ phase'[l] = "connected"
    BY <1>1, <1>2
  <2>3. QED
    BY <2>1, <2>2 DEF DataPath
<1>7. Accounted' /\ AnswerAhead'
  BY <1>1 DEF Inv, LanesTyped, Accounted, AnswerAhead
<1>8. NobodyStuck'
  <2>1. \A k \in Lanes : phase[k] \in Working <=> phase'[k] \in Working
    BY <1>2
  <2>2. \A k \in Lanes \ {l} : Running(k) => Running(k)'
    BY DEF Running
  <2>3. \A k \in Lanes : phase'[k] = "sharing" => phase[k] = "sharing"
    BY <1>2
  <2>4. QED
    BY <1>2, <2>1, <2>2, <2>3 DEF Inv, NobodyStuck
<1>9. QED
  BY <1>3, <1>4, <1>5, <1>6, <1>7, <1>8 DEF Inv

\* A lane without data timers, which another place does not give it.
LEMMA TimersKept ==
  ASSUME Inv, NEW l \in Lanes, NEW p, p = phase[l] \/ (phase[l] # "connected" /\ p # "connected"),
         timers' = timers
  PROVE  timers' = [timers EXCEPT ![l] = (sock[l] /\ p = "connected")]
<1>1. timers[l] = (sock[l] /\ p = "connected")
  BY DEF Inv, DataPath, LanesTyped
<1>2. QED
  BY <1>1 DEF Inv, LanesTyped

\* connect() waits for bind(), which fails or not.
LEMMA BeginInv ==
  ASSUME Inv, NEW l \in Lanes, Connect(l) \/ BindFails(l) PROVE Inv'
<1>1. /\ phase[l] \in {"idle", "binding"}
      /\ UNCHANGED <<answering, cacheVars, tried, sock, timers>>
      /\ client' = client /\ device' = device
  BY DEF Connect, BindFails, taskVars
<1>2. PICK p \in {"binding", "failed"} :
        /\ phase' = [phase EXCEPT ![l] = p]
        /\ reason' = reason \/ reason' = [reason EXCEPT ![l] = "bind"]
  BY DEF Connect, BindFails, Fail, Enter
<1>3. /\ p \in Phases /\ p \notin Working \cup {"sharing"} /\ p # "connecting"
      /\ phase[l] \notin Working \cup {"sharing"}
      /\ timers' = [timers EXCEPT ![l] = (sock[l] /\ p = "connected")]
  BY <1>1, TimersKept DEF Phases, Working
<1>4. /\ client' \in [Lanes -> {"none", "waiting"}]
      /\ device' \in [Lanes -> {"none", "wait_t", "wait_cfm"}]
  BY <1>1 DEF Inv, LanesTyped
<1>5. QED
  BY <1>1, <1>2, <1>3, <1>4, LaneInv

LEMMA RegisterInv ==
  ASSUME Inv, NEW l \in Lanes, Register(l) PROVE Inv'
<1>1. /\ phase[l] = "registering" /\ phase[l] \notin Working \cup {"sharing"}
      /\ UNCHANGED <<answering, cacheVars, tried, sock, timers>>
  BY DEF Register, Registered, RegisterFails, Working
<1>2. \A p \in {"failed", "connecting"} :
        /\ p \in Phases /\ p \notin Working \cup {"sharing"}
        /\ timers' = [timers EXCEPT ![l] = (sock[l] /\ p = "connected")]
  BY <1>1, TimersKept DEF Phases, Working
<1>3. CASE RegisterFails(l)
  <2>1. /\ phase' = [phase EXCEPT ![l] = "failed"] /\ reason' = [reason EXCEPT ![l] = "camera"]
        /\ client' = client /\ device' = device
    BY <1>3 DEF RegisterFails, Fail, Enter, taskVars
  <2>2. QED
    BY <1>1, <1>2, <2>1, LaneInv DEF Inv, LanesTyped
<1>4. CASE Registered(l)
  <2>1. PICK c \in {"none", "waiting"}, d \in {"none", "wait_t"} :
          client' = [client EXCEPT ![l] = c] /\ device' = [device EXCEPT ![l] = d]
    BY <1>4 DEF Registered, ClientTask, DeviceTask
  <2>2. /\ client' \in [Lanes -> {"none", "waiting"}]
        /\ device' \in [Lanes -> {"none", "wait_t", "wait_cfm"}]
        /\ client'[l] = c /\ device'[l] = d
        /\ \A k \in Lanes \ {l} : client'[k] = client[k] /\ device'[k] = device[k]
    BY <2>1 DEF Inv, LanesTyped
  <2>3. CASE c = "none" /\ d = "none"
    <3>1. /\ phase' = [phase EXCEPT ![l] = "failed"]
          /\ reason' = [reason EXCEPT ![l] = "camera"]
      BY <1>4, <2>2, <2>3 DEF Registered, Fail, Enter
    <3>2. QED
      BY <1>1, <1>2, <2>2, <3>1, LaneInv
  <2>4. CASE c # "none" \/ d # "none"
    <3>1. phase' = [phase EXCEPT ![l] = "connecting"] /\ reason' = reason
      BY <1>4, <2>2, <2>4 DEF Registered, Enter
    <3>2. Running(l)'
      BY <2>2, <2>4 DEF Running
    <3>3. QED
      BY <1>1, <1>2, <2>2, <3>1, <3>2, LaneInv
  <2>5. QED
    BY <2>3, <2>4
<1>5. QED
  BY <1>3, <1>4 DEF Register

\* A message of an exchange: it goes on, or ends and with it Promise.race().
LEMMA RecvInv ==
  ASSUME Inv, NEW l \in Lanes, RecvT(l) \/ RecvCfm(l) PROVE Inv'
<1>1. /\ UNCHANGED <<answering, cacheVars, reason, tried, sock, timers>>
      /\ phase \in [Lanes -> Phases]
  BY DEF RecvT, RecvCfm, Inv, LanesTyped
<1>2. CASE RecvT(l)
  <2>1. /\ phase' = [phase EXCEPT ![l] = phase[l]] /\ phase[l] \in Phases
        /\ client' = client /\ device' = [device EXCEPT ![l] = "wait_cfm"]
    BY <1>1, <1>2 DEF RecvT
  <2>2. /\ client' \in [Lanes -> {"none", "waiting"}]
        /\ device' \in [Lanes -> {"none", "wait_t", "wait_cfm"}] /\ Running(l)'
        /\ \A k \in Lanes \ {l} : client'[k] = client[k] /\ device'[k] = device[k]
    BY <2>1 DEF Inv, LanesTyped, Running
  <2>3. QED
    BY <1>1, <2>1, <2>2, TimersKept, LaneInv
<1>3. CASE RecvCfm(l)
  <2> DEFINE p == IF phase[l] = "connecting" THEN "confirming" ELSE phase[l]
  <2>1. phase' = [phase EXCEPT ![l] = p]
    BY <1>3 DEF RecvCfm, Enter
  <2>2. /\ client' \in [Lanes -> {"none", "waiting"}]
        /\ device' \in [Lanes -> {"none", "wait_t", "wait_cfm"}]
        /\ \A k \in Lanes \ {l} : client'[k] = client[k] /\ device'[k] = device[k]
    BY <1>3 DEF RecvCfm, Inv, LanesTyped
  <2>3. /\ p \in Phases /\ p # "connecting"
        /\ \/ p = phase[l]
           \/ /\ p \notin Working \cup {"sharing"}
              /\ phase[l] \notin Working \cup {"sharing"}
        /\ p = phase[l] \/ (phase[l] # "connected" /\ p # "connected")
    BY <1>1 DEF Phases, Working
  <2> HIDE DEF p
  <2>4. QED
    BY <1>1, <2>1, <2>2, <2>3, TimersKept, LaneInv
<1>4. QED
  BY <1>2, <1>3

LEMMA ConnectTimeoutInv ==
  ASSUME Inv, NEW l \in Lanes, ConnectTimeout(l) PROVE Inv'
<1> DEFINE p == IF phase[l] = "connecting" THEN "failed" ELSE phase[l]
<1>1. /\ UNCHANGED <<answering, cacheVars, tried, sock, timers>>
      /\ client' = [client EXCEPT ![l] = "none"] /\ device' = [device EXCEPT ![l] = "none"]
  BY DEF ConnectTimeout
<1>2. /\ phase' = [phase EXCEPT ![l] = p]
      /\ reason' = reason \/ reason' = [reason EXCEPT ![l] = "camera"]
  BY DEF ConnectTimeout, Fail, Enter, Inv, LanesTyped
<1>3. /\ client' \in [Lanes -> {"none", "waiting"}]
      /\ device' \in [Lanes -> {"none", "wait_t", "wait_cfm"}]
      /\ \A k \in Lanes \ {l} : client'[k] = client[k] /\ device'[k] = device[k]
  BY <1>1 DEF Inv, LanesTyped
<1>4. /\ p \in Phases /\ p # "connecting"
      /\ \/ p = phase[l]
         \/ /\ p \notin Working \cup {"sharing"}
            /\ phase[l] \notin Working \cup {"sharing"}
      /\ p = phase[l] \/ (phase[l] # "connected" /\ p # "connected")
  BY DEF Phases, Working, Inv, LanesTyped
<1> HIDE DEF p
<1>5. QED
  BY <1>1, <1>2, <1>3, <1>4, TimersKept, LaneInv

LEMMA ConfirmedInv ==
  ASSUME Inv, NEW l \in Lanes, Confirmed(l) PROVE Inv'
<1> DEFINE p == IF sock[l] THEN "connected" ELSE "failed"
<1>1. /\ UNCHANGED <<answering, cacheVars, tried, sock, client, device>>
      /\ phase[l] = "confirming" /\ phase' = [phase EXCEPT ![l] = p]
      /\ reason' = reason \/ reason' = [reason EXCEPT ![l] = "camera"]
  BY DEF Confirmed, Fail, Enter, taskVars
<1>2. timers' = [timers EXCEPT ![l] = (sock[l] /\ p = "connected")]
  <2>1. sock[l] = (sock[l] /\ p = "connected")
    BY DEF Inv, LanesTyped
  <2>2. QED
    BY <2>1 DEF Confirmed
<1>3. /\ p \in Phases /\ p # "connecting" /\ p \notin Working \cup {"sharing"}
      /\ phase[l] \notin Working \cup {"sharing"}
  BY <1>1 DEF Phases, Working
<1> HIDE DEF p
<1>4. QED
  BY <1>1, <1>2, <1>3, LaneInv DEF Inv, LanesTyped

\* The lane loses its socket and the data timers, and keeps its place.
LEMMA CloseInv ==
  ASSUME Inv, NEW l \in Lanes, Close(l) PROVE Inv'
<1> USE P2pAssumption
<1>1. /\ sock' = [sock EXCEPT ![l] = FALSE] /\ timers' = [timers EXCEPT ![l] = FALSE]
      /\ UNCHANGED <<answering, inflight, found, failure, lookups, expiries, phase, reason,
                     tried, client, device>>
  BY DEF Close, cacheVars, taskVars
<1>2. LanesTyped'
  BY <1>1 DEF Inv, LanesTyped
<1>3. SharedTyped'
  BY <1>1 DEF Inv, SharedTyped
<1>4. OneWorker' /\ Accounted' /\ NobodyStuck'
  BY <1>1 DEF Inv, OneWorker, Accounted, NobodyStuck, Running
<1>5. DataPath'
  BY <1>1 DEF Inv, LanesTyped, DataPath
<1>6. AnswerAhead'
  BY <1>1 DEF Inv, LanesTyped, AnswerAhead
<1>7. QED
  BY <1>2, <1>3, <1>4, <1>5, <1>6 DEF Inv

-----------------------------------------------------------------------------
\* The inductive invariant holds in every reachable state.
THEOREM Invariance == Spec => []Inv
<1>1. Inv /\ UNCHANGED vars => Inv'
  BY DEF vars, cacheVars, taskVars, Inv, LanesTyped, SharedTyped, OneWorker, DataPath,
         Accounted, AnswerAhead, NobodyStuck, Running
<1>2. Inv /\ Next => Inv'
  BY BeginInv, BoundInv, ResolveInv, LookupFoundInv, ProbeTimeoutInv, ExpireInv, RegisterInv,
     RecvInv, ConnectTimeoutInv, ConfirmedInv, CloseInv
     DEF Next, Bind, LookupStep, Exchange
<1>3. QED
  BY InitInv, <1>1, <1>2, PTL DEF Spec

\* The state of all lanes keeps its types; the lookup in flight is the one being
\* worked on, the data timers run on open streams that are connected.
THEOREM TypeCorrect == Spec => []TypeOK
BY Invariance, InvProperties, PTL

\* However many lanes connect and fail, there is at most one lookup per lifetime
\* of a cache entry, and the uid is not cached both as found and as failed.
THEOREM LookupsShared == Spec => []LookupsBounded
BY Invariance, InvProperties, PTL

\* As long as no lane is closed, a relay that answers is found if it is among the
\* first MaxProbes, the ones the 15 s of a lookup leave time to ask; whether the
\* ones before it answer, and how many more there are, makes no difference.
THEOREM RelayFound == Spec => []AnswerFound
BY Invariance, InvProperties, PTL

\* A lane that shares a lookup shares one that is under way, and a lane that awaits
\* the camera has an exchange whose timeout is to come: the safety half of
\* ConnectSettles.
THEOREM NobodyWaitsForNothing == Spec => []NobodyStuck
<1>1. Inv => NobodyStuck
  BY DEF Inv
<1>2. QED
  BY <1>1, Invariance, PTL
=============================================================================
