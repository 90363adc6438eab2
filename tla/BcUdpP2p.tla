------------------------------- MODULE BcUdpP2p -------------------------------
(***************************************************************************)
(* connect() of class BcUdpStream through Reolink's servers: look the uid  *)
(* up, register with the camera's server, connect to the camera (two ways  *)
(* at once for the method "remote"), confirm, start the data path.         *)
(*                                                                         *)
(* Several streams with the same uid ("lanes") connect at once; they share *)
(* one lookup and its outcome through three maps at module scope.  A lane  *)
(* may be closed at any time, which does not end its connect().            *)
(***************************************************************************)
EXTENDS Integers

CONSTANTS
  Lanes,          \* the streams with this uid
  NoLane,         \* no lookup is in flight
  MaxCandidates,  \* the relay addresses DNS knows
  MaxProbes,      \* the probes of 3 s each that fit into the 15 s of a lookup
  MaxExpiries     \* bound: cache entries that expire

ASSUME P2pAssumption ==
  /\ NoLane \notin Lanes
  /\ MaxCandidates \in Nat \ {0} /\ MaxProbes \in Nat \ {0}
  /\ MaxExpiries \in Nat

VARIABLES
  answering,  \* the first relay address that answers its probe; None when none
              \* does, or DNS knows no address
  inflight,   \* inflightP2pLookups: the lane that does the work
  found,      \* cachedP2pLookups holds a valid entry
  failure,    \* negCachedP2pLookups holds a valid entry
  phase,      \* where connect() of each lane is
  reason,     \* what made it fail: the bind, the lookup or what comes after
  tried,      \* relay addresses that did not answer the lane's lookup
  sock,       \* the lane is open
  client,     \* its client-initiated exchange, if it runs
  device,     \* its device-initiated exchange, if it runs
  timers,     \* ackTimer, resendTimer and hbTimer run
  lookups,    \* history: lookups started
  expiries    \* history: cache entries that expired

cacheVars == <<inflight, found, failure, lookups, expiries>>
taskVars == <<client, device>>
vars == <<answering, cacheVars, phase, reason, tried, sock, taskVars, timers>>

None == 0
Candidates == 1 .. MaxCandidates

Working == {"resolving", "probing"}
Settled == {"connected", "failed"}

Enter(l, p) == phase' = [phase EXCEPT ![l] = p]
Fail(l, why) ==
  /\ Enter(l, "failed")
  /\ reason' = [reason EXCEPT ![l] = why]

-----------------------------------------------------------------------------
(* p2pUidLookup().                                                         *)

\* Mutant: a lookup in flight is not shared.
Lookup_Unshared(l) ==
  \/ found /\ Enter(l, "registering") /\ UNCHANGED <<reason, inflight, lookups>>
  \/ ~found /\ failure /\ Fail(l, "lookup") /\ UNCHANGED <<inflight, lookups>>
  \/ /\ ~found /\ ~failure
     /\ Enter(l, "resolving") /\ inflight' = l /\ lookups' = lookups + 1
     /\ UNCHANGED reason

\* The caches are asked first, then a lookup in flight is joined; otherwise
\* this lane does the work.
Lookup(l) ==
  \/ found /\ Enter(l, "registering") /\ UNCHANGED <<reason, inflight, lookups>>
  \/ ~found /\ failure /\ Fail(l, "lookup") /\ UNCHANGED <<inflight, lookups>>
  \/ /\ ~found /\ ~failure
     /\ IF inflight = NoLane
        THEN Enter(l, "resolving") /\ inflight' = l /\ lookups' = lookups + 1
        ELSE Enter(l, "sharing") /\ UNCHANGED <<inflight, lookups>>
     /\ UNCHANGED reason

\* connect() creates the socket and awaits bind() ...
Connect(l) ==
  /\ phase[l] = "idle"
  /\ Enter(l, "binding")
  /\ UNCHANGED <<answering, cacheVars, reason, tried, sock, taskVars, timers>>

\* ... whose callback, which a closed socket never calls, resumes it:
\* discoveryUidP2p() begins ...
Bound(l) ==
  /\ phase[l] = "binding" /\ sock[l]
  /\ Lookup(l)
  /\ UNCHANGED <<answering, found, failure, expiries, tried, sock, taskVars, timers>>

\* ... or which reports an error.
BindFails(l) ==
  /\ phase[l] = "binding" /\ sock[l]
  /\ Fail(l, "bind")
  /\ UNCHANGED <<answering, cacheVars, tried, sock, taskVars, timers>>

\* Mutant: the lookup that has ended stays in flight.
Done_StaysInflight == UNCHANGED inflight

\* The `finally' of p2pUidLookup().
Done == inflight' = NoLane

\* Those that wait for the lookup of lane l, itself included.
Asking(l) == {k \in Lanes : k = l \/ phase[k] = "sharing"}

LookupFails(l) ==
  /\ Done
  /\ failure' = TRUE
  /\ phase' = [k \in Lanes |-> IF k \in Asking(l) THEN "failed" ELSE phase[k]]
  /\ reason' = [k \in Lanes |-> IF k \in Asking(l) THEN "lookup" ELSE reason[k]]
  /\ tried' = [tried EXCEPT ![l] = 0]

\* The relay hostnames are resolved, the hinted one first ...
Resolved(l) ==
  /\ phase[l] = "resolving"
  /\ Enter(l, "probing")
  /\ UNCHANGED <<answering, cacheVars, reason, tried, sock, taskVars, timers>>

\* ... or none of them has a routable address.
ResolveFails(l) ==
  /\ phase[l] = "resolving" /\ answering = None
  /\ LookupFails(l)
  /\ UNCHANGED <<answering, found, lookups, expiries, sock, taskVars, timers>>

\* A relay answers with the addresses of the camera's servers.
LookupFound(l) ==
  /\ phase[l] = "probing" /\ sock[l]
  /\ answering = tried[l] + 1
  /\ Done
  /\ found' = TRUE
  /\ phase' = [k \in Lanes |-> IF k \in Asking(l) THEN "registering" ELSE phase[k]]
  /\ tried' = [tried EXCEPT ![l] = 0]
  /\ UNCHANGED <<answering, failure, lookups, expiries, reason, sock, taskVars, timers>>

\* Mutant: the first relay that does not answer ends the lookup.
ProbeTimeout_GivesUp(l) ==
  /\ phase[l] = "probing"
  /\ sock[l] => answering # tried[l] + 1
  /\ LookupFails(l)
  /\ UNCHANGED <<answering, found, lookups, expiries, sock, taskVars, timers>>

\* p2pUidLookupOne() times out: on a closed socket nothing is ever received.
\* The next address is tried, unless there is none or the 15 s are over: then
\* the lookup fails for everyone.
ProbeTimeout(l) ==
  /\ phase[l] = "probing"
  /\ sock[l] => answering # tried[l] + 1
  /\ IF tried[l] + 1 \in {MaxCandidates, MaxProbes}
     THEN LookupFails(l)
     ELSE /\ tried' = [tried EXCEPT ![l] = @ + 1]
          /\ UNCHANGED <<inflight, failure, phase, reason>>
  /\ UNCHANGED <<answering, found, lookups, expiries, sock, taskVars, timers>>

\* 30 s after a success, or 15 s after a failure.
Expire ==
  /\ expiries < MaxExpiries
  /\ \/ found /\ found' = FALSE /\ UNCHANGED failure
     \/ failure /\ failure' = FALSE /\ UNCHANGED found
  /\ expiries' = expiries + 1
  /\ UNCHANGED <<answering, inflight, lookups, phase, reason, tried, sock, taskVars, timers>>

-----------------------------------------------------------------------------
(* p2pRegister(), p2pConnect(), p2pConfirm().                              *)

\* The exchanges a method begins when the server knows these addresses.
ClientTask(method, addrs) ==
  IF \/ method = "remote" /\ "dev" \in addrs
     \/ method = "relay" /\ "relay" \in addrs
  THEN "waiting" ELSE "none"
DeviceTask(method, addrs) ==
  IF method \in {"remote", "map"} /\ "dmap" \in addrs THEN "wait_t" ELSE "none"

\* The server answers with a session id and at least one address; without the
\* ones its method needs the lane fails.
Registered(l) ==
  /\ phase[l] = "registering" /\ sock[l]
  /\ \E method \in {"remote", "map", "relay"} :
       \E addrs \in SUBSET {"dev", "dmap", "relay"} \ {{}} :
         /\ client' = [client EXCEPT ![l] = ClientTask(method, addrs)]
         /\ device' = [device EXCEPT ![l] = DeviceTask(method, addrs)]
  /\ IF client'[l] = "none" /\ device'[l] = "none"
     THEN Fail(l, "camera")
     ELSE Enter(l, "connecting") /\ UNCHANGED reason
  /\ UNCHANGED <<answering, cacheVars, tried, sock, timers>>

\* Mutant: close() cancels the timeout with the other discovery timers.
RegisterFails_OnlyOpen(l) ==
  /\ phase[l] = "registering" /\ sock[l]
  /\ Fail(l, "camera")
  /\ UNCHANGED <<answering, cacheVars, tried, sock, taskVars, timers>>

\* The server rejects the registration or does not answer within 15 s.
RegisterFails(l) ==
  /\ phase[l] = "registering"
  /\ Fail(l, "camera")
  /\ UNCHANGED <<answering, cacheVars, tried, sock, taskVars, timers>>

\* D2C_T: the device-initiated exchange answers with C2D_A from now on.
RecvT(l) ==
  /\ sock[l] /\ device[l] = "wait_t"
  /\ device' = [device EXCEPT ![l] = "wait_cfm"]
  /\ UNCHANGED <<answering, cacheVars, phase, reason, tried, sock, client, timers>>

\* D2C_CFM ends the client's exchange, and the device's if it is far enough and
\* the device and the kind of connection match; the first one that ends settles
\* Promise.race(), the other goes on sending.
RecvCfm(l) ==
  /\ sock[l]
  /\ \E ends \in SUBSET {"wait_cfm"} :
       /\ client[l] = "waiting" \/ device[l] \in ends
       /\ device' = [device EXCEPT ![l] = IF @ \in ends THEN "none" ELSE @]
  /\ client' = [client EXCEPT ![l] = "none"]
  /\ Enter(l, IF phase[l] = "connecting" THEN "confirming" ELSE phase[l])
  /\ UNCHANGED <<answering, cacheVars, reason, tried, sock, timers>>

Running(l) == client[l] = "waiting" \/ device[l] \in {"wait_t", "wait_cfm"}

\* The 15 s of the exchanges, which began together, are over.
ConnectTimeout(l) ==
  /\ Running(l)
  /\ client' = [client EXCEPT ![l] = "none"]
  /\ device' = [device EXCEPT ![l] = "none"]
  /\ IF phase[l] = "connecting" THEN Fail(l, "camera") ELSE UNCHANGED <<phase, reason>>
  /\ UNCHANGED <<answering, cacheVars, tried, sock, timers>>

\* C2R_CFM was sent five times; startTimers() throws on a closed stream.
Confirmed(l) ==
  /\ phase[l] = "confirming"
  /\ timers' = [timers EXCEPT ![l] = sock[l]]
  /\ IF sock[l] THEN Enter(l, "connected") /\ UNCHANGED reason
                ELSE Fail(l, "camera")
  /\ UNCHANGED <<answering, cacheVars, tried, sock, taskVars>>

\* close(): no timer of this module is among the discoveryTimers it cancels.
\* Before connect() there is nothing to close.
Close(l) ==
  /\ phase[l] # "idle" /\ sock[l]
  /\ sock' = [sock EXCEPT ![l] = FALSE]
  /\ timers' = [timers EXCEPT ![l] = FALSE]
  /\ UNCHANGED <<answering, cacheVars, phase, reason, tried, taskVars>>

-----------------------------------------------------------------------------
Init ==
  /\ answering \in {None} \cup Candidates
  /\ inflight = NoLane /\ found = FALSE /\ failure = FALSE
  /\ phase = [l \in Lanes |-> "idle"]
  /\ reason = [l \in Lanes |-> "none"]
  /\ tried = [l \in Lanes |-> 0]
  /\ sock = [l \in Lanes |-> TRUE]
  /\ client = [l \in Lanes |-> "none"] /\ device = [l \in Lanes |-> "none"]
  /\ timers = [l \in Lanes |-> FALSE]
  /\ lookups = 0 /\ expiries = 0

Bind(l) == Bound(l) \/ BindFails(l)
LookupStep(l) == Resolved(l) \/ ResolveFails(l) \/ LookupFound(l) \/ ProbeTimeout(l)
Exchange(l) == RecvT(l) \/ RecvCfm(l) \/ ConnectTimeout(l)
Register(l) == Registered(l) \/ RegisterFails(l)

Next ==
  \/ \E l \in Lanes : \/ Connect(l) \/ Bind(l) \/ LookupStep(l) \/ Register(l)
                      \/ Exchange(l) \/ Confirmed(l) \/ Close(l)
  \/ Expire

Spec == Init /\ [][Next]_vars

(* Awaited promises settle and timeouts fire; nobody has to call connect(). *)
FairSpec ==
  /\ Spec
  /\ \A l \in Lanes : /\ WF_vars(Bind(l)) /\ WF_vars(LookupStep(l))
                      /\ WF_vars(Register(l)) /\ WF_vars(ConnectTimeout(l))
                      /\ WF_vars(Confirmed(l))

-----------------------------------------------------------------------------
(* Properties.                                                             *)

\* Type invariant; the lookup in flight is the one that is being worked on, the
\* data timers run on open streams whose connect() has succeeded.
TypeOK ==
  /\ answering \in {None} \cup Candidates
  /\ {found, failure} \subseteq BOOLEAN
  /\ \A l \in Lanes : inflight = l <=> phase[l] \in Working
  /\ phase \in [Lanes -> Settled \cup Working \cup
                  {"idle", "binding", "sharing", "registering", "connecting",
                   "confirming"}]
  /\ reason \in [Lanes -> {"none", "bind", "lookup", "camera"}]
  /\ tried \in [Lanes -> (0 .. MaxCandidates - 1) \cap (0 .. MaxProbes - 1)]
  /\ sock \in [Lanes -> BOOLEAN]
  /\ timers = [l \in Lanes |-> sock[l] /\ phase[l] = "connected"]
  /\ client \in [Lanes -> {"none", "waiting"}]
  /\ device \in [Lanes -> {"none", "wait_t", "wait_cfm"}]
  /\ lookups \in Nat /\ expiries \in 0 .. MaxExpiries

\* "lets retries that start AFTER the in-flight one resolves also skip the
\* work": the pipeline is run at most once per lifetime of a cache entry, no
\* matter how many lanes connect and fail, so that lookups whose outcomes differ
\* do not overlap: the uid is never cached both as found and as failed.
LookupsBounded == lookups <= 1 + expiries /\ ~(found /\ failure)

\* A relay that answers is found although those before it drop the probes, if it
\* is among the ones the 15 s leave time to ask: as long as no lane is closed,
\* none fails for want of a lookup.
AnswerFound ==
  answering \in 1 .. MaxProbes /\ (\A l \in Lanes : sock[l]) =>
    \A l \in Lanes : reason[l] # "lookup"

\* connect() settles, also on a stream that is closed later: close() cancels none
\* of the timeouts its promises depend on, and a lane that shares a lookup is
\* told of its end.  The exception is a close() while bind() is awaited: the
\* socket then never calls back, and connect() stays pending.
ConnectSettles ==
  \A l \in Lanes :
    phase[l] # "idle" ~>
      phase[l] \in Settled \/ (phase[l] = "binding" /\ ~sock[l])
=============================================================================
