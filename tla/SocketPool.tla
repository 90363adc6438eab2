------------------------------ MODULE SocketPool ------------------------------
(***************************************************************************)
(* The socket pool of one ReolinkBaichuanApi: consumers acquire and        *)
(* release logged-in clients by tag, idle ones are closed by timers, and   *)
(* entries are torn from under their users by the preemption of a replay,  *)
(* D2C_DISC, stream timeouts, the reconnection of the general socket and   *)
(* the end of the API.                                                     *)
(*                                                                         *)
(* An entry and its client are one number, free again once nothing refers  *)
(* to them.  A release acts on the entry that has the tag THEN, not on the *)
(* one that was acquired; so do the idle timers.  Of a client only its     *)
(* connection is modelled: "creating" (first login, pendingPromise is      *)
(* set), "up", "down" (not logged in), "closed".                           *)
(***************************************************************************)
EXTENDS Integers, FiniteSets

CONSTANTS
  Users,        \* consumers of sessions
  Keys,         \* session keys they ask for
  MultiFocal,   \* _isMultiFocal
  MaxSockets,   \* bound: entries alive, or still referred to, at a time
  MaxTorn       \* bound: tags an entry is torn from while the API is open

ASSUME PoolAssumption ==
  /\ IsFiniteSet(Users)
  /\ MaxSockets \in Nat \ {0} /\ MaxTorn \in Nat /\ MultiFocal \in BOOLEAN

FailureThreshold == 2   \* SOCKET_POOL_FAILURE_THRESHOLD
StormThreshold == 3     \* D2C_DISC_STORM_THRESHOLD

VARIABLES
  pool,          \* socketPool: tag -> entry
  entry,         \* of each number
  user,          \* how far each consumer's acquire is
  cool,          \* socketPoolCooldowns of the host; fails = 0: no record
  reconnecting,  \* reconnectGeneralSocket(): "no", "closing" the old client, "login"
  closed,        \* _closed
  torn           \* history: tags an entry was removed from, or replaced, while in use

others == <<reconnecting, closed>>
vars == <<pool, entry, user, cool, others, torn>>

-----------------------------------------------------------------------------
(* Tags, entries and who uses them.                                        *)

General == <<"general">>
Paired == -1            \* the socket of ch0 main and ch1 sub ("streaming:a")

Live(ch, profile) == [kind |-> "live", ch |-> ch, profile |-> profile]
Replay(ch) == [kind |-> "replay", ch |-> ch, profile |-> "main"]

\* resolveSocketTag(); a key that is neither goes to the general socket
SocketTag(key) ==
  CASE key.kind = "replay" -> <<"replay", key.ch>>
    [] key.kind = "live" /\ key.profile = "ext" ->
         IF key.ch = 0 \/ MultiFocal THEN General ELSE <<"streaming", key.ch, "ext">>
    [] key.kind = "live" /\ key.profile # "ext" /\ MultiFocal ->
         IF <<key.ch, key.profile>> \in {<<0, "main">>, <<1, "sub">>}
         THEN <<"streaming", Paired>> ELSE General
    [] key.kind = "live" /\ key.profile # "ext" /\ ~MultiFocal -> <<"streaming", key.ch>>
    [] OTHER -> General

Tags == {General} \cup {SocketTag(k) : k \in Keys}
Kind(tag) == tag[1]

None == 0
NoCooldown == [fails |-> 0, blocked |-> FALSE]
Idle == [at |-> "idle", tag |-> General, entry |-> None]
At(place, tag, e) == [at |-> place, tag |-> tag, entry |-> e]
Entry(tag, sock, refs) ==
  [tag |-> tag, sock |-> sock, refs |-> refs, timer |-> "unset", permit |-> None]

\* The consumer has the entry, logs it in again, or waits for its first login.
Uses(u, e) ==
  user[u].entry = e /\ user[u].at \in {"holding", "relogin", "creating", "waiting"}
UsersOf(e) == {u \in Users : Uses(u, e)}
CreatorOf(e) == {u \in UsersOf(e) : user[u].at = "creating"}
Pending(e) == entry[e].sock = "creating"

\* client.close(); an entry whose login is pending has no client to close yet
Closed(sock) == IF sock = "creating" THEN sock ELSE "closed"
\* Out of the pool nothing reads the refCount any more.
Removed(e) == [entry[e] EXCEPT !.permit = None, !.refs = 0, !.sock = Closed(@)]
\* forceClosePooledSocket(), cleanupSocketPool()
Forced(e) == [Removed(e) EXCEPT !.timer = "unset"]

Entries == 1 .. MaxSockets
Dead(e) ==
  /\ entry[e].sock = "closed" /\ entry[e].timer # "armed"
  /\ \A t \in Tags : pool[t] # e
  /\ \A u \in Users : user[u].entry # e
  /\ \A f \in Entries : entry[f].sock # "closed" => entry[f].permit # e
DeadOnes == {e \in Entries : Dead(e)}
Fresh == CHOOSE e \in DeadOnes : \A f \in DeadOnes : e <= f

\* The numbers that acquires and a reconnection under way may still need.
Reserved == Cardinality({u \in Users : user[u].at \in {"relogin", "closing"}})
            + (IF reconnecting = "closing" THEN 1 ELSE 0)
SocketsLeft == Cardinality(DeadOnes) > Reserved

-----------------------------------------------------------------------------
(* acquirePooledSocket()                                                   *)

MayTear(tags) == Cardinality(torn \cup tags) <= MaxTorn

\* The check at the top; a consumer that is rejected is still idle.
PassesCooldown ==
  \/ ~cool.blocked /\ UNCHANGED cool
  \/ cool # NoCooldown /\ cool' = NoCooldown      \* 60 s without a failure

Creates(u, tag) ==
  /\ entry' = [entry EXCEPT ![Fresh] = Entry(tag, "creating", 0)]
  /\ pool' = [pool EXCEPT ![tag] = Fresh]
  /\ user' = [user EXCEPT ![u] = At("creating", tag, Fresh)]
  /\ torn' = IF pool[tag] = None THEN torn ELSE torn \cup {tag}

\* Closes an entry to create another; takes from the pool whatever has the tag.
Recreates(u, e) ==
  LET tag == entry[e].tag IN
  /\ pool' = [pool EXCEPT ![tag] = None]
  /\ entry' = [entry EXCEPT ![e] = Removed(e)]
  /\ user' = [user EXCEPT ![u] = At("closing", tag, None)]
  /\ torn' = IF UsersOf(e) \subseteq {u} /\ pool[tag] \in {None, e}
             THEN torn ELSE torn \cup {tag}

\* A closed API is not to be used again.
Asks(u) == user[u] = Idle /\ ~closed /\ PassesCooldown /\ UNCHANGED others

AcquireNew(u, tag) ==
  /\ pool[tag] = None /\ SocketsLeft
  /\ Asks(u)
  /\ Creates(u, tag)

AcquirePending(u, tag) ==
  LET e == pool[tag] IN
  /\ e # None /\ Pending(e)
  /\ Asks(u)
  /\ entry' = [entry EXCEPT ![e].timer = "unset"]
  /\ user' = [user EXCEPT ![u] = At("waiting", tag, e)]
  /\ UNCHANGED <<pool, torn>>

AcquireIdle(u, tag) ==
  LET e == pool[tag]
      place == IF entry[e].sock = "up" THEN "holding" ELSE "relogin" IN
  /\ e # None /\ ~Pending(e) /\ entry[e].refs = 0
  /\ place = "relogin" => SocketsLeft
  /\ Asks(u)
  /\ entry' = [entry EXCEPT ![e].timer = "unset", ![e].refs = 1]
  /\ user' = [user EXCEPT ![u] = At(place, tag, e)]
  /\ UNCHANGED <<pool, torn>>

AcquireActive(u, tag) ==
  LET e == pool[tag] IN
  /\ e # None /\ ~Pending(e) /\ entry[e].refs > 0 /\ Kind(tag) # "replay"
  /\ Asks(u)
  /\ entry' = [entry EXCEPT ![e].timer = "unset", ![e].refs = @ + 1]
  /\ user' = [user EXCEPT ![u] = At("holding", tag, e)]
  /\ UNCHANGED <<pool, torn>>

Preempt(u, tag) ==
  LET e == pool[tag] IN
  /\ e # None /\ ~Pending(e) /\ entry[e].refs > 0 /\ Kind(tag) = "replay"
  /\ SocketsLeft /\ MayTear({tag})
  /\ Asks(u)
  /\ Recreates(u, e)

\* The awaited login() of an idle client: it is returned, or closed and recreated.
Relogin(u) ==
  LET e == user[u].entry IN
  /\ user[u].at = "relogin"
  /\ \/ /\ entry' = [entry EXCEPT ![e].sock = "up"]
        /\ user' = [user EXCEPT ![u].at = "holding"]
        /\ UNCHANGED <<pool, torn>>
     \/ Recreates(u, e)
  /\ UNCHANGED <<cool, others>>

\* The awaited close() is over.
CreateAgain(u) ==
  /\ user[u].at = "closing"
  /\ Creates(u, user[u].tag)
  /\ UNCHANGED <<cool, others>>

\* Mutants: those who wait are not told, or not counted.
Await_CreatorOnly(e) == CreatorOf(e)
Counted_CreatorOnly(e) == 1

\* Who awaits pendingPromise, and the refCount once each has continued.
Await(e) == UsersOf(e)
Counted(e) == Cardinality(UsersOf(e))

\* The first login succeeded: the creator and all who wait get the client.
LoginDone(u) ==
  LET e == user[u].entry
      g == pool[General]
      permit == IF user[u].tag = General \/ g = None THEN None
                ELSE IF Pending(g) THEN None ELSE g IN
  /\ user[u].at = "creating"
  /\ cool' = IF cool.fails < StormThreshold THEN NoCooldown ELSE cool
  /\ entry' = [entry EXCEPT ![e].sock = "up", ![e].refs = Counted(e),
                            ![e].permit = permit]
  /\ user' = [v \in Users |-> IF v \in Await(e) THEN [user[v] EXCEPT !.at = "holding"]
                              ELSE user[v]]
  /\ UNCHANGED <<pool, others, torn>>

LoginFailed(u) ==
  LET e == user[u].entry
      fails == IF cool.fails < StormThreshold THEN cool.fails + 1 ELSE cool.fails IN
  /\ user[u].at = "creating"
  /\ cool' = [fails |-> fails, blocked |-> fails >= FailureThreshold]
  /\ pool' = [pool EXCEPT ![user[u].tag] = None]
  /\ entry' = [entry EXCEPT ![e].sock = "closed"]
  /\ user' = [v \in Users |-> IF v \in Await(e) THEN Idle ELSE user[v]]
  /\ torn' = IF pool[user[u].tag] \in {None, e} THEN torn ELSE torn \cup {user[u].tag}
  /\ UNCHANGED others

-----------------------------------------------------------------------------
(* Release, idle timers, and what tears an entry away.                     *)

\* Mutant: a release too many makes the refCount negative.
Less_BelowZero(refs) == refs - 1

\* A release too many leaves the refCount at 0.
Less(refs) == IF refs > 0 THEN refs - 1 ELSE 0

\* Mutant: the refCount is looked at before it is reduced.
ReleasedEntry_ChecksBefore(e) ==
  LET arms == /\ entry[e].refs = 0 /\ entry[e].timer = "unset"
              /\ Kind(entry[e].tag) # "general" IN
  [entry[e] EXCEPT !.refs = Less(@), !.timer = IF arms THEN "armed" ELSE @]

ReleasedEntry(e) ==
  LET refs == Less(entry[e].refs)
      arms == refs = 0 /\ Kind(entry[e].tag) # "general" /\ entry[e].timer = "unset" IN
  [entry[e] EXCEPT !.refs = refs, !.timer = IF arms THEN "armed" ELSE @]

Release(u) ==
  LET e == pool[user[u].tag] IN
  /\ user[u].at = "holding"
  /\ entry' = IF e = None THEN entry ELSE [entry EXCEPT ![e] = ReleasedEntry(e)]
  /\ user' = [user EXCEPT ![u] = Idle]
  /\ UNCHANGED <<pool, cool, others, torn>>

\* Mutant: no idle timer gives the permit back.
PermitAfterIdle_Kept(e) == entry[e].permit

\* The idle timer of a replay socket leaves its permit on the general client.
PermitAfterIdle(e) == IF Kind(entry[e].tag) = "streaming" THEN None ELSE entry[e].permit

\* Fires on the entry that has the tag then; if that is in use, the handle of
\* the timer stays set.
IdleTimer(e) ==
  LET tag == entry[e].tag
      c == pool[tag]
      idle == c # None /\ entry[c].refs = 0
      fired == [entry EXCEPT ![e].timer = IF idle THEN "unset" ELSE "fired"] IN
  /\ entry[e].timer = "armed"
  /\ pool' = IF idle THEN [pool EXCEPT ![tag] = None] ELSE pool
  /\ entry' = IF idle THEN [fired EXCEPT ![c].permit = PermitAfterIdle(c), ![c].sock = Closed(@)]
              ELSE fired
  /\ UNCHANGED <<user, cool, others, torn>>

ConnectionLost(e) ==
  /\ entry[e].sock = "up"
  /\ entry' = [entry EXCEPT ![e].sock = "down"]
  /\ UNCHANGED <<pool, user, cool, others, torn>>

CooldownExpires ==
  /\ cool.blocked
  /\ cool' = [cool EXCEPT !.blocked = FALSE]
  /\ UNCHANGED <<pool, entry, user, others, torn>>

ForceClose(tags) ==
  LET gone == {pool[t] : t \in tags} IN
  /\ pool' = [t \in Tags |-> IF t \in tags THEN None ELSE pool[t]]
  /\ entry' = [e \in Entries |-> IF e \in gone THEN Forced(e) ELSE entry[e]]
  /\ torn' = torn \cup tags

\* notifyD2cDisc(): some client was told that the camera goes to sleep.  Each
\* client of the pool reports it, so any report may be the third within 60 s.
D2cDisc ==
  LET streaming == {t \in Tags : pool[t] # None /\ Kind(t) = "streaming"} IN
  /\ ~closed /\ MayTear(streaming)
  /\ \E e \in Entries : entry[e].sock = "up"
  /\ ForceClose(streaming)
  /\ \E fails \in {IF cool.fails = 0 THEN 1 ELSE cool.fails, StormThreshold} :
       cool' = [fails |-> fails, blocked |-> TRUE]
  /\ UNCHANGED <<user, others>>

\* trackStreamTimeout(): the third timeout in a row on a consumer's client
StreamTimeouts(u) ==
  /\ user[u].at = "holding" /\ Kind(user[u].tag) = "streaming"
  /\ pool[user[u].tag] = user[u].entry
  /\ MayTear({user[u].tag}) /\ ForceClose({user[u].tag})
  /\ UNCHANGED <<user, cool, others>>

Ready == pool[General] # None /\ entry[pool[General]].sock = "up"

\* ensureConnected(); on an entry without a client it throws before any change
ReconnectBegins ==
  LET g == pool[General] IN
  /\ ~closed /\ reconnecting = "no" /\ ~Ready
  /\ g # None => ~Pending(g)
  /\ SocketsLeft /\ MayTear({General})
  /\ reconnecting' = "closing"
  /\ IF g = None THEN UNCHANGED <<pool, entry, torn>> ELSE ForceClose({General})
  /\ UNCHANGED <<user, cool, closed>>

ReconnectCreates ==
  /\ reconnecting = "closing"
  /\ reconnecting' = "login"
  /\ entry' = [entry EXCEPT ![Fresh] = Entry(General, "down", 1)]
  /\ pool' = [pool EXCEPT ![General] = Fresh]
  /\ torn' = torn \cup {General}
  /\ UNCHANGED <<user, cool, closed>>

\* this.client.login(): of the client that is the general one now
ReconnectLogin ==
  LET g == pool[General] IN
  /\ reconnecting = "login"
  /\ reconnecting' = "no"
  /\ IF g = None THEN UNCHANGED entry
     ELSE IF Pending(g) THEN UNCHANGED entry
     ELSE \E sock \in {"up", "closed"} : entry' = [entry EXCEPT ![g].sock = sock]
  /\ UNCHANGED <<pool, user, cool, closed, torn>>

\* login() of the API, on the client its constructor put into the pool
FirstLogin ==
  LET g == pool[General] IN
  /\ g # None /\ General \notin torn
  /\ entry[g].sock = "down"
  /\ \E sock \in {"up", "closed"} : entry' = [entry EXCEPT ![g].sock = sock]
  /\ UNCHANGED <<pool, user, cool, others, torn>>

\* close(): _closed is set and, once the streams are stopped, the pool cleaned
\* up; what the consumers do in between they may as well do before.
Close ==
  /\ ~closed /\ closed' = TRUE
  /\ ForceClose({t \in Tags : pool[t] # None})
  /\ UNCHANGED <<user, cool, reconnecting>>

-----------------------------------------------------------------------------
Init ==
  /\ entry = [e \in Entries |-> IF e = 1 THEN Entry(General, "down", 1)
                                ELSE Entry(General, "closed", 0)]
  /\ pool = [t \in Tags |-> IF t = General THEN 1 ELSE None]
  /\ user = [u \in Users |-> Idle]
  /\ cool = NoCooldown
  /\ reconnecting = "no" /\ closed = FALSE /\ torn = {}

Acquire(u) ==
  \E k \in Keys : LET tag == SocketTag(k) IN
    \/ AcquireNew(u, tag) \/ AcquirePending(u, tag) \/ AcquireIdle(u, tag)
    \/ AcquireActive(u, tag) \/ Preempt(u, tag)

Login(u) == LoginDone(u) \/ LoginFailed(u)

Next ==
  \/ \E u \in Users : Acquire(u) \/ Relogin(u) \/ CreateAgain(u) \/ Login(u)
                      \/ Release(u) \/ StreamTimeouts(u)
  \/ \E e \in Entries : IdleTimer(e) \/ ConnectionLost(e)
  \/ CooldownExpires \/ D2cDisc
  \/ ReconnectBegins \/ ReconnectCreates \/ ReconnectLogin \/ FirstLogin
  \/ Close

Spec == Init /\ [][Next]_vars

-----------------------------------------------------------------------------
(* Properties.  An entry that is torn away from its users leaves releases  *)
(* behind that act on its successor, so the account of a tag is exact only *)
(* until that happens to it.                                               *)

Sockets == Entries \cup {None}
EntryType ==
  [tag : Tags, sock : {"creating", "up", "down", "closed"}, refs : 0 .. Cardinality(Users) + 1,
   timer : {"unset", "armed", "fired"}, permit : Sockets]

\* Every variable stays within the values the code can give it.
TypeOK ==
  /\ pool \in [Tags -> Sockets]
  /\ entry \in [Entries -> EntryType]
  /\ \A u \in Users : /\ user[u].at \in {"idle", "holding", "relogin", "closing", "creating", "waiting"}
                      /\ user[u].tag \in Tags /\ user[u].entry \in Sockets
  /\ cool \in [fails : 0 .. StormThreshold, blocked : BOOLEAN]
  /\ reconnecting \in {"no", "closing", "login"}
  /\ closed \in BOOLEAN
  /\ torn \subseteq Tags

\* Until an entry of a tag is torn away, no idle timer, failed login or other
\* consumer's release takes a socket from those that use it: they all have the
\* entry of the pool, it is open, and its refCount is their number.
UsersOwnEntry ==
  \A t \in Tags \ torn :
    /\ \A u \in Users : user[u].tag = t /\ user[u].at \in {"holding", "relogin"}
                        => user[u].entry = pool[t]
    /\ pool[t] # None /\ ~Pending(pool[t]) =>
         entry[pool[t]].refs = Cardinality(UsersOf(pool[t])) + (IF t = General THEN 1 ELSE 0)
    /\ pool[t] # None /\ t # General => entry[pool[t]].sock # "closed"

\* A streaming socket keeps the general client from its idle disconnect exactly
\* while it is in the pool: no permit outlives its socket, and none is missing.
StreamHoldsGeneral ==
  \A e \in Entries :
    LET t == entry[e].tag IN
    Kind(t) = "streaming" /\ t \notin torn /\ General \notin torn =>
      entry[e].permit = IF pool[t] = e /\ ~Pending(e) THEN pool[General] ELSE None

\* The socket of a tag that nobody uses has its idle timer running: it is closed
\* unless it is used again.
IdleIsTimed ==
  \A t \in Tags \ (torn \cup {General}) :
    pool[t] # None => UsersOf(pool[t]) # {} \/ entry[pool[t]].timer = "armed"

\* Whatever is preempted, closed or recreated meanwhile, a consumer that waits
\* for a first login waits for one that is under way: it gets a client or an
\* error, and its creator's entry is no other consumer's.
WaiterHasCreator ==
  \A u \in Users : user[u].at \in {"waiting", "creating"} =>
    /\ Pending(user[u].entry)
    /\ Cardinality(CreatorOf(user[u].entry)) = 1
=============================================================================
