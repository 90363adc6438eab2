-------------------------- MODULE SocketPoolProofs --------------------------
(***************************************************************************)
(* The account of the socket pool, for every finite set of consumers,      *)
(* every set of session keys and every number of sockets.                  *)
(***************************************************************************)
EXTENDS SocketPool, FiniteSetTheorems, WellFoundedInduction, TLAPS

-----------------------------------------------------------------------------
(* The inductive invariant.                                                *)

Using == {"holding", "relogin", "creating", "waiting"}

UsersTyped ==
  user \in [Users -> [at : Using \cup {"idle", "closing"}, tag : Tags, entry : Sockets]]

PoolTyped == pool \in [Tags -> Sockets] /\ entry \in [Entries -> EntryType]

RestTyped ==
  /\ cool \in [fails : 0 .. StormThreshold, blocked : BOOLEAN]
  /\ reconnecting \in {"no", "closing", "login"}
  /\ closed \in BOOLEAN
  /\ torn \subseteq Tags

Placed == \A u \in Users : user[u].entry # None <=> user[u].at \in Using

\* The entry of a user has its tag, and is that of the pool unless it was torn
\* away; the user waits exactly as long as the first login is pending.
UserAccount(u) ==
  user[u].entry # None =>
    /\ entry[user[u].entry].tag = user[u].tag
    /\ entry[user[u].entry].sock = "creating" <=> user[u].at \in {"creating", "waiting"}
    /\ user[u].tag \notin torn => pool[user[u].tag] = user[u].entry

PoolTagged == \A t \in Tags : pool[t] # None => entry[pool[t]].tag = t

\* An entry is pending as long as it has its one creator.
Created ==
  /\ \A e \in Entries : entry[e].sock = "creating" =>
       \E v \in Users : user[v].at = "creating" /\ user[v].entry = e
  /\ \A u, v \in Users :
       user[u].at = "creating" /\ user[v].at = "creating" /\ user[u].entry = user[v].entry
         => u = v

\* The general socket has neither an idle timer nor a permit on itself.
GeneralPlain ==
  \A e \in Entries : entry[e].tag = General => entry[e].permit = None /\ entry[e].timer = "unset"

\* Whoever was promised a number finds one.
ReservedUsers == {u \in Users : user[u].at \in {"relogin", "closing"}}
Room == Cardinality(DeadOnes) >= Reserved

\* Until it is torn away, the general client is the one of the constructor.
GeneralKept ==
  General \notin torn =>
    /\ pool[General] # None /\ entry[pool[General]].sock # "creating"
    /\ \A u \in Users : user[u].tag = General => user[u].at \in {"idle", "holding"}

\* The account of an entry of the pool: its refCount is the number of its users
\* (releases that were left behind make it too small), it is open, and its idle
\* timer runs if it has no users.
InPool(e) ==
  LET t == entry[e].tag
      n == Cardinality(UsersOf(e)) IN
  /\ entry[e].refs <= n + 1
  /\ t \notin torn =>
       /\ entry[e].timer # "fired"
       /\ entry[e].sock # "creating" => entry[e].refs = n + (IF t = General THEN 1 ELSE 0)
       /\ t # General => /\ entry[e].sock # "closed"
                         /\ UsersOf(e) # {} \/ entry[e].timer = "armed"

\* An idle timer runs on an entry of the pool without users; a permit is what
\* an open streaming socket of the pool has.
EntryAccount(e) ==
  LET t == entry[e].tag IN
  /\ pool[t] = e => InPool(e)
  /\ t \notin torn /\ entry[e].timer = "armed" => pool[t] = e /\ UsersOf(e) = {}
  /\ Kind(t) = "streaming" /\ t \notin torn /\ General \notin torn =>
       entry[e].permit = IF pool[t] = e /\ entry[e].sock # "creating" THEN pool[General] ELSE None

Structure == UsersTyped /\ PoolTyped /\ RestTyped /\ Placed
Account ==
  /\ \A u \in Users : UserAccount(u)
  /\ \A e \in Entries : EntryAccount(e)
  /\ PoolTagged /\ Created /\ GeneralPlain /\ GeneralKept

Inv == Structure /\ Room /\ Account

-----------------------------------------------------------------------------
(* Facts about the operators of the model.                                 *)

LEMMA NoneIsNoEntry == None \notin Entries /\ Sockets = Entries \cup {None} /\ Entries \subseteq Nat
BY PoolAssumption DEF None, Entries, Sockets

LEMMA GeneralTag ==
  /\ General \in Tags
  /\ Kind(General) = "general"
  /\ \A k \in Keys : SocketTag(k) \in Tags
  /\ \A t \in Tags : Kind(t) = "general" => t = General
<1>1. \A k \in Keys : Kind(SocketTag(k)) = "general" => SocketTag(k) = General
  BY DEF SocketTag, Kind
<1>2. QED
  BY <1>1 DEF Tags, General, Kind

\* A non-empty set of naturals has a least element.
LEMMA LeastNatural ==
  ASSUME NEW T, T \subseteq Nat, T # {}
  PROVE  \E n \in T : \A k \in T : n <= k
<1>1. \E x \in T : \A y \in T : ~(<<y, x>> \in OpToRel(<, Nat))
  BY NatLessThanWellFounded, WFMin, Zenon
<1>2. PICK x \in T : \A y \in T : ~(<<y, x>> \in OpToRel(<, Nat))
  BY <1>1
<1>3. \A y \in T : ~(y < x)
  BY <1>2 DEF OpToRel
<1>4. QED
  BY <1>3

\* The users of an entry are those whose acquire refers to it.
LEMMA UsersAre ==
  /\ UsersTyped /\ Placed =>
       \A e \in Entries : UsersOf(e) = {u \in Users : user[u].entry = e}
  /\ (UsersTyped /\ Placed)' =>
       \A e \in Entries : UsersOf(e)' = {u \in Users : user'[u].entry = e}
<1> USE NoneIsNoEntry
<1>1. UsersTyped /\ Placed =>
       \A e \in Entries : UsersOf(e) = {u \in Users : user[u].entry = e}
  BY DEF UsersTyped, Placed, UsersOf, Uses, Using
<1>2. (UsersTyped /\ Placed)' =>
       \A e \in Entries : UsersOf(e)' = {u \in Users : user'[u].entry = e}
  BY DEF UsersTyped, Placed, UsersOf, Uses, Using
<1>3. QED
  BY <1>1, <1>2

LEMMA UsersFinite ==
  \A S \in SUBSET Users :
    /\ IsFiniteSet(S) /\ Cardinality(S) \in Nat /\ Cardinality(S) <= Cardinality(Users)
    /\ Cardinality(S) = 0 <=> S = {}
BY PoolAssumption, FS_Subset, FS_CardinalityType, FS_EmptySet

LEMMA OneUserMore ==
  ASSUME NEW S \in SUBSET Users, NEW u \in Users
  PROVE  /\ u \notin S => Cardinality(S \cup {u}) = Cardinality(S) + 1
         /\ u \in S => Cardinality(S \ {u}) = Cardinality(S) - 1
<1>1. IsFiniteSet(S)
  BY UsersFinite
<1>2. QED
  BY <1>1, FS_AddElement, FS_RemoveElement

-----------------------------------------------------------------------------
(* Numbers that are free.                                                  *)

LEMMA DeadFinite ==
  /\ \A S \in SUBSET Entries : IsFiniteSet(S) /\ Cardinality(S) \in Nat
  /\ DeadOnes \subseteq Entries /\ DeadOnes' \subseteq Entries
<1>1. IsFiniteSet(Entries)
  BY FS_Interval, PoolAssumption DEF Entries
<1>2. QED
  BY <1>1, FS_Subset, FS_CardinalityType DEF DeadOnes

LEMMA ReservedIs ==
  /\ Reserved = Cardinality(ReservedUsers) + (IF reconnecting = "closing" THEN 1 ELSE 0)
  /\ Reserved' = Cardinality(ReservedUsers') + (IF reconnecting' = "closing" THEN 1 ELSE 0)
  /\ ReservedUsers \in SUBSET Users /\ ReservedUsers' \in SUBSET Users
  /\ Cardinality(ReservedUsers) \in Nat /\ Cardinality(ReservedUsers') \in Nat
<1>1. ReservedUsers \in SUBSET Users /\ ReservedUsers' \in SUBSET Users
  BY DEF ReservedUsers
<1>2. QED
  BY <1>1, UsersFinite DEF Reserved, ReservedUsers

\* The least free number.
LEMMA FreshIsDead ==
  ASSUME Room \/ SocketsLeft,
         SocketsLeft \/ reconnecting = "closing" \/ (\E u \in Users : u \in ReservedUsers)
  PROVE  Fresh \in Entries /\ Dead(Fresh)
<1>1. Cardinality(DeadOnes) > 0
  <2>1. ReservedUsers # {} => Cardinality(ReservedUsers) > 0
    BY ReservedIs, UsersFinite
  <2>2. Cardinality(DeadOnes) \in Nat
    BY DeadFinite
  <2>3. QED
    BY <2>1, <2>2, ReservedIs DEF Room, SocketsLeft
<1>2. DeadOnes # {}
  BY <1>1, FS_EmptySet
<1>3. \E e \in DeadOnes : \A f \in DeadOnes : e <= f
  BY <1>2, LeastNatural, DeadFinite, NoneIsNoEntry
<1>4. Fresh \in DeadOnes
  BY <1>3 DEF Fresh
<1>5. QED
  BY <1>4 DEF DeadOnes

\* A free number stays free unless a step takes it.
LEMMA DeadKept ==
  ASSUME NEW e \in Entries, Dead(e),
         entry'[e] = entry[e],
         \A t \in Tags : pool'[t] # e,
         \A u \in Users : user'[u].entry # e,
         \A f \in Entries : entry'[f].sock # "closed" =>
           \/ entry[f].sock # "closed" /\ entry'[f].permit = entry[f].permit
           \/ entry'[f].permit # e
  PROVE  e \in DeadOnes'
BY DEF Dead, DeadOnes

\* Room is left when no number is taken, when one more is promised of those that
\* are left, and when one is taken that was promised or is left.
LEMMA RoomKept ==
  ASSUME Room, DeadOnes \subseteq DeadOnes', ReservedUsers' \subseteq ReservedUsers,
         reconnecting' = "closing" => reconnecting = "closing"
  PROVE  Room'
<1>1. Cardinality(DeadOnes') >= Cardinality(DeadOnes)
  BY DeadFinite, FS_Subset
<1>2. Cardinality(ReservedUsers') <= Cardinality(ReservedUsers)
  BY ReservedIs, UsersFinite, FS_Subset
<1>3. Cardinality(DeadOnes) \in Nat /\ Cardinality(DeadOnes') \in Nat
  BY DeadFinite
<1>4. QED
  BY <1>1, <1>2, <1>3, ReservedIs DEF Room

LEMMA RoomPromised ==
  ASSUME SocketsLeft, DeadOnes \subseteq DeadOnes',
         \/ /\ reconnecting' = reconnecting
            /\ \E u \in Users : ReservedUsers' \subseteq ReservedUsers \cup {u}
         \/ ReservedUsers' \subseteq ReservedUsers
  PROVE  Room'
<1>1. Cardinality(DeadOnes') >= Cardinality(DeadOnes)
  BY DeadFinite, FS_Subset
<1>2. Cardinality(DeadOnes) \in Nat /\ Cardinality(DeadOnes') \in Nat
  BY DeadFinite
<1>3. ReservedUsers' \subseteq ReservedUsers => Cardinality(ReservedUsers') <= Cardinality(ReservedUsers)
  BY ReservedIs, UsersFinite, FS_Subset
<1>4. \A u \in Users : ReservedUsers' \subseteq ReservedUsers \cup {u} =>
        Cardinality(ReservedUsers') <= Cardinality(ReservedUsers) + 1
  <2> SUFFICES ASSUME NEW u \in Users, ReservedUsers' \subseteq ReservedUsers \cup {u}
               PROVE  Cardinality(ReservedUsers') <= Cardinality(ReservedUsers) + 1
    OBVIOUS
  <2>1. IsFiniteSet(ReservedUsers \cup {u})
    BY ReservedIs, UsersFinite
  <2>2. Cardinality(ReservedUsers') <= Cardinality(ReservedUsers \cup {u})
    BY <2>1, FS_Subset
  <2>3. Cardinality(ReservedUsers \cup {u}) <= Cardinality(ReservedUsers) + 1
    BY ReservedIs, UsersFinite, FS_AddElement
  <2>4. Cardinality(ReservedUsers \cup {u}) \in Nat
    BY <2>1, FS_CardinalityType
  <2>5. QED
    BY <2>2, <2>3, <2>4, ReservedIs
<1>5. QED
  BY <1>1, <1>2, <1>3, <1>4, ReservedIs DEF Room, SocketsLeft

LEMMA RoomUsed ==
  ASSUME Room, NEW x, DeadOnes \ {x} \subseteq DeadOnes',
         \/ SocketsLeft /\ ReservedUsers' \subseteq ReservedUsers /\ reconnecting' = reconnecting
         \/ /\ reconnecting' = reconnecting
            /\ \E u \in ReservedUsers : ReservedUsers' \subseteq ReservedUsers \ {u}
         \/ /\ reconnecting = "closing" /\ reconnecting' # "closing"
            /\ ReservedUsers' \subseteq ReservedUsers
  PROVE  Room'
<1>1. Cardinality(DeadOnes') >= Cardinality(DeadOnes) - 1
  <2>1. IsFiniteSet(DeadOnes) /\ IsFiniteSet(DeadOnes') /\ Cardinality(DeadOnes) \in Nat
    BY DeadFinite
  <2>2. Cardinality(DeadOnes \ {x}) >= Cardinality(DeadOnes) - 1
    <3>1. Cardinality(DeadOnes \ {x})
            = IF x \in DeadOnes THEN Cardinality(DeadOnes) - 1 ELSE Cardinality(DeadOnes)
      BY <2>1, FS_RemoveElement
    <3>2. QED
      BY <2>1, <3>1
  <2>3. Cardinality(DeadOnes \ {x}) <= Cardinality(DeadOnes')
    BY <2>1, FS_Subset
  <2>4. Cardinality(DeadOnes \ {x}) \in Nat /\ Cardinality(DeadOnes') \in Nat
    BY <2>1, FS_RemoveElement, FS_CardinalityType
  <2>5. QED
    BY <2>1, <2>2, <2>3, <2>4
<1>2. Cardinality(DeadOnes) \in Nat /\ Cardinality(DeadOnes') \in Nat
  BY DeadFinite
<1>3. ReservedUsers' \subseteq ReservedUsers => Cardinality(ReservedUsers') <= Cardinality(ReservedUsers)
  BY ReservedIs, UsersFinite, FS_Subset
<1>4. \A u \in ReservedUsers : ReservedUsers' \subseteq ReservedUsers \ {u} =>
        Cardinality(ReservedUsers') <= Cardinality(ReservedUsers) - 1
  <2> SUFFICES ASSUME NEW u \in ReservedUsers, ReservedUsers' \subseteq ReservedUsers \ {u}
               PROVE  Cardinality(ReservedUsers') <= Cardinality(ReservedUsers) - 1
    OBVIOUS
  <2>1. IsFiniteSet(ReservedUsers \ {u})
    BY ReservedIs, UsersFinite
  <2>2. Cardinality(ReservedUsers') <= Cardinality(ReservedUsers \ {u})
    BY <2>1, FS_Subset
  <2>3. Cardinality(ReservedUsers \ {u}) = Cardinality(ReservedUsers) - 1
    BY ReservedIs, UsersFinite, FS_RemoveElement
  <2>4. QED
    BY <2>2, <2>3, ReservedIs
<1>5. QED
  BY <1>1, <1>2, <1>3, <1>4, ReservedIs DEF Room, SocketsLeft

-----------------------------------------------------------------------------
(* What a step leaves alone.                                               *)

LEMMA UserKept ==
  ASSUME Inv, NEW u \in Users, user'[u] = user[u], torn \subseteq torn',
         user[u].entry # None =>
           /\ entry'[user[u].entry].tag = entry[user[u].entry].tag
           /\ entry'[user[u].entry].sock = "creating" <=> entry[user[u].entry].sock = "creating"
           /\ user[u].tag \in torn' \/ pool'[user[u].tag] = pool[user[u].tag]
  PROVE  UserAccount(u)'
BY DEF Inv, Account, UserAccount

LEMMA EntryKept ==
  ASSUME Inv, NEW e \in Entries, entry'[e] = entry[e], UsersOf(e)' = UsersOf(e),
         torn \subseteq torn',
         General \in torn' \/ pool'[General] = pool[General],
         \/ pool'[entry[e].tag] = pool[entry[e].tag]
         \/ pool'[entry[e].tag] # e /\ pool[entry[e].tag] # e
         \/ pool'[entry[e].tag] # e /\ entry[e].tag \in torn'
  PROVE  EntryAccount(e)'
BY DEF Inv, Account, EntryAccount, InPool

-----------------------------------------------------------------------------
(* The properties, and the initial state.                                  *)

LEMMA InvProperties ==
  Inv => TypeOK /\ UsersOwnEntry /\ StreamHoldsGeneral /\ IdleIsTimed /\ WaiterHasCreator
<1> SUFFICES ASSUME Inv
             PROVE  TypeOK /\ UsersOwnEntry /\ StreamHoldsGeneral /\ IdleIsTimed /\ WaiterHasCreator
  OBVIOUS
<1> USE NoneIsNoEntry DEF Inv, Structure, Account
<1>1. TypeOK
  BY DEF UsersTyped, PoolTyped, RestTyped, TypeOK, Using
<1>2. \A t \in Tags : pool[t] # None =>
        pool[t] \in Entries /\ entry[pool[t]].tag = t /\ InPool(pool[t])
  <2>1. \A t \in Tags : pool[t] # None => pool[t] \in Entries /\ entry[pool[t]].tag = t
    BY DEF PoolTyped, PoolTagged
  <2>2. QED
    BY <2>1 DEF EntryAccount
<1>3. UsersOwnEntry
  <2>1. \A t \in Tags \ torn : \A u \in Users :
          user[u].tag = t /\ user[u].at \in {"holding", "relogin"} => user[u].entry = pool[t]
    BY DEF UserAccount, Placed, Using
  <2>2. \A t \in Tags \ torn : pool[t] # None /\ ~Pending(pool[t]) =>
         entry[pool[t]].refs = Cardinality(UsersOf(pool[t])) + (IF t = General THEN 1 ELSE 0)
    BY <1>2 DEF InPool, Pending
  <2>3. \A t \in Tags \ torn : pool[t] # None /\ t # General => entry[pool[t]].sock # "closed"
    <3>1. ASSUME NEW e \in Entries, InPool(e), entry[e].tag \notin torn, entry[e].tag # General
          PROVE  entry[e].sock # "closed"
      BY <3>1, Zenon DEF InPool
    <3>2. QED
      BY <1>2, <3>1
  <2>4. QED
    BY <2>1, <2>2, <2>3 DEF UsersOwnEntry
<1>4. StreamHoldsGeneral
  BY DEF StreamHoldsGeneral, EntryAccount, Pending
<1>5. IdleIsTimed
  BY <1>2 DEF IdleIsTimed, InPool
<1>6. WaiterHasCreator
  <2> SUFFICES ASSUME NEW u \in Users, user[u].at \in {"waiting", "creating"}
               PROVE  /\ Pending(user[u].entry)
                      /\ Cardinality(CreatorOf(user[u].entry)) = 1
    BY DEF WaiterHasCreator
  <2>1. user[u].entry # None /\ user[u].entry \in Entries
    BY DEF UsersTyped, Placed, Using
  <2>2. Pending(user[u].entry)
    BY <2>1 DEF UserAccount, Pending
  <2>3. PICK v \in Users : user[v].at = "creating" /\ user[v].entry = user[u].entry
    BY <2>1, <2>2 DEF Created, Pending
  <2>4. CreatorOf(user[u].entry) = {v}
    BY <2>3 DEF CreatorOf, UsersOf, Uses, Created
  <2>5. QED
    BY <2>2, <2>4, FS_Singleton
<1>7. QED
  BY <1>1, <1>3, <1>4, <1>5, <1>6

LEMMA InitInv == Init => Inv
<1> SUFFICES ASSUME Init PROVE Inv
  OBVIOUS
<1> USE NoneIsNoEntry, GeneralTag DEF Init, Idle, Entry
<1>1. 1 \in Entries /\ 1 # None /\ None \in Sockets
  BY PoolAssumption DEF Entries, None
<1>2. Cardinality(Users) \in Nat
  BY UsersFinite
<1>3. Structure
  <2>1. UsersTyped
    BY <1>1 DEF UsersTyped, Using
  <2>2. PoolTyped
    <3>1. 0 \in 0 .. Cardinality(Users) + 1 /\ 1 \in 0 .. Cardinality(Users) + 1
      BY <1>2
    <3>2. QED
      BY <1>1, <3>1 DEF PoolTyped, EntryType
  <2>3. RestTyped
    <3>1. cool \in [fails : 0 .. StormThreshold, blocked : BOOLEAN]
      BY DEF NoCooldown, StormThreshold
    <3>2. reconnecting \in {"no", "closing", "login"} /\ closed \in BOOLEAN
      OBVIOUS
    <3>3. QED
      BY <3>1, <3>2 DEF RestTyped
  <2>4. Placed
    BY <1>1 DEF Placed, Using
  <2>5. QED
    BY <2>1, <2>2, <2>3, <2>4 DEF Structure
<1>4. Room
  <2>1. ReservedUsers = {}
    BY DEF ReservedUsers
  <2>2. QED
    BY <2>1, DeadFinite, ReservedIs, FS_EmptySet DEF Room
<1>5. Account
  <2>1. \A e \in Entries : UsersOf(e) = {}
    BY <1>3, UsersAre DEF Structure
  <2>2. \A e \in Entries : EntryAccount(e)
    BY <1>1, <2>1, FS_EmptySet DEF EntryAccount, InPool
  <2>3. \A u \in Users : UserAccount(u)
    BY DEF UserAccount
  <2>4. PoolTagged /\ Created /\ GeneralPlain /\ GeneralKept
    BY <1>1 DEF PoolTagged, Created, GeneralPlain, GeneralKept
  <2>5. QED
    BY <2>2, <2>3, <2>4 DEF Account
<1>6. QED
  BY <1>3, <1>4, <1>5 DEF Inv

-----------------------------------------------------------------------------
(* Steps that change neither the pool nor its users.                       *)

\* The cooldown of the host, and the reconnection without an entry.
LEMMA UnchangedInv ==
  ASSUME Inv, Room', RestTyped', UNCHANGED <<pool, entry, user, torn>>
  PROVE  Inv'
<1>1. Structure'
  BY DEF Inv, Structure, UsersTyped, PoolTyped, Placed
<1>2. \A u \in Users : UserAccount(u)'
  BY UserKept
<1>3. \A e \in Entries : EntryAccount(e)'
  <2>1. \A e \in Entries : UsersOf(e)' = UsersOf(e)
    BY DEF UsersOf, Uses
  <2>2. QED
    BY <2>1, EntryKept
<1>4. PoolTagged' /\ Created' /\ GeneralPlain' /\ GeneralKept'
  BY DEF Inv, Account, PoolTagged, Created, GeneralPlain, GeneralKept
<1>5. QED
  BY <1>1, <1>2, <1>3, <1>4 DEF Inv, Account

LEMMA RoomUnchanged ==
  ASSUME Room, UNCHANGED <<pool, entry, user>>, reconnecting' = "closing" => reconnecting = "closing"
  PROVE  Room'
<1>1. DeadOnes' = DeadOnes /\ ReservedUsers' = ReservedUsers
  BY DEF DeadOnes, Dead, ReservedUsers
<1>2. QED
  BY <1>1, RoomKept

\* The connection of a client of the pool, or of one that was open, changes.
LEMMA ConnectionInv ==
  ASSUME Inv, NEW g \in Entries, NEW s \in {"up", "down", "closed"},
         entry' = [entry EXCEPT ![g].sock = s],
         UNCHANGED <<pool, user, torn>>, RestTyped',
         reconnecting' = "closing" => reconnecting = "closing",
         entry[g].sock # "creating",
         \/ entry[g].tag = General /\ pool[General] = g
         \/ entry[g].sock # "closed" /\ s # "closed"
  PROVE  Inv'
<1> USE NoneIsNoEntry
<1>1. /\ PoolTyped'
      /\ \A e \in Entries :
           /\ entry'[e].tag = entry[e].tag /\ entry'[e].refs = entry[e].refs
           /\ entry'[e].timer = entry[e].timer /\ entry'[e].permit = entry[e].permit
           /\ entry'[e].sock = "creating" <=> entry[e].sock = "creating"
           /\ e # g => entry'[e] = entry[e]
      /\ entry'[g].sock = s
  BY DEF Inv, Structure, PoolTyped, EntryType
<1>2. Structure'
  BY <1>1 DEF Inv, Structure, UsersTyped, Placed
<1>3. \A u \in Users : UserAccount(u)'
  BY <1>1, UserKept DEF Inv, Structure, UsersTyped
<1>4. \A e \in Entries : EntryAccount(e)'
  <2>1. ASSUME NEW e \in Entries PROVE UsersOf(e)' = UsersOf(e)
    BY DEF UsersOf, Uses
  <2>2. ASSUME NEW e \in Entries, e # g PROVE EntryAccount(e)'
    BY <1>1, <2>1, <2>2, EntryKept
  <2>3. EntryAccount(g)'
    <3>1. EntryAccount(g)
      BY DEF Inv, Account
    <3>2. s # "closed" \/ entry[g].tag = General
      OBVIOUS
    <3>3. QED
      BY <1>1, <2>1, <3>1, <3>2 DEF EntryAccount, InPool
  <2>4. QED
    BY <2>2, <2>3
<1>5. PoolTagged' /\ Created' /\ GeneralPlain' /\ GeneralKept'
  BY <1>1, GeneralTag DEF Inv, Structure, PoolTyped, Account, PoolTagged, Created, GeneralPlain,
     GeneralKept
<1>6. Room'
  <2>1. \A e \in DeadOnes : e \in DeadOnes'
    <3> SUFFICES ASSUME NEW e \in Entries, Dead(e) PROVE e \in DeadOnes'
      BY DEF DeadOnes
    <3>1. e # g
      BY GeneralTag DEF Dead
    <3>2. entry'[g].sock # "closed" => entry[g].sock # "closed" \/ entry'[g].permit # e
      BY <1>1 DEF Inv, Account, GeneralPlain
    <3>3. QED
      BY <1>1, <3>1, <3>2, DeadKept DEF Dead
  <2>2. ReservedUsers' = ReservedUsers
    BY DEF ReservedUsers
  <2>3. QED
    BY <2>1, <2>2, RoomKept DEF Inv
<1>7. QED
  BY <1>2, <1>3, <1>4, <1>5, <1>6 DEF Inv, Account

LEMMA ConnectionLostInv ==
  ASSUME Inv, NEW e \in Entries, ConnectionLost(e) PROVE Inv'
BY ConnectionInv DEF ConnectionLost, Inv, Structure, RestTyped, others

LEMMA CooldownExpiresInv == ASSUME Inv, CooldownExpires PROVE Inv'
BY UnchangedInv, RoomUnchanged DEF CooldownExpires, Inv, Structure, RestTyped, others

\* What the pool has under a tag is an entry with that tag.
LEMMA PoolEntry ==
  Inv => \A t \in Tags : pool[t] # None => pool[t] \in Entries /\ entry[pool[t]].tag = t
BY NoneIsNoEntry DEF Inv, Structure, PoolTyped, Account, PoolTagged

LEMMA ReconnectLoginInv == ASSUME Inv, ReconnectLogin PROVE Inv'
<1>1. RestTyped' /\ (reconnecting' = "closing" => reconnecting = "closing")
  BY DEF ReconnectLogin, Inv, Structure, RestTyped
<1>2. UNCHANGED <<pool, user, torn>>
  BY DEF ReconnectLogin
<1>3. CASE UNCHANGED entry
  BY <1>1, <1>2, <1>3, UnchangedInv, RoomUnchanged DEF Inv
<1>4. CASE ~UNCHANGED entry
  <2>1. /\ pool[General] # None /\ entry[pool[General]].sock # "creating"
        /\ \E s \in {"up", "closed"} : entry' = [entry EXCEPT ![pool[General]].sock = s]
    BY <1>4 DEF ReconnectLogin, Pending
  <2>2. pool[General] \in Entries /\ entry[pool[General]].tag = General
    BY <2>1, PoolEntry, GeneralTag
  <2>3. QED
    BY <1>1, <1>2, <2>1, <2>2, ConnectionInv
<1>5. QED
  BY <1>3, <1>4

LEMMA FirstLoginInv == ASSUME Inv, FirstLogin PROVE Inv'
<1>1. RestTyped' /\ reconnecting' = reconnecting /\ UNCHANGED <<pool, user, torn>>
  BY DEF FirstLogin, Inv, Structure, RestTyped, others
<1>2. /\ pool[General] # None /\ entry[pool[General]].sock # "creating"
      /\ \E s \in {"up", "closed"} : entry' = [entry EXCEPT ![pool[General]].sock = s]
  BY DEF FirstLogin
<1>3. pool[General] \in Entries /\ entry[pool[General]].tag = General
  BY <1>2, PoolEntry, GeneralTag
<1>4. QED
  BY <1>1, <1>2, <1>3, ConnectionInv

-----------------------------------------------------------------------------
(* Entries that are torn from the pool.                                    *)

\* What is left of an entry that is removed, or closed by force.
LEMMA RemovedIs ==
  ASSUME PoolTyped, NEW e \in Entries
  PROVE  /\ Removed(e) = [tag |-> entry[e].tag, sock |-> Closed(entry[e].sock), refs |-> 0,
                          timer |-> entry[e].timer, permit |-> None]
         /\ Forced(e) = [tag |-> entry[e].tag, sock |-> Closed(entry[e].sock), refs |-> 0,
                         timer |-> "unset", permit |-> None]
         /\ Closed(entry[e].sock) \in {"creating", "closed"}
         /\ Closed(entry[e].sock) = "creating" <=> entry[e].sock = "creating"
         /\ Removed(e) \in EntryType /\ Forced(e) \in EntryType
<1>1. entry[e] \in EntryType
  BY DEF PoolTyped
<1>2. Removed(e) = [tag |-> entry[e].tag, sock |-> Closed(entry[e].sock), refs |-> 0,
                    timer |-> entry[e].timer, permit |-> None]
  <2>1. Removed(e) \in [tag : {entry[e].tag}, sock : {Closed(entry[e].sock)}, refs : {0},
                        timer : {entry[e].timer}, permit : {None}]
    BY <1>1 DEF Removed, EntryType
  <2>2. QED
    BY <2>1
<1>3. Forced(e) = [tag |-> entry[e].tag, sock |-> Closed(entry[e].sock), refs |-> 0,
                   timer |-> "unset", permit |-> None]
  BY <1>2 DEF Forced
<1>4. /\ Closed(entry[e].sock) \in {"creating", "closed"}
      /\ Closed(entry[e].sock) = "creating" <=> entry[e].sock = "creating"
  BY DEF Closed
<1>5. 0 \in 0 .. Cardinality(Users) + 1 /\ None \in Sockets
  BY UsersFinite, NoneIsNoEntry
<1>6. Removed(e) \in EntryType /\ Forced(e) \in EntryType
  BY <1>1, <1>2, <1>3, <1>4, <1>5 DEF EntryType
<1>7. QED
  BY <1>2, <1>3, <1>4, <1>6

LEMMA ForceCloseInv ==
  ASSUME Inv, NEW tags \in SUBSET Tags, ForceClose(tags), UNCHANGED user, RestTyped',
         \/ reconnecting' = "closing" => reconnecting = "closing"
         \/ SocketsLeft
  PROVE  Inv'
<1> USE NoneIsNoEntry
<1> DEFINE gone == {pool[t] : t \in tags}
<1>1. /\ \A t \in Tags : pool'[t] = IF t \in tags THEN None ELSE pool[t]
      /\ torn' = torn \cup tags
      /\ \A e \in Entries : entry'[e] = IF e \in gone THEN Forced(e) ELSE entry[e]
  BY DEF ForceClose
<1>2. PoolTyped'
  <2>1. pool' \in [Tags -> Sockets]
    BY DEF ForceClose, Inv, Structure, PoolTyped
  <2>2. \A e \in Entries : Forced(e) \in EntryType
    BY RemovedIs DEF Inv, Structure
  <2>3. entry' \in [Entries -> EntryType]
    BY <2>2 DEF ForceClose, Inv, Structure, PoolTyped
  <2>4. QED
    BY <2>1, <2>3 DEF PoolTyped
<1>3. \A e \in Entries :
        /\ e \in gone => /\ entry[e].tag \in tags
                         /\ entry'[e].timer = "unset" /\ entry'[e].permit = None
                         /\ entry'[e].sock \in {"creating", "closed"}
        /\ e \notin gone => entry'[e] = entry[e] /\ \A t \in tags : pool[t] # e
        /\ entry'[e].tag = entry[e].tag
        /\ entry'[e].sock = "creating" <=> entry[e].sock = "creating"
  <2> SUFFICES ASSUME NEW e \in Entries
               PROVE  /\ e \in gone => /\ entry[e].tag \in tags
                                       /\ entry'[e].timer = "unset" /\ entry'[e].permit = None
                                       /\ entry'[e].sock \in {"creating", "closed"}
                      /\ e \notin gone => entry'[e] = entry[e] /\ \A t \in tags : pool[t] # e
                      /\ entry'[e].tag = entry[e].tag
                      /\ entry'[e].sock = "creating" <=> entry[e].sock = "creating"
    OBVIOUS
  <2>1. CASE e \in gone
    <3>1. entry[e].tag \in tags
      BY <2>1, PoolEntry
    <3>2. QED
      BY <1>1, <2>1, <3>1, RemovedIs DEF Inv, Structure
  <2>2. CASE e \notin gone
    BY <1>1, <2>2
  <2>3. QED
    BY <2>1, <2>2
<1> HIDE DEF gone
<1>4. Structure'
  BY <1>2 DEF Inv, Structure, UsersTyped, Placed
<1>5. \A u \in Users : UserAccount(u)'
  BY <1>1, <1>3, UserKept DEF Inv, Structure, UsersTyped
<1>6. \A e \in Entries : EntryAccount(e)'
  <2>1. ASSUME NEW e \in Entries PROVE UsersOf(e)' = UsersOf(e)
    BY DEF UsersOf, Uses
  <2>2. General \in torn' \/ pool'[General] = pool[General]
    BY <1>1, GeneralTag
  <2>3. ASSUME NEW e \in Entries, e \notin gone PROVE EntryAccount(e)'
    <3>1. entry[e].tag \in Tags
      BY DEF Inv, Structure, PoolTyped, EntryType
    <3>2. \/ pool'[entry[e].tag] = pool[entry[e].tag]
          \/ pool'[entry[e].tag] # e /\ pool[entry[e].tag] # e
      BY <1>1, <1>3, <2>3, <3>1
    <3>3. QED
      BY <1>1, <1>3, <2>1, <2>2, <2>3, <3>2, EntryKept
  <2>4. ASSUME NEW e \in Entries, e \in gone PROVE EntryAccount(e)'
    BY <1>1, <1>3, <2>4 DEF EntryAccount
  <2>5. QED
    BY <2>3, <2>4
<1>7. PoolTagged'
  BY <1>1, <1>3, PoolEntry DEF PoolTagged
<1>8. Created' /\ GeneralPlain'
  <2>1. Created'
    BY <1>3 DEF Inv, Account, Created
  <2>2. GeneralPlain'
    BY <1>3 DEF Inv, Account, GeneralPlain
  <2>3. QED
    BY <2>1, <2>2
<1>9. GeneralKept'
  <2> SUFFICES ASSUME General \notin torn, General \notin tags PROVE GeneralKept'
    BY <1>1 DEF GeneralKept
  <2>1. pool'[General] = pool[General]
    BY <1>1, GeneralTag
  <2>2. pool[General] # None /\ pool[General] \in Entries /\ entry[pool[General]].sock # "creating"
    BY PoolEntry, GeneralTag DEF Inv, Account, GeneralKept
  <2>3. entry'[pool[General]].sock # "creating"
    BY <1>3, <2>2
  <2>4. QED
    BY <2>1, <2>2, <2>3 DEF Inv, Account, GeneralKept
<1>10. Room'
  <2>1. \A e \in DeadOnes : e \in DeadOnes'
    <3> SUFFICES ASSUME NEW e \in Entries, Dead(e) PROVE e \in DeadOnes'
      BY DEF DeadOnes
    <3>1. e \notin gone /\ \A t \in Tags : pool'[t] # e
      BY <1>1 DEF Dead, gone
    <3>2. \A f \in Entries : entry'[f].sock # "closed" =>
            \/ entry[f].sock # "closed" /\ entry'[f].permit = entry[f].permit
            \/ entry'[f].permit # e
      BY <1>3
    <3>3. QED
      BY <1>3, <3>1, <3>2, DeadKept DEF Dead
  <2>2. ReservedUsers' = ReservedUsers
    BY DEF ReservedUsers
  <2>3. QED
    BY <2>1, <2>2, RoomKept, RoomPromised DEF Inv
<1>11. QED
  BY <1>4, <1>5, <1>6, <1>7, <1>8, <1>9, <1>10 DEF Inv, Account

LEMMA D2cDiscInv == ASSUME Inv, D2cDisc PROVE Inv'
<1> DEFINE streaming == {t \in Tags : pool[t] # None /\ Kind(t) = "streaming"}
<1>1. ForceClose(streaming) /\ UNCHANGED <<user, others>>
  BY DEF D2cDisc
<1>2. RestTyped'
  <2>1. cool' \in [fails : 0 .. StormThreshold, blocked : BOOLEAN]
    BY DEF D2cDisc, Inv, Structure, RestTyped, StormThreshold
  <2>2. torn' \subseteq Tags
    BY <1>1 DEF ForceClose, Inv, Structure, RestTyped
  <2>3. QED
    BY <1>1, <2>1, <2>2 DEF others, Inv, Structure, RestTyped
<1>3. QED
  BY <1>1, <1>2, ForceCloseInv DEF others

LEMMA StreamTimeoutsInv ==
  ASSUME Inv, NEW u \in Users, StreamTimeouts(u) PROVE Inv'
<1>1. user[u].tag \in Tags
  BY DEF Inv, Structure, UsersTyped
<1>2. ForceClose({user[u].tag}) /\ UNCHANGED <<user, cool, others>>
  BY DEF StreamTimeouts
<1>3. RestTyped'
  BY <1>1, <1>2 DEF ForceClose, others, Inv, Structure, RestTyped
<1>4. QED
  BY <1>1, <1>2, <1>3, ForceCloseInv DEF others

LEMMA ReconnectBeginsInv == ASSUME Inv, ReconnectBegins PROVE Inv'
<1>1. /\ SocketsLeft /\ reconnecting' = "closing"
      /\ UNCHANGED <<user, cool, closed>>
      /\ \/ pool[General] = None /\ UNCHANGED <<pool, entry, torn>>
         \/ pool[General] # None /\ ForceClose({General})
  BY DEF ReconnectBegins
<1>2. RestTyped'
  BY <1>1, GeneralTag DEF ForceClose, Inv, Structure, RestTyped
<1>3. CASE UNCHANGED <<pool, entry, torn>>
  <2>1. DeadOnes' = DeadOnes /\ ReservedUsers' = ReservedUsers
    BY <1>1, <1>3 DEF DeadOnes, Dead, ReservedUsers
  <2>2. Room'
    BY <1>1, <2>1, RoomPromised
  <2>3. QED
    BY <1>1, <1>2, <1>3, <2>2, UnchangedInv
<1>4. CASE ForceClose({General})
  BY <1>1, <1>2, <1>4, GeneralTag, ForceCloseInv
<1>5. QED
  BY <1>1, <1>3, <1>4

LEMMA CloseInv == ASSUME Inv, Close PROVE Inv'
<1> DEFINE tags == {t \in Tags : pool[t] # None}
<1>1. ForceClose(tags) /\ UNCHANGED <<user, cool, reconnecting>> /\ closed' = TRUE
  BY DEF Close
<1>2. RestTyped'
  BY <1>1 DEF ForceClose, Inv, Structure, RestTyped
<1>3. QED
  BY <1>1, <1>2, ForceCloseInv

-----------------------------------------------------------------------------
(* Acquires of an entry of the pool.                                       *)

\* One user comes to an entry, or leaves it.
LEMMA OneUserMoves ==
  ASSUME UsersTyped, Placed, UsersTyped', Placed', NEW u \in Users,
         \A v \in Users \ {u} : user'[v] = user[v], NEW f \in Entries
  PROVE  /\ UsersOf(f) \in SUBSET Users /\ UsersOf(f)' \in SUBSET Users
         /\ Cardinality(UsersOf(f)) \in Nat
         /\ Cardinality(UsersOf(f)') \in Nat /\ Cardinality(UsersOf(f)') <= Cardinality(Users)
         /\ (user[u].entry = f <=> user'[u].entry = f) => UsersOf(f)' = UsersOf(f)
         /\ user[u].entry # f /\ user'[u].entry = f =>
              /\ UsersOf(f)' = UsersOf(f) \cup {u}
              /\ Cardinality(UsersOf(f)') = Cardinality(UsersOf(f)) + 1
         /\ user[u].entry = f /\ user'[u].entry # f =>
              /\ UsersOf(f)' = UsersOf(f) \ {u} /\ u \in UsersOf(f)
              /\ Cardinality(UsersOf(f)') = Cardinality(UsersOf(f)) - 1
<1>1. UsersOf(f) = {v \in Users : user[v].entry = f}
  BY UsersAre
<1>2. UsersOf(f)' = {v \in Users : user'[v].entry = f}
  BY UsersAre
<1>3. UsersOf(f) \in SUBSET Users /\ UsersOf(f)' \in SUBSET Users
  BY <1>1, <1>2
<1>4. (user[u].entry = f <=> user'[u].entry = f) => UsersOf(f)' = UsersOf(f)
  BY <1>1, <1>2
<1>5. user[u].entry # f /\ user'[u].entry = f => UsersOf(f)' = UsersOf(f) \cup {u} /\ u \notin UsersOf(f)
  BY <1>1, <1>2
<1>6. user[u].entry = f /\ user'[u].entry # f => UsersOf(f)' = UsersOf(f) \ {u} /\ u \in UsersOf(f)
  BY <1>1, <1>2
<1>7. QED
  BY <1>3, <1>4, <1>5, <1>6, OneUserMore, UsersFinite

LEMMA EntryChanged ==
  ASSUME NEW r \in EntryType, NEW n \in 0 .. Cardinality(Users) + 1,
         NEW timer \in {"unset", "armed", "fired"}
  PROVE  [r EXCEPT !.timer = timer, !.refs = n] \in EntryType
BY DEF EntryType

LEMMA AcquireEntryInv ==
  ASSUME Inv, NEW u \in Users, NEW tag \in Tags, NEW e, e = pool[tag], e # None,
         NEW place \in {"waiting", "holding", "relogin"}, NEW refs,
         entry[e].sock = "creating" <=> place = "waiting",
         refs = IF place = "waiting" THEN entry[e].refs ELSE entry[e].refs + 1,
         place = "relogin" => entry[e].refs = 0 /\ SocketsLeft,
         user[u] = Idle,
         entry' = [entry EXCEPT ![e].timer = "unset", ![e].refs = refs],
         user' = [user EXCEPT ![u] = At(place, tag, e)],
         UNCHANGED <<pool, torn, reconnecting>>, RestTyped'
  PROVE  Inv'
<1> USE NoneIsNoEntry
<1>1. /\ e \in Entries /\ entry[e].tag = tag
      /\ user[u].at = "idle" /\ user[u].entry = None
  BY PoolEntry DEF Idle
<1>2. /\ \A f \in Entries \ {e} : entry'[f] = entry[f]
      /\ entry'[e] = [entry[e] EXCEPT !.timer = "unset", !.refs = refs]
      /\ entry'[e].tag = tag /\ entry'[e].sock = entry[e].sock
      /\ entry'[e].permit = entry[e].permit
      /\ entry'[e].timer = "unset" /\ entry'[e].refs = refs
  BY <1>1 DEF Inv, Structure, PoolTyped, EntryType
<1>same. \A f \in Entries : /\ entry'[f].tag = entry[f].tag /\ entry'[f].sock = entry[f].sock
                            /\ entry'[f].permit = entry[f].permit
  BY <1>1, <1>2
<1>3. /\ \A v \in Users \ {u} : user'[v] = user[v]
      /\ user'[u].at = place /\ user'[u].tag = tag /\ user'[u].entry = e
      /\ UsersTyped'
  BY <1>1 DEF Inv, Structure, UsersTyped, At, Using
<1>4. Placed'
  BY <1>3 DEF Inv, Structure, Placed, Using
\* The entry has one user more.
<1>5. /\ \A f \in Entries \ {e} : UsersOf(f)' = UsersOf(f)
      /\ UsersOf(e)' = UsersOf(e) \cup {u}
      /\ Cardinality(UsersOf(e)') = Cardinality(UsersOf(e)) + 1
      /\ Cardinality(UsersOf(e)') <= Cardinality(Users)
      /\ Cardinality(UsersOf(e)) \in Nat /\ Cardinality(Users) \in Nat
  BY <1>1, <1>3, <1>4, OneUserMoves, UsersFinite DEF Inv, Structure
<1>6. EntryAccount(e) /\ InPool(e)
  BY <1>1 DEF Inv, Account, EntryAccount
<1>7. Structure'
  <2>1. refs \in 0 .. Cardinality(Users) + 1
    BY <1>1, <1>5, <1>6 DEF InPool, Inv, Structure, PoolTyped, EntryType
  <2>2. entry'[e] \in EntryType
    <3>1. entry[e] \in EntryType /\ entry'[e] = [entry[e] EXCEPT !.timer = "unset", !.refs = refs]
      BY <1>1, <1>2 DEF Inv, Structure, PoolTyped
    <3>2. [entry[e] EXCEPT !.timer = "unset", !.refs = refs] \in EntryType
      BY <2>1, <3>1, EntryChanged, Zenon
    <3>3. QED
      BY <3>1, <3>2, Zenon
  <2>3. PoolTyped'
    BY <1>1, <2>2 DEF Inv, Structure, PoolTyped
  <2>4. QED
    BY <1>3, <1>4, <2>3 DEF Structure
<1>8. \A v \in Users : UserAccount(v)'
  <2>1. ASSUME NEW v \in Users, v # u PROVE UserAccount(v)'
    <3>1. user'[v] = user[v] /\ (user[v].entry # None => user[v].entry \in Entries)
      BY <1>3, <2>1 DEF Inv, Structure, UsersTyped
    <3>2. QED
      BY <1>same, <3>1, UserKept
  <2>2. UserAccount(u)'
    BY <1>1, <1>2, <1>3 DEF UserAccount
  <2>3. QED
    BY <2>1, <2>2
<1>9. \A f \in Entries : EntryAccount(f)'
  <2>1. ASSUME NEW f \in Entries, f # e PROVE EntryAccount(f)'
    BY <1>2, <1>5, <2>1, EntryKept
  <2>2. InPool(e)'
    BY <1>1, <1>2, <1>5, <1>6 DEF InPool, Inv, Structure, PoolTyped, EntryType
  <2>3. EntryAccount(e)'
    BY <1>1, <1>2, <1>6, <2>2 DEF EntryAccount
  <2>4. QED
    BY <2>1, <2>3
<1>10. PoolTagged' /\ GeneralPlain'
  <2>1. PoolTagged'
    BY <1>same, PoolEntry DEF PoolTagged
  <2>2. GeneralPlain'
    <3>1. \A f \in Entries : entry'[f].timer \in {entry[f].timer, "unset"}
      BY <1>1, <1>2
    <3>2. QED
      BY <1>same, <3>1 DEF Inv, Account, GeneralPlain
  <2>3. QED
    BY <2>1, <2>2
<1>11. Created'
  <2>1. \A f \in Entries : entry'[f].sock = "creating" =>
          \E v \in Users : user'[v].at = "creating" /\ user'[v].entry = f
    <3> SUFFICES ASSUME NEW f \in Entries, entry'[f].sock = "creating"
                 PROVE  \E v \in Users : user'[v].at = "creating" /\ user'[v].entry = f
      OBVIOUS
    <3>1. PICK v \in Users : user[v].at = "creating" /\ user[v].entry = f
      BY <1>same DEF Inv, Account, Created
    <3>2. v # u
      BY <1>1, <3>1
    <3>3. QED
      BY <1>3, <3>1, <3>2
  <2>2. \A v, w \in Users : /\ user'[v].at = "creating" /\ user'[w].at = "creating"
                           /\ user'[v].entry = user'[w].entry => v = w
    BY <1>3 DEF Inv, Account, Created
  <2>3. QED
    BY <2>1, <2>2 DEF Created
<1>12. GeneralKept'
  <2> SUFFICES ASSUME General \notin torn PROVE GeneralKept'
    BY DEF GeneralKept
  <2>1. /\ pool[General] # None /\ entry[pool[General]].sock # "creating"
        /\ \A v \in Users : user[v].tag = General => user[v].at \in {"idle", "holding"}
        /\ pool[General] \in Entries
    BY PoolEntry, GeneralTag DEF Inv, Account, GeneralKept
  <2>2. entry'[pool[General]].sock # "creating"
    BY <2>1, <1>2
  <2>3. tag = General => place = "holding"
    BY <1>1, <1>5, <1>6, <2>1 DEF InPool
  <2>4. QED
    BY <1>3, <2>1, <2>2, <2>3 DEF GeneralKept
<1>13. Room'
  <2>1. \A f \in DeadOnes : f \in DeadOnes'
    <3> SUFFICES ASSUME NEW f \in Entries, Dead(f) PROVE f \in DeadOnes'
      BY DEF DeadOnes
    <3>1. f # e
      BY DEF Dead
    <3>2. \A v \in Users : user'[v].entry # f
      BY <1>3, <3>1 DEF Dead
    <3>3. entry'[f] = entry[f] /\ \A t \in Tags : pool'[t] # f
      BY <1>2, <3>1 DEF Dead
    <3>4. \A g \in Entries : entry'[g].sock = entry[g].sock /\ entry'[g].permit = entry[g].permit
      BY <1>2
    <3>5. QED
      BY <3>2, <3>3, <3>4, DeadKept
  <2>2. ReservedUsers' \subseteq ReservedUsers \cup {u}
    BY <1>3 DEF ReservedUsers
  <2>3. place # "relogin" => ReservedUsers' \subseteq ReservedUsers
    BY <1>3 DEF ReservedUsers
  <2>4. QED
    BY <2>1, <2>2, <2>3, RoomKept, RoomPromised DEF Inv
<1>14. QED
  BY <1>7, <1>8, <1>9, <1>10, <1>11, <1>12, <1>13 DEF Inv, Account

LEMMA AskIs ==
  ASSUME Inv, NEW u \in Users, Asks(u)
  PROVE  /\ user[u] = Idle /\ reconnecting' = reconnecting
         /\ cool' \in [fails : 0 .. StormThreshold, blocked : BOOLEAN]
         /\ torn' \subseteq Tags => RestTyped'
<1>1. user[u] = Idle /\ UNCHANGED others
  BY DEF Asks
<1>2. cool' \in [fails : 0 .. StormThreshold, blocked : BOOLEAN]
  <2>1. NoCooldown \in [fails : 0 .. StormThreshold, blocked : BOOLEAN]
    BY DEF NoCooldown, StormThreshold
  <2>2. cool' = cool \/ cool' = NoCooldown
    BY DEF Asks, PassesCooldown
  <2>3. QED
    BY <2>1, <2>2 DEF Inv, Structure, RestTyped
<1>3. torn' \subseteq Tags => RestTyped'
  BY <1>1, <1>2 DEF others, Inv, Structure, RestTyped
<1>4. QED
  BY <1>1, <1>2, <1>3 DEF others

LEMMA AcquirePendingInv ==
  ASSUME Inv, NEW u \in Users, NEW tag \in Tags, AcquirePending(u, tag) PROVE Inv'
<1> DEFINE e == pool[tag]
<1>1. /\ e # None /\ entry[e].sock = "creating" /\ Asks(u)
      /\ entry' = [entry EXCEPT ![e].timer = "unset"]
      /\ user' = [user EXCEPT ![u] = At("waiting", tag, e)]
      /\ UNCHANGED <<pool, torn>>
  BY DEF AcquirePending, Pending
<1>2. e \in Entries
  BY <1>1, NoneIsNoEntry DEF Inv, Structure, PoolTyped, EntryType
<1> DEFINE refs == entry[e].refs
           place == "waiting"
<1>3. RestTyped' /\ user[u] = Idle /\ reconnecting' = reconnecting
  BY <1>1, AskIs DEF Inv, Structure, RestTyped
<1>4. /\ entry' = [entry EXCEPT ![e].timer = "unset", ![e].refs = refs]
      /\ user' = [user EXCEPT ![u] = At(place, tag, e)]
      /\ place \in {"waiting", "holding", "relogin"}
      /\ entry[e].sock = "creating" <=> place = "waiting"
      /\ refs = IF place = "waiting" THEN entry[e].refs ELSE entry[e].refs + 1
      /\ e = pool[tag]
      /\ place = "relogin" => entry[e].refs = 0 /\ SocketsLeft
      /\ e # None /\ UNCHANGED <<pool, torn, reconnecting>>
  BY <1>1, <1>2, <1>3 DEF Inv, Structure, PoolTyped, EntryType
<1> HIDE DEF e, refs, place
<1>5. QED
  BY <1>3, <1>4, AcquireEntryInv, Zenon

LEMMA AcquireIdleInv ==
  ASSUME Inv, NEW u \in Users, NEW tag \in Tags, AcquireIdle(u, tag) PROVE Inv'
<1> DEFINE e == pool[tag]
           place == IF entry[e].sock = "up" THEN "holding" ELSE "relogin"
<1>1. /\ e # None /\ entry[e].sock # "creating" /\ entry[e].refs = 0 /\ Asks(u)
      /\ place = "relogin" => SocketsLeft
      /\ entry' = [entry EXCEPT ![e].timer = "unset", ![e].refs = 1]
      /\ user' = [user EXCEPT ![u] = At(place, tag, e)]
      /\ UNCHANGED <<pool, torn>>
  BY DEF AcquireIdle, Pending
<1>2. RestTyped' /\ user[u] = Idle /\ reconnecting' = reconnecting
  BY <1>1, AskIs DEF Inv, Structure, RestTyped
<1>3. /\ e = pool[tag]
      /\ place \in {"waiting", "holding", "relogin"} /\ place # "waiting"
      /\ 1 = entry[e].refs + 1
  BY <1>1
<1> HIDE DEF e, place
<1>4. QED
  BY <1>1, <1>2, <1>3, AcquireEntryInv

LEMMA AcquireActiveInv ==
  ASSUME Inv, NEW u \in Users, NEW tag \in Tags, AcquireActive(u, tag) PROVE Inv'
<1> DEFINE e == pool[tag]
<1>1. /\ e # None /\ entry[e].sock # "creating" /\ Asks(u)
      /\ entry' = [entry EXCEPT ![e].timer = "unset", ![e].refs = @ + 1]
      /\ user' = [user EXCEPT ![u] = At("holding", tag, e)]
      /\ UNCHANGED <<pool, torn>>
  BY DEF AcquireActive, Pending
<1>2. RestTyped' /\ user[u] = Idle /\ reconnecting' = reconnecting
  BY <1>1, AskIs DEF Inv, Structure, RestTyped
<1>3. entry' = [entry EXCEPT ![e].timer = "unset", ![e].refs = entry[e].refs + 1]
  <2>1. e \in Entries
    BY <1>1, NoneIsNoEntry DEF Inv, Structure, PoolTyped, EntryType
  <2>2. QED
    BY <1>1, <2>1 DEF Inv, Structure, PoolTyped, EntryType
<1> DEFINE refs == entry[e].refs + 1
           place == "holding"
<1>4. /\ entry' = [entry EXCEPT ![e].timer = "unset", ![e].refs = refs]
      /\ user' = [user EXCEPT ![u] = At(place, tag, e)]
      /\ place \in {"waiting", "holding", "relogin"}
      /\ entry[e].sock = "creating" <=> place = "waiting"
      /\ refs = IF place = "waiting" THEN entry[e].refs ELSE entry[e].refs + 1
      /\ e = pool[tag]
      /\ place = "relogin" => entry[e].refs = 0 /\ SocketsLeft
      /\ e # None /\ UNCHANGED <<pool, torn, reconnecting>>
  BY <1>1, <1>2, <1>3
<1> HIDE DEF e, refs, place
<1>5. QED
  BY <1>2, <1>4, AcquireEntryInv, Zenon

-----------------------------------------------------------------------------
(* New entries.                                                            *)

\* An entry that is new takes a free number, which nothing referred to; what
\* the pool had under the tag is torn away.
LEMMA CreatesInv ==
  ASSUME Inv, NEW u \in Users, NEW tag \in Tags, Creates(u, tag),
         UNCHANGED reconnecting, RestTyped',
         (SocketsLeft /\ user[u].at = "idle") \/ user[u].at = "closing"
  PROVE  Inv'
<1> USE NoneIsNoEntry
<1>1. PICK e \in Entries : e = Fresh /\ Dead(e) /\ e # None
  BY FreshIsDead DEF Inv, ReservedUsers
<1>2. /\ entry' = [entry EXCEPT ![e] = Entry(tag, "creating", 0)]
      /\ pool' = [pool EXCEPT ![tag] = e]
      /\ user' = [user EXCEPT ![u] = At("creating", tag, e)]
      /\ torn' = IF pool[tag] = None THEN torn ELSE torn \cup {tag}
  BY <1>1 DEF Creates
<1>3. /\ \A f \in Entries \ {e} : entry'[f] = entry[f]
      /\ entry'[e].tag = tag /\ entry'[e].sock = "creating" /\ entry'[e].refs = 0
      /\ entry'[e].timer = "unset" /\ entry'[e].permit = None
      /\ PoolTyped'
  <2>1. entry'[e] = Entry(tag, "creating", 0) /\ \A f \in Entries \ {e} : entry'[f] = entry[f]
    BY <1>1, <1>2 DEF Inv, Structure, PoolTyped
  <2>2. 0 \in 0 .. Cardinality(Users) + 1
    BY UsersFinite
  <2>3. Entry(tag, "creating", 0) \in EntryType
    BY <2>2 DEF Entry, EntryType
  <2>4. PoolTyped'
    BY <1>1, <1>2, <2>3 DEF Inv, Structure, PoolTyped
  <2>5. QED
    BY <2>1, <2>4 DEF Entry
<1>4. /\ pool'[tag] = e /\ \A t \in Tags \ {tag} : pool'[t] = pool[t]
      /\ \A t \in Tags : pool[t] # e
      /\ torn \subseteq torn' /\ (pool[tag] # None => tag \in torn')
      /\ \A t \in Tags \ {tag} : t \in torn' => t \in torn
  BY <1>1, <1>2 DEF Inv, Structure, PoolTyped, Dead
<1>5. /\ \A v \in Users \ {u} : user'[v] = user[v]
      /\ user'[u].at = "creating" /\ user'[u].tag = tag /\ user'[u].entry = e
      /\ \A v \in Users : user[v].entry # e
      /\ UsersTyped'
  BY <1>1, <1>2 DEF Inv, Structure, UsersTyped, At, Using, Dead
<1>6. user[u].entry = None /\ user[u].at \in {"idle", "closing"}
  BY DEF Inv, Structure, Placed, Using
<1>7. Placed'
  BY <1>1, <1>5 DEF Inv, Structure, Placed, Using
<1>8. Structure'
  BY <1>3, <1>5, <1>7 DEF Structure
\* Only the new entry has a user more.
<1>9. /\ \A f \in Entries \ {e} : UsersOf(f)' = UsersOf(f)
      /\ UsersOf(e)' = UsersOf(e) \cup {u} /\ Cardinality(UsersOf(e)') \in Nat
  BY <1>1, <1>5, <1>6, <1>7, OneUserMoves DEF Inv, Structure
<1>10. \A v \in Users : UserAccount(v)'
  <2>1. ASSUME NEW v \in Users, v # u PROVE UserAccount(v)'
    <3>1. user'[v] = user[v] /\ (user[v].entry # None => user[v].entry \in Entries \ {e})
      BY <1>5, <2>1 DEF Inv, Structure, UsersTyped
    <3>2. user[v].entry # None => user[v].tag \in torn' \/ pool'[user[v].tag] = pool[user[v].tag]
      <4>1. user[v].tag \in Tags
        BY DEF Inv, Structure, UsersTyped
      <4>2. user[v].entry # None /\ user[v].tag = tag /\ pool[tag] = None => tag \in torn
        BY DEF Inv, Account, UserAccount
      <4>3. QED
        BY <1>4, <4>1, <4>2
    <3>3. QED
      BY <1>3, <1>4, <3>1, <3>2, UserKept
  <2>2. UserAccount(u)'
    BY <1>3, <1>4, <1>5 DEF UserAccount
  <2>3. QED
    BY <2>1, <2>2
<1>11. General \in torn' \/ (tag # General /\ pool'[General] = pool[General])
  BY <1>4, GeneralTag DEF Inv, Account, GeneralKept
<1>12. \A f \in Entries : EntryAccount(f)'
  <2>1. ASSUME NEW f \in Entries, f # e PROVE EntryAccount(f)'
    <3>1. entry[f].tag \in Tags
      BY DEF Inv, Structure, PoolTyped, EntryType
    <3>2. \/ pool'[entry[f].tag] = pool[entry[f].tag]
          \/ pool'[entry[f].tag] # f /\ pool[entry[f].tag] # f
          \/ pool'[entry[f].tag] # f /\ entry[f].tag \in torn'
      BY <1>4, <2>1, <3>1
    <3>3. QED
      BY <1>3, <1>4, <1>9, <1>11, <2>1, <3>2, EntryKept
  <2>2. InPool(e)'
    BY <1>3, <1>9 DEF InPool
  <2>3. EntryAccount(e)'
    BY <1>3, <2>2 DEF EntryAccount
  <2>4. QED
    BY <2>1, <2>3
<1>13. PoolTagged'
  <2>1. \A t \in Tags \ {tag} : pool[t] # None =>
          pool[t] \in Entries \ {e} /\ entry[pool[t]].tag = t
    BY <1>4, PoolEntry
  <2>2. ASSUME NEW t \in Tags \ {tag}, pool'[t] # None PROVE entry'[pool'[t]].tag = t
    <3>1. pool'[t] = pool[t]
      BY <1>4
    <3>2. pool[t] \in Entries \ {e} /\ entry[pool[t]].tag = t
      BY <2>1, <2>2, <3>1
    <3>3. entry'[pool[t]] = entry[pool[t]]
      BY <1>3, <3>2
    <3>4. QED
      BY <3>1, <3>2, <3>3
  <2>3. QED
    BY <1>3, <1>4, <2>2 DEF PoolTagged
<1>14. Created'
  <2>1. \A f \in Entries : entry'[f].sock = "creating" =>
          \E v \in Users : user'[v].at = "creating" /\ user'[v].entry = f
    <3> SUFFICES ASSUME NEW f \in Entries, f # e, entry'[f].sock = "creating"
                 PROVE  \E v \in Users : user'[v].at = "creating" /\ user'[v].entry = f
      BY <1>5
    <3>1. PICK v \in Users : user[v].at = "creating" /\ user[v].entry = f
      BY <1>3 DEF Inv, Account, Created
    <3>2. v # u
      BY <1>6, <3>1
    <3>3. QED
      BY <1>5, <3>1, <3>2
  <2>2. \A v, w \in Users : /\ user'[v].at = "creating" /\ user'[w].at = "creating"
                           /\ user'[v].entry = user'[w].entry => v = w
    BY <1>5 DEF Inv, Account, Created
  <2>3. QED
    BY <2>1, <2>2 DEF Created
<1>15. GeneralPlain'
  <2>1. \A f \in Entries : entry'[f].tag = General => f = e \/ entry'[f] = entry[f]
    BY <1>3
  <2>2. QED
    BY <1>3, <2>1 DEF Inv, Account, GeneralPlain
<1>16. GeneralKept'
  <2> SUFFICES ASSUME General \notin torn' PROVE GeneralKept'
    BY DEF GeneralKept
  <2>1. tag # General /\ pool'[General] = pool[General] /\ General \notin torn
    BY <1>4, <1>11
  <2>2. /\ pool[General] # None /\ entry[pool[General]].sock # "creating"
        /\ \A v \in Users : user[v].tag = General => user[v].at \in {"idle", "holding"}
        /\ pool[General] \in Entries \ {e}
    BY <1>4, <2>1, PoolEntry, GeneralTag DEF Inv, Account, GeneralKept
  <2>3. QED
    BY <1>3, <1>5, <2>1, <2>2 DEF GeneralKept
<1>17. Room'
  <2>1. \A f \in DeadOnes \ {e} : f \in DeadOnes'
    <3> SUFFICES ASSUME NEW f \in Entries, Dead(f), f # e PROVE f \in DeadOnes'
      BY DEF DeadOnes
    <3>1. \A v \in Users : user'[v].entry # f
      BY <1>5 DEF Dead
    <3>2. entry'[f] = entry[f] /\ \A t \in Tags : pool'[t] # f
      BY <1>3, <1>4 DEF Dead
    <3>3. \A g \in Entries : entry'[g] = entry[g] \/ entry'[g].permit = None
      BY <1>3
    <3>4. QED
      BY <3>1, <3>2, <3>3, DeadKept
  <2>2. user[u].at = "closing" => u \in ReservedUsers /\ ReservedUsers' \subseteq ReservedUsers \ {u}
    BY <1>5 DEF ReservedUsers
  <2>3. ReservedUsers' \subseteq ReservedUsers
    BY <1>5 DEF ReservedUsers
  <2>4. QED
    BY <2>1, <2>2, <2>3, RoomUsed DEF Inv
<1>18. QED
  BY <1>8, <1>10, <1>12, <1>13, <1>14, <1>15, <1>16, <1>17 DEF Inv, Account

LEMMA AcquireNewInv ==
  ASSUME Inv, NEW u \in Users, NEW tag \in Tags, AcquireNew(u, tag) PROVE Inv'
<1>1. SocketsLeft /\ Asks(u) /\ Creates(u, tag) /\ pool[tag] = None
  BY DEF AcquireNew
<1>2. RestTyped'
  BY <1>1, AskIs DEF Creates, Inv, Structure, RestTyped
<1>3. user[u].at = "idle" /\ UNCHANGED reconnecting
  BY <1>1, AskIs DEF Idle
<1>4. QED
  BY <1>1, <1>2, <1>3, CreatesInv

LEMMA CreateAgainInv ==
  ASSUME Inv, NEW u \in Users, CreateAgain(u) PROVE Inv'
<1>1. user[u].tag \in Tags
  BY DEF Inv, Structure, UsersTyped
<1>2. Creates(u, user[u].tag) /\ UNCHANGED <<cool, others>> /\ user[u].at = "closing"
  BY DEF CreateAgain
<1>3. RestTyped'
  BY <1>1, <1>2 DEF others, Creates, Inv, Structure, RestTyped
<1>4. QED
  BY <1>1, <1>2, <1>3, CreatesInv DEF others

\* The new client of the general socket.
LEMMA ReconnectCreatesInv == ASSUME Inv, ReconnectCreates PROVE Inv'
<1> USE NoneIsNoEntry, GeneralTag
<1>1. reconnecting = "closing" /\ reconnecting' = "login" /\ UNCHANGED user
  BY DEF ReconnectCreates
<1>2. PICK e \in Entries : e = Fresh /\ Dead(e) /\ e # None
  BY <1>1, FreshIsDead DEF Inv
<1>3. /\ entry' = [entry EXCEPT ![e] = Entry(General, "down", 1)]
      /\ pool' = [pool EXCEPT ![General] = e]
      /\ torn' = torn \cup {General}
  BY <1>2 DEF ReconnectCreates
<1>4. RestTyped'
  BY DEF ReconnectCreates, Inv, Structure, RestTyped
<1>5. /\ \A f \in Entries \ {e} : entry'[f] = entry[f]
      /\ entry'[e].tag = General /\ entry'[e].sock = "down" /\ entry'[e].refs = 1
      /\ entry'[e].timer = "unset" /\ entry'[e].permit = None
      /\ PoolTyped'
  <2>1. entry'[e] = Entry(General, "down", 1) /\ \A f \in Entries \ {e} : entry'[f] = entry[f]
    BY <1>2, <1>3 DEF Inv, Structure, PoolTyped
  <2>2. 1 \in 0 .. Cardinality(Users) + 1
    BY UsersFinite
  <2>3. Entry(General, "down", 1) \in EntryType
    BY <2>2 DEF Entry, EntryType
  <2>4. PoolTyped'
    BY <1>2, <1>3, <2>3 DEF Inv, Structure, PoolTyped
  <2>5. QED
    BY <2>1, <2>4 DEF Entry
<1>6. /\ pool'[General] = e /\ \A t \in Tags \ {General} : pool'[t] = pool[t]
      /\ \A t \in Tags : pool[t] # e
      /\ \A u \in Users : user[u].entry # e
  BY <1>2, <1>3 DEF Inv, Structure, PoolTyped, Dead
<1>7. Structure'
  BY <1>1, <1>4, <1>5 DEF Inv, Structure, UsersTyped, Placed
<1>8. \A u \in Users : UserAccount(u)'
  <2> SUFFICES ASSUME NEW u \in Users PROVE UserAccount(u)'
    OBVIOUS
  <2>1. user[u].entry # None => user[u].entry \in Entries \ {e}
    BY <1>6 DEF Inv, Structure, UsersTyped
  <2>2. user[u].tag \in torn' \/ pool'[user[u].tag] = pool[user[u].tag]
    BY <1>3, <1>6 DEF Inv, Structure, UsersTyped
  <2>3. QED
    BY <1>1, <1>3, <1>5, <2>1, <2>2, UserKept
<1>9. \A f \in Entries : EntryAccount(f)'
  <2>1. ASSUME NEW f \in Entries PROVE UsersOf(f)' = UsersOf(f) /\ Cardinality(UsersOf(f)) \in Nat
    BY <1>1, UsersFinite DEF UsersOf, Uses
  <2>2. ASSUME NEW f \in Entries, f # e PROVE EntryAccount(f)'
    <3>1. entry[f].tag \in Tags
      BY DEF Inv, Structure, PoolTyped, EntryType
    <3>2. \/ pool'[entry[f].tag] = pool[entry[f].tag]
          \/ pool'[entry[f].tag] # f /\ entry[f].tag \in torn'
      BY <1>3, <1>6, <2>2, <3>1
    <3>3. QED
      BY <1>3, <1>5, <2>1, <2>2, <3>2, EntryKept
  <2>3. InPool(e)'
    BY <1>2, <1>3, <1>5, <2>1 DEF InPool
  <2>4. EntryAccount(e)'
    BY <1>3, <1>5, <2>3 DEF EntryAccount
  <2>5. QED
    BY <2>2, <2>4
<1>10. PoolTagged' /\ GeneralKept'
  BY <1>3, <1>5, <1>6, PoolEntry DEF PoolTagged, GeneralKept
<1>11. Created'
  BY <1>1, <1>5 DEF Inv, Account, Created
<1>12. GeneralPlain'
  BY <1>5 DEF Inv, Account, GeneralPlain
<1>13. Room'
  <2>1. \A f \in DeadOnes \ {e} : f \in DeadOnes'
    <3> SUFFICES ASSUME NEW f \in Entries, Dead(f), f # e PROVE f \in DeadOnes'
      BY DEF DeadOnes
    <3>1. entry'[f] = entry[f] /\ \A t \in Tags : pool'[t] # f
      BY <1>5, <1>6 DEF Dead
    <3>2. \A g \in Entries : entry'[g] = entry[g] \/ entry'[g].permit = None
      BY <1>5
    <3>3. QED
      BY <1>1, <3>1, <3>2, DeadKept DEF Dead
  <2>2. ReservedUsers' = ReservedUsers
    BY <1>1 DEF ReservedUsers
  <2>3. QED
    BY <1>1, <2>1, <2>2, RoomUsed DEF Inv
<1>14. QED
  BY <1>7, <1>8, <1>9, <1>10, <1>11, <1>12, <1>13 DEF Inv, Account

-----------------------------------------------------------------------------
(* Idle clients that are logged in again.                                  *)

\* A client is closed to create another one: its entry, and whatever has the
\* tag, is out of the pool, torn away unless nobody else used it.
LEMMA RecreatesInv ==
  ASSUME Inv, NEW u \in Users, NEW e \in Entries, Recreates(u, e),
         UNCHANGED reconnecting, RestTyped',
         \/ SocketsLeft /\ user[u].at = "idle" /\ pool[entry[e].tag] = e /\ entry[e].refs > 0
         \/ user[u].at = "relogin" /\ user[u].entry = e,
         entry[e].sock # "creating", entry[e].tag # General \/ General \in torn'
  PROVE  Inv'
<1> USE NoneIsNoEntry
<1>1. PICK tag \in Tags : tag = entry[e].tag
  BY DEF Inv, Structure, PoolTyped, EntryType
<1>2. /\ pool' = [pool EXCEPT ![tag] = None]
      /\ entry' = [entry EXCEPT ![e] = Removed(e)]
      /\ user' = [user EXCEPT ![u] = At("closing", tag, None)]
      /\ torn' = IF UsersOf(e) \subseteq {u} /\ pool[tag] \in {None, e}
                 THEN torn ELSE torn \cup {tag}
  BY <1>1 DEF Recreates
<1>3. /\ \A f \in Entries \ {e} : entry'[f] = entry[f]
      /\ entry'[e].tag = tag /\ entry'[e].sock = "closed"
      /\ entry'[e].timer = entry[e].timer /\ entry'[e].permit = None
      /\ PoolTyped'
  <2>1. entry'[e] = Removed(e) /\ \A f \in Entries \ {e} : entry'[f] = entry[f]
    BY <1>2 DEF Inv, Structure, PoolTyped
  <2>2. PoolTyped'
    BY <1>2, RemovedIs DEF Inv, Structure, PoolTyped
  <2>3. QED
    BY <1>1, <2>1, <2>2, RemovedIs DEF Inv, Structure
<1>4. \A f \in Entries :
        entry'[f].tag = entry[f].tag /\ (entry'[f].sock = "creating" <=> entry[f].sock = "creating")
  BY <1>1, <1>3
<1>5. /\ pool'[tag] = None /\ \A t \in Tags \ {tag} : pool'[t] = pool[t]
      /\ torn \subseteq torn' /\ \A t \in Tags \ {tag} : t \in torn' => t \in torn
  BY <1>2 DEF Inv, Structure, PoolTyped
<1>6. /\ \A v \in Users \ {u} : user'[v] = user[v]
      /\ user'[u].at = "closing" /\ user'[u].tag = tag /\ user'[u].entry = None
      /\ UsersTyped'
  BY <1>2 DEF Inv, Structure, UsersTyped, At, Using
<1>7. Placed'
  BY <1>6 DEF Inv, Structure, Placed, Using
<1>8. Structure'
  BY <1>3, <1>6, <1>7 DEF Structure
<1>9. user[u].entry \in {None, e} /\ user[u].at # "creating"
  BY DEF Inv, Structure, Placed, Using
<1>10. \A f \in Entries \ {e} : UsersOf(f)' = UsersOf(f)
  BY <1>6, <1>7, <1>9, OneUserMoves DEF Inv, Structure
\* If nothing is torn away, the only user there may have been is u.
<1>11. ASSUME tag \notin torn'
       PROVE  /\ pool[tag] \in {None, e} /\ tag \notin torn
              /\ \A v \in Users \ {u} : user[v].entry # None => user[v].tag # tag
              /\ user[u].at = "relogin" => user[u].entry = e /\ e = pool[tag]
  <2>1. UsersOf(e) \subseteq {u} /\ pool[tag] \in {None, e} /\ tag \notin torn
    BY <1>2, <1>11
  <2>2. ASSUME NEW v \in Users, v # u, user[v].entry # None, user[v].tag = tag PROVE FALSE
    <3>1. user[v].entry = e
      BY <2>1, <2>2 DEF Inv, Account, UserAccount
    <3>2. v \in UsersOf(e)
      BY <3>1, UsersAre DEF Inv, Structure
    <3>3. QED
      BY <2>1, <2>2, <3>2
  <2>3. user[u].at = "relogin" => user[u].entry = e /\ e = pool[tag]
    BY <1>1, <2>1 DEF Inv, Account, UserAccount
  <2>4. QED
    BY <2>1, <2>2, <2>3
<1>12. \A v \in Users : UserAccount(v)'
  <2>1. ASSUME NEW v \in Users, v # u PROVE UserAccount(v)'
    <3>1. user'[v] = user[v] /\ (user[v].entry # None => user[v].entry \in Entries)
      BY <1>6, <2>1 DEF Inv, Structure, UsersTyped
    <3>2. user[v].entry # None => user[v].tag \in torn' \/ pool'[user[v].tag] = pool[user[v].tag]
      <4>1. user[v].tag \in Tags
        BY DEF Inv, Structure, UsersTyped
      <4>2. QED
        BY <1>5, <1>11, <2>1, <4>1
    <3>3. QED
      BY <1>4, <1>5, <3>1, <3>2, UserKept
  <2>2. UserAccount(u)'
    BY <1>6 DEF UserAccount
  <2>3. QED
    BY <2>1, <2>2
<1>13. \A f \in Entries : EntryAccount(f)'
  <2>1. General \in torn' \/ pool'[General] = pool[General]
    BY <1>1, <1>5, GeneralTag
  <2>2. ASSUME NEW f \in Entries, f # e PROVE EntryAccount(f)'
    <3>1. entry[f].tag \in Tags
      BY DEF Inv, Structure, PoolTyped, EntryType
    <3>2. \/ pool'[entry[f].tag] = pool[entry[f].tag]
          \/ pool'[entry[f].tag] # f /\ pool[entry[f].tag] # f
          \/ pool'[entry[f].tag] # f /\ entry[f].tag \in torn'
      BY <1>5, <1>11, <2>2, <3>1
    <3>3. QED
      BY <1>3, <1>5, <1>10, <2>1, <2>2, <3>2, EntryKept
  <2>3. EntryAccount(e)'
    \* Its idle timer was stopped by the acquire of u.
    <3>1. tag \notin torn' => entry[e].timer # "armed"
      <4> SUFFICES ASSUME tag \notin torn', entry[e].timer = "armed" PROVE FALSE
        OBVIOUS
      <4>1. UsersOf(e) = {} /\ pool[tag] = e /\ tag \notin torn /\ tag # General
        BY <1>1, <1>11, GeneralTag DEF Inv, Account, EntryAccount, GeneralPlain
      <4>2. user[u].entry # e
        BY <4>1, UsersAre DEF Inv, Structure
      <4>3. InPool(e) /\ Cardinality(UsersOf(e)) = 0
        BY <1>1, <4>1, FS_EmptySet DEF Inv, Account, EntryAccount
      <4>4. entry[e].refs = 0
        BY <1>1, <4>1, <4>3 DEF InPool
      <4>5. QED
        BY <4>2, <4>4
    <3>2. QED
      BY <1>3, <1>5, <3>1 DEF EntryAccount
  <2>4. QED
    BY <2>2, <2>3
<1>14. PoolTagged'
  <2> SUFFICES ASSUME NEW t \in Tags, pool'[t] # None PROVE entry'[pool'[t]].tag = t
    BY DEF PoolTagged
  <2>1. pool'[t] = pool[t]
    BY <1>5
  <2>2. pool[t] \in Entries /\ entry[pool[t]].tag = t
    BY <2>1, PoolEntry
  <2>3. QED
    BY <1>4, <2>1, <2>2
<1>15. Created'
  <2>1. \A f \in Entries : entry'[f].sock = "creating" =>
          \E v \in Users : user'[v].at = "creating" /\ user'[v].entry = f
    <3> SUFFICES ASSUME NEW f \in Entries, entry'[f].sock = "creating"
                 PROVE  \E v \in Users : user'[v].at = "creating" /\ user'[v].entry = f
      OBVIOUS
    <3>1. PICK v \in Users : user[v].at = "creating" /\ user[v].entry = f
      BY <1>4 DEF Inv, Account, Created
    <3>2. v # u
      BY <1>9, <3>1
    <3>3. QED
      BY <1>6, <3>1, <3>2
  <2>2. \A v, w \in Users : /\ user'[v].at = "creating" /\ user'[w].at = "creating"
                           /\ user'[v].entry = user'[w].entry => v = w
    BY <1>6 DEF Inv, Account, Created
  <2>3. QED
    BY <2>1, <2>2 DEF Created
<1>16. GeneralPlain'
  <2>1. \A f \in Entries : entry'[f].timer = entry[f].timer /\ entry'[f].permit \in {entry[f].permit, None}
    BY <1>3
  <2>2. QED
    BY <1>4, <2>1 DEF Inv, Account, GeneralPlain
<1>17. GeneralKept'
  <2> SUFFICES ASSUME General \notin torn' PROVE GeneralKept'
    BY DEF GeneralKept
  <2>1. tag # General /\ pool'[General] = pool[General] /\ General \notin torn
    BY <1>1, <1>5, GeneralTag
  <2>2. /\ pool[General] # None /\ entry[pool[General]].sock # "creating"
        /\ \A v \in Users : user[v].tag = General => user[v].at \in {"idle", "holding"}
        /\ pool[General] \in Entries
    BY <2>1, PoolEntry, GeneralTag DEF Inv, Account, GeneralKept
  <2>3. QED
    BY <1>4, <1>6, <2>1, <2>2 DEF GeneralKept
<1>18. Room'
  <2>1. \A f \in DeadOnes : f \in DeadOnes'
    <3> SUFFICES ASSUME NEW f \in Entries, Dead(f) PROVE f \in DeadOnes'
      BY DEF DeadOnes
    <3>1. f # e
      BY <1>1 DEF Dead
    <3>2. \A v \in Users : user'[v].entry # f
      BY <1>6 DEF Dead
    <3>3. entry'[f] = entry[f] /\ \A t \in Tags : pool'[t] # f
      BY <1>3, <1>5, <3>1 DEF Dead
    <3>4. \A g \in Entries : entry'[g] = entry[g] \/ entry'[g].permit = None
      BY <1>3
    <3>5. QED
      BY <3>2, <3>3, <3>4, DeadKept DEF Dead
  <2>2. ReservedUsers' \subseteq ReservedUsers \cup {u}
    BY <1>6 DEF ReservedUsers
  <2>3. user[u].at = "relogin" => ReservedUsers' \subseteq ReservedUsers
    BY <1>6 DEF ReservedUsers
  <2>4. QED
    BY <2>1, <2>2, <2>3, RoomKept, RoomPromised DEF Inv
<1>19. QED
  BY <1>8, <1>12, <1>13, <1>14, <1>15, <1>16, <1>17, <1>18 DEF Inv, Account

LEMMA PreemptInv ==
  ASSUME Inv, NEW u \in Users, NEW tag \in Tags, Preempt(u, tag) PROVE Inv'
<1>1. PICK e \in Entries :
        /\ e = pool[tag] /\ entry[e].sock # "creating" /\ entry[e].refs > 0
        /\ SocketsLeft /\ Asks(u) /\ Recreates(u, e) /\ Kind(tag) = "replay"
  BY NoneIsNoEntry DEF Preempt, Pending, Inv, Structure, PoolTyped
<1>2. entry[e].tag = tag /\ tag # General
  BY <1>1, PoolEntry, NoneIsNoEntry, GeneralTag
<1>3. user[u].at = "idle" /\ UNCHANGED reconnecting
  BY <1>1, AskIs DEF Idle
<1>4. RestTyped'
  <2>1. torn' \subseteq Tags
    BY <1>1, <1>2 DEF Recreates, Inv, Structure, RestTyped
  <2>2. QED
    BY <1>1, <2>1, AskIs
<1>5. QED
  BY <1>1, <1>2, <1>3, <1>4, RecreatesInv

\* The idle client is logged in.  The permit of an entry that an idle timer has
\* closed meanwhile counts again: that is the number the consumer had reserved.
LEMMA LoggedInAgainInv ==
  ASSUME Inv, NEW u \in Users, user[u].at = "relogin", NEW e \in Entries, e = user[u].entry,
         entry' = [entry EXCEPT ![e].sock = "up"], user' = [user EXCEPT ![u].at = "holding"],
         UNCHANGED <<pool, torn, cool, others>>
  PROVE  Inv'
<1> USE NoneIsNoEntry
<1>1. /\ \A f \in Entries \ {e} : entry'[f] = entry[f]
      /\ entry'[e].sock = "up"
      /\ PoolTyped'
  BY DEF Inv, Structure, PoolTyped, EntryType
<1>2. \A f \in Entries :
        /\ entry'[f].tag = entry[f].tag /\ entry'[f].refs = entry[f].refs
        /\ entry'[f].timer = entry[f].timer /\ entry'[f].permit = entry[f].permit
  BY DEF Inv, Structure, PoolTyped, EntryType
<1>3. entry[e].sock # "creating" /\ entry[e].tag = user[u].tag
  BY DEF Inv, Account, UserAccount
<1>4. /\ \A v \in Users \ {u} : user'[v] = user[v]
      /\ user'[u].at = "holding" /\ user'[u].tag = user[u].tag /\ user'[u].entry = e
      /\ UsersTyped'
  BY DEF Inv, Structure, UsersTyped, Using
<1>5. Placed'
  BY <1>4 DEF Inv, Structure, Placed, Using
<1>6. Structure'
  BY <1>1, <1>4, <1>5 DEF Inv, Structure, RestTyped, others
<1>7. \A f \in Entries : UsersOf(f)' = UsersOf(f)
  BY <1>4, <1>5, OneUserMoves DEF Inv, Structure
<1>8. \A v \in Users : UserAccount(v)'
  <2>1. ASSUME NEW v \in Users, v # u PROVE UserAccount(v)'
    <3>1. user'[v] = user[v] /\ (user[v].entry # None => user[v].entry \in Entries)
      BY <1>4, <2>1 DEF Inv, Structure, UsersTyped
    <3>2. \A f \in Entries : entry'[f].sock = "creating" <=> entry[f].sock = "creating"
      BY <1>1, <1>3
    <3>3. QED
      BY <1>2, <3>1, <3>2, UserKept
  <2>2. UserAccount(u)'
    BY <1>1, <1>2, <1>3, <1>4 DEF Inv, Account, UserAccount
  <2>3. QED
    BY <2>1, <2>2
<1>9. \A f \in Entries : EntryAccount(f)'
  <2>1. ASSUME NEW f \in Entries, f # e PROVE EntryAccount(f)'
    BY <1>1, <1>7, <2>1, EntryKept
  <2>2. EntryAccount(e) /\ UsersOf(e)' = UsersOf(e)
    BY <1>7 DEF Inv, Account
  <2>3. EntryAccount(e)'
    BY <1>1, <1>2, <1>3, <2>2 DEF EntryAccount, InPool
  <2>4. QED
    BY <2>1, <2>3
<1>10. PoolTagged' /\ GeneralPlain'
  BY <1>2, PoolEntry DEF Inv, Account, PoolTagged, GeneralPlain
<1>11. Created'
  <2>1. \A f \in Entries : entry'[f].sock = "creating" =>
          \E v \in Users : user'[v].at = "creating" /\ user'[v].entry = f
    <3> SUFFICES ASSUME NEW f \in Entries, f # e, entry'[f].sock = "creating"
                 PROVE  \E v \in Users : user'[v].at = "creating" /\ user'[v].entry = f
      BY <1>1
    <3>1. PICK v \in Users : user[v].at = "creating" /\ user[v].entry = f
      BY <1>1 DEF Inv, Account, Created
    <3>2. QED
      BY <1>4, <3>1
  <2>2. \A v, w \in Users : /\ user'[v].at = "creating" /\ user'[w].at = "creating"
                           /\ user'[v].entry = user'[w].entry => v = w
    BY <1>4 DEF Inv, Account, Created
  <2>3. QED
    BY <2>1, <2>2 DEF Created
<1>12. GeneralKept'
  <2> SUFFICES ASSUME General \notin torn PROVE GeneralKept'
    BY DEF GeneralKept
  <2>1. /\ pool[General] # None /\ entry[pool[General]].sock # "creating"
        /\ \A v \in Users : user[v].tag = General => user[v].at \in {"idle", "holding"}
        /\ pool[General] \in Entries
    BY PoolEntry, GeneralTag DEF Inv, Account, GeneralKept
  <2>2. QED
    BY <1>1, <1>4, <2>1 DEF GeneralKept
<1>13. Room'
  <2>1. \A f \in DeadOnes \ {entry[e].permit} : f \in DeadOnes'
    <3> SUFFICES ASSUME NEW f \in Entries, Dead(f), f # entry[e].permit PROVE f \in DeadOnes'
      BY DEF DeadOnes
    <3>1. f # e
      BY DEF Dead
    <3>2. \A v \in Users : user'[v].entry # f
      BY <1>4, <3>1 DEF Dead
    <3>3. \A g \in Entries : g = e \/ entry'[g] = entry[g]
      BY <1>1
    <3>4. entry'[e].permit # f
      BY <1>2
    <3>5. QED
      BY <3>1, <3>2, <3>3, <3>4, DeadKept DEF Dead
  <2>2. u \in ReservedUsers /\ ReservedUsers' \subseteq ReservedUsers \ {u}
    BY <1>4 DEF ReservedUsers
  <2>3. QED
    BY <2>1, <2>2, RoomUsed DEF Inv, others
<1>14. QED
  BY <1>6, <1>8, <1>9, <1>10, <1>11, <1>12, <1>13 DEF Inv, Account

LEMMA ReloginInv ==
  ASSUME Inv, NEW u \in Users, Relogin(u) PROVE Inv'
<1>1. PICK e \in Entries : e = user[u].entry
  BY NoneIsNoEntry DEF Relogin, Inv, Structure, UsersTyped, Placed, Using
<1>2. user[u].at = "relogin" /\ UNCHANGED <<cool, others>>
  BY DEF Relogin
<1>3. CASE /\ entry' = [entry EXCEPT ![e].sock = "up"]
           /\ user' = [user EXCEPT ![u].at = "holding"]
           /\ UNCHANGED <<pool, torn>>
  BY <1>1, <1>2, <1>3, LoggedInAgainInv
<1>4. CASE Recreates(u, e)
  <2>1. entry[e].sock # "creating" /\ entry[e].tag = user[u].tag /\ entry[e].tag \in Tags
    BY <1>1, <1>2, NoneIsNoEntry DEF Inv, Account, UserAccount, Structure, UsersTyped
  <2>2. RestTyped'
    BY <1>2, <1>4, <2>1 DEF Recreates, others, Inv, Structure, RestTyped
  <2>3. entry[e].tag # General \/ General \in torn'
    BY <1>2, <1>4, <2>1 DEF Recreates, Inv, Account, GeneralKept
  <2>4. QED
    BY <1>1, <1>2, <1>4, <2>1, <2>2, <2>3, RecreatesInv DEF others
<1>5. QED
  BY <1>1, <1>3, <1>4 DEF Relogin

-----------------------------------------------------------------------------
(* First logins.                                                           *)

LEMMA LoggedInEntry ==
  ASSUME NEW r \in EntryType, NEW n \in 0 .. Cardinality(Users) + 1, NEW permit \in Sockets
  PROVE  [r EXCEPT !.sock = "up", !.refs = n, !.permit = permit] \in EntryType
BY DEF EntryType

LEMMA LoginDoneInv ==
  ASSUME Inv, NEW u \in Users, LoginDone(u) PROVE Inv'
<1> USE NoneIsNoEntry
<1>1. user[u].at = "creating"
  BY DEF LoginDone
<1>2. PICK e \in Entries : e = user[u].entry
  BY <1>1 DEF Inv, Structure, UsersTyped, Placed, Using
<1>3. PICK permit \in Sockets :
        /\ permit = IF user[u].tag = General \/ pool[General] = None THEN None
                    ELSE IF entry[pool[General]].sock = "creating" THEN None ELSE pool[General]
        /\ entry' = [entry EXCEPT ![e].sock = "up", ![e].refs = Cardinality(UsersOf(e)),
                                 ![e].permit = permit]
  BY <1>2, GeneralTag DEF LoginDone, Pending, Counted, Inv, Structure, PoolTyped
<1>4. /\ user' = [v \in Users |-> IF v \in UsersOf(e) THEN [user[v] EXCEPT !.at = "holding"]
                                ELSE user[v]]
      /\ UNCHANGED <<pool, others, torn>>
  BY <1>2 DEF LoginDone, Await
<1>5. cool' \in [fails : 0 .. StormThreshold, blocked : BOOLEAN]
  BY DEF LoginDone, NoCooldown, StormThreshold, Inv, Structure, RestTyped
<1>6. UsersOf(e) = {v \in Users : user[v].entry = e} /\ u \in UsersOf(e)
  BY <1>2, UsersAre DEF Inv, Structure
<1>7. /\ entry[e].sock = "creating" /\ entry[e].tag = user[u].tag /\ entry[e].tag \in Tags
      /\ entry[e].tag \notin torn => pool[entry[e].tag] = e
      /\ EntryAccount(e)
  BY <1>1, <1>2 DEF Inv, Account, UserAccount, Structure, UsersTyped
<1>8. entry[e].tag = General => General \in torn
  BY <1>1, <1>7 DEF Inv, Account, GeneralKept
<1>9. /\ Cardinality(UsersOf(e)) \in 0 .. Cardinality(Users) + 1
      /\ Cardinality(UsersOf(e)) \in Nat
  BY UsersFinite DEF UsersOf
<1>10. /\ \A f \in Entries \ {e} : entry'[f] = entry[f]
       /\ entry'[e].tag = entry[e].tag /\ entry'[e].timer = entry[e].timer
       /\ entry'[e].sock = "up" /\ entry'[e].refs = Cardinality(UsersOf(e))
       /\ entry'[e].permit = permit
  BY <1>3 DEF Inv, Structure, PoolTyped, EntryType
<1>11. PoolTyped'
  <2>1. entry[e] \in EntryType
    BY DEF Inv, Structure, PoolTyped
  <2>2. entry'[e] = [entry[e] EXCEPT !.sock = "up", !.refs = Cardinality(UsersOf(e)),
                                    !.permit = permit]
    BY <1>3 DEF Inv, Structure, PoolTyped
  <2>3. [entry[e] EXCEPT !.sock = "up", !.refs = Cardinality(UsersOf(e)), !.permit = permit]
          \in EntryType
    BY <1>9, <2>1, LoggedInEntry, Zenon
  <2>4. entry'[e] \in EntryType
    BY <2>2, <2>3, Zenon
  <2>5. QED
    BY <1>3, <1>4, <2>4 DEF Inv, Structure, PoolTyped
<1>12. /\ \A v \in Users : user'[v].tag = user[v].tag /\ user'[v].entry = user[v].entry
       /\ \A v \in UsersOf(e) : user'[v].at = "holding" /\ user[v].entry = e
       /\ \A v \in Users \ UsersOf(e) : user'[v] = user[v] /\ user[v].entry # e
  BY <1>4, <1>6 DEF Inv, Structure, UsersTyped
<1>13. UsersTyped'
  <2>1. \A v \in Users : user'[v] \in [at : Using \cup {"idle", "closing"}, tag : Tags, entry : Sockets]
    BY <1>4 DEF Inv, Structure, UsersTyped, Using
  <2>2. QED
    BY <1>4, <2>1 DEF UsersTyped
<1>14. Placed'
  BY <1>6, <1>12 DEF Inv, Structure, Placed, Using
<1>15. Structure'
  BY <1>4, <1>5, <1>11, <1>13, <1>14 DEF Inv, Structure, RestTyped, others
<1>16. \A f \in Entries : UsersOf(f)' = UsersOf(f)
  <2> SUFFICES ASSUME NEW f \in Entries PROVE UsersOf(f)' = UsersOf(f)
    OBVIOUS
  <2>1. UsersOf(f) = {v \in Users : user[v].entry = f}
    BY UsersAre DEF Inv, Structure
  <2>2. UsersOf(f)' = {v \in Users : user'[v].entry = f}
    BY <1>13, <1>14, UsersAre
  <2>3. QED
    BY <1>12, <2>1, <2>2
<1>17. \A v \in Users : UserAccount(v)'
  <2>1. ASSUME NEW v \in Users, v \notin UsersOf(e) PROVE UserAccount(v)'
    <3>1. user'[v] = user[v] /\ (user[v].entry # None => user[v].entry \in Entries \ {e})
      BY <1>12, <2>1 DEF Inv, Structure, UsersTyped
    <3>2. QED
      BY <1>4, <1>10, <3>1, UserKept
  <2>2. ASSUME NEW v \in Users, v \in UsersOf(e) PROVE UserAccount(v)'
    <3>1. entry[e].tag = user[v].tag /\ (user[v].tag \notin torn => pool[user[v].tag] = e)
      BY <1>12, <2>2 DEF Inv, Account, UserAccount
    <3>2. user'[v].at = "holding" /\ user'[v].entry = e /\ user'[v].tag = user[v].tag
      BY <1>12, <2>2
    <3>3. QED
      BY <1>4, <1>10, <3>1, <3>2 DEF UserAccount
  <2>3. QED
    BY <2>1, <2>2
<1>18. \A f \in Entries : EntryAccount(f)'
  <2>1. ASSUME NEW f \in Entries, f # e PROVE EntryAccount(f)'
    BY <1>4, <1>10, <1>16, <2>1, EntryKept
  <2>2. UsersOf(e)' = UsersOf(e) /\ UsersOf(e) # {}
    BY <1>6, <1>16
  <2>3. pool[entry[e].tag] = e => InPool(e)'
    BY <1>4, <1>7, <1>8, <1>9, <1>10, <2>2 DEF EntryAccount, InPool
  <2>4. Kind(entry[e].tag) = "streaming" /\ entry[e].tag \notin torn /\ General \notin torn =>
          permit = pool[General] /\ pool[entry[e].tag] = e
    BY <1>3, <1>7, GeneralTag DEF Inv, Account, GeneralKept
  <2>5. entry[e].tag \notin torn => entry[e].timer # "armed"
    BY <1>7, <2>2 DEF EntryAccount
  <2>6. EntryAccount(e)'
    BY <1>4, <1>10, <2>3, <2>4, <2>5 DEF EntryAccount
  <2>7. QED
    BY <2>1, <2>6
<1>19. PoolTagged'
  <2>1. \A f \in Entries : entry'[f].tag = entry[f].tag
    BY <1>10
  <2>2. QED
    BY <1>4, <2>1, PoolEntry DEF PoolTagged
<1>20. GeneralPlain'
  <2>1. entry[e].tag = General => permit = None
    BY <1>3, <1>7
  <2>2. QED
    BY <1>10, <2>1 DEF Inv, Account, GeneralPlain
<1>21. Created'
  <2>1. \A f \in Entries : entry'[f].sock = "creating" =>
          \E v \in Users : user'[v].at = "creating" /\ user'[v].entry = f
    <3> SUFFICES ASSUME NEW f \in Entries, f # e, entry'[f].sock = "creating"
                 PROVE  \E v \in Users : user'[v].at = "creating" /\ user'[v].entry = f
      BY <1>10
    <3>1. PICK v \in Users : user[v].at = "creating" /\ user[v].entry = f
      BY <1>10 DEF Inv, Account, Created
    <3>2. QED
      BY <1>12, <3>1
  <2>2. \A v, w \in Users : /\ user'[v].at = "creating" /\ user'[w].at = "creating"
                           /\ user'[v].entry = user'[w].entry => v = w
    BY <1>12 DEF Inv, Account, Created
  <2>3. QED
    BY <2>1, <2>2 DEF Created
<1>22. GeneralKept'
  <2> SUFFICES ASSUME General \notin torn PROVE GeneralKept'
    BY <1>4 DEF GeneralKept
  <2>1. /\ pool[General] # None /\ entry[pool[General]].sock # "creating"
        /\ \A v \in Users : user[v].tag = General => user[v].at \in {"idle", "holding"}
        /\ pool[General] \in Entries
    BY PoolEntry, GeneralTag DEF Inv, Account, GeneralKept
  <2>2. pool'[General] # None /\ entry'[pool'[General]].sock # "creating"
    BY <1>4, <1>10, <2>1
  <2>3. \A v \in Users : user'[v].tag = General => user'[v].at \in {"idle", "holding"}
    BY <1>12, <2>1
  <2>4. QED
    BY <2>2, <2>3 DEF GeneralKept
<1>23. Room'
  <2>1. \A f \in DeadOnes : f \in DeadOnes'
    <3> SUFFICES ASSUME NEW f \in Entries, Dead(f) PROVE f \in DeadOnes'
      BY DEF DeadOnes
    <3>1. f # e /\ f # permit
      BY <1>2, <1>3, GeneralTag DEF Dead
    <3>2. \A v \in Users : user'[v].entry # f
      BY <1>12 DEF Dead
    <3>3. \A g \in Entries : entry'[g] = entry[g] \/ entry'[g].permit # f
      BY <1>10, <3>1
    <3>4. QED
      BY <1>4, <1>10, <3>1, <3>2, <3>3, DeadKept DEF Dead
  <2>2. ReservedUsers' \subseteq ReservedUsers
    BY <1>12 DEF ReservedUsers
  <2>3. QED
    BY <1>4, <2>1, <2>2, RoomKept DEF Inv, others
<1>24. QED
  BY <1>15, <1>17, <1>18, <1>19, <1>20, <1>21, <1>22, <1>23 DEF Inv, Account

LEMMA LoginFailedInv ==
  ASSUME Inv, NEW u \in Users, LoginFailed(u) PROVE Inv'
<1> USE NoneIsNoEntry
<1>1. user[u].at = "creating"
  BY DEF LoginFailed
<1>2. PICK e \in Entries : e = user[u].entry
  BY <1>1 DEF Inv, Structure, UsersTyped, Placed, Using
<1>3. PICK tag \in Tags : tag = user[u].tag
  BY DEF Inv, Structure, UsersTyped
<1>4. /\ pool' = [pool EXCEPT ![tag] = None]
      /\ entry' = [entry EXCEPT ![e].sock = "closed"]
      /\ user' = [v \in Users |-> IF v \in UsersOf(e) THEN Idle ELSE user[v]]
      /\ torn' = IF pool[tag] \in {None, e} THEN torn ELSE torn \cup {tag}
      /\ UNCHANGED others
  BY <1>2, <1>3 DEF LoginFailed, Await
<1>5. cool' \in [fails : 0 .. StormThreshold, blocked : BOOLEAN]
  BY DEF LoginFailed, StormThreshold, FailureThreshold, Inv, Structure, RestTyped
<1>6. UsersOf(e) = {v \in Users : user[v].entry = e} /\ u \in UsersOf(e)
  BY <1>2, UsersAre DEF Inv, Structure
<1>7. /\ entry[e].sock = "creating" /\ entry[e].tag = tag
      /\ EntryAccount(e)
  BY <1>1, <1>2, <1>3 DEF Inv, Account, UserAccount
<1>8. tag = General => General \in torn
  BY <1>1, <1>3 DEF Inv, Account, GeneralKept
<1>9. /\ \A f \in Entries \ {e} : entry'[f] = entry[f]
      /\ entry'[e].tag = tag /\ entry'[e].timer = entry[e].timer
      /\ entry'[e].sock = "closed" /\ entry'[e].permit = entry[e].permit
      /\ PoolTyped'
  BY <1>4, <1>7 DEF Inv, Structure, PoolTyped, EntryType
<1>10. /\ pool'[tag] = None /\ \A t \in Tags \ {tag} : pool'[t] = pool[t]
       /\ torn \subseteq torn' /\ \A t \in Tags \ {tag} : t \in torn' => t \in torn
       /\ tag \notin torn' => pool[tag] \in {None, e} /\ tag \notin torn
  BY <1>4 DEF Inv, Structure, PoolTyped
<1>11. /\ \A v \in UsersOf(e) : user'[v] = Idle
       /\ \A v \in Users \ UsersOf(e) : user'[v] = user[v] /\ user[v].entry # e
  BY <1>4, <1>6
<1>12. Idle \in [at : {"idle"}, tag : Tags, entry : {None}] /\ None \in Sockets
  BY GeneralTag DEF Idle
<1>13. UsersTyped'
  BY <1>4, <1>12 DEF Inv, Structure, UsersTyped
<1>14. Placed'
  BY <1>11, <1>12 DEF Inv, Structure, Placed, Using
<1>15. Structure'
  <2>1. torn' \subseteq Tags
    BY <1>4 DEF Inv, Structure, RestTyped
  <2>2. QED
    BY <1>4, <1>5, <1>9, <1>13, <1>14, <2>1 DEF Inv, Structure, RestTyped, others
<1>16. \A f \in Entries \ {e} : UsersOf(f)' = UsersOf(f)
  <2> SUFFICES ASSUME NEW f \in Entries, f # e PROVE UsersOf(f)' = UsersOf(f)
    OBVIOUS
  <2>1. UsersOf(f) = {v \in Users : user[v].entry = f}
    BY UsersAre DEF Inv, Structure
  <2>2. UsersOf(f)' = {v \in Users : user'[v].entry = f}
    BY <1>13, <1>14, UsersAre
  <2>3. \A v \in Users : user'[v].entry = f <=> user[v].entry = f
    BY <1>6, <1>11, <1>12
  <2>4. QED
    BY <2>1, <2>2, <2>3
<1>17. \A v \in Users : UserAccount(v)'
  <2>1. ASSUME NEW v \in Users, v \notin UsersOf(e) PROVE UserAccount(v)'
    <3>1. /\ user'[v] = user[v] /\ user[v].tag \in Tags
          /\ user[v].entry # None => user[v].entry \in Entries \ {e}
      BY <1>11, <2>1 DEF Inv, Structure, UsersTyped
    <3>2. user[v].entry # None => user[v].tag \in torn' \/ pool'[user[v].tag] = pool[user[v].tag]
      <4>1. user[v].entry # None /\ user[v].tag = tag => tag \in torn'
        BY <1>10, <3>1 DEF Inv, Account, UserAccount
      <4>2. QED
        BY <1>10, <3>1, <4>1
    <3>3. QED
      BY <1>9, <1>10, <3>1, <3>2, UserKept
  <2>2. ASSUME NEW v \in Users, v \in UsersOf(e) PROVE UserAccount(v)'
    BY <1>11, <1>12, <2>2 DEF UserAccount
  <2>3. QED
    BY <2>1, <2>2
<1>18. \A f \in Entries : EntryAccount(f)'
  <2>1. General \in torn' \/ pool'[General] = pool[General]
    BY <1>8, <1>10, GeneralTag
  <2>2. ASSUME NEW f \in Entries, f # e PROVE EntryAccount(f)'
    <3>1. entry[f].tag \in Tags
      BY DEF Inv, Structure, PoolTyped, EntryType
    <3>2. \/ pool'[entry[f].tag] = pool[entry[f].tag]
          \/ pool'[entry[f].tag] # f /\ pool[entry[f].tag] # f
          \/ pool'[entry[f].tag] # f /\ entry[f].tag \in torn'
      BY <1>10, <2>2, <3>1
    <3>3. QED
      BY <1>9, <1>10, <1>16, <2>1, <2>2, <3>2, EntryKept
  <2>3. tag \notin torn => entry[e].timer # "armed"
    BY <1>6, <1>7 DEF EntryAccount
  <2>4. Kind(tag) = "streaming" /\ tag \notin torn /\ General \notin torn => entry[e].permit = None
    BY <1>7 DEF EntryAccount
  <2>5. EntryAccount(e)'
    BY <1>9, <1>10, <2>3, <2>4 DEF EntryAccount
  <2>6. QED
    BY <2>2, <2>5
<1>19. \A f \in Entries : entry'[f].tag = entry[f].tag /\ entry'[f].permit = entry[f].permit
                         /\ entry'[f].timer = entry[f].timer
  BY <1>7, <1>9
<1>20. PoolTagged'
  <2> SUFFICES ASSUME NEW t \in Tags, pool'[t] # None PROVE entry'[pool'[t]].tag = t
    BY DEF PoolTagged
  <2>1. pool'[t] = pool[t]
    BY <1>10
  <2>2. QED
    BY <1>19, <2>1, PoolEntry
<1>21. GeneralPlain'
  BY <1>19 DEF Inv, Account, GeneralPlain
<1>22. Created'
  <2>1. \A f \in Entries : entry'[f].sock = "creating" =>
          \E v \in Users : user'[v].at = "creating" /\ user'[v].entry = f
    <3> SUFFICES ASSUME NEW f \in Entries, f # e, entry'[f].sock = "creating"
                 PROVE  \E v \in Users : user'[v].at = "creating" /\ user'[v].entry = f
      BY <1>9
    <3>1. PICK v \in Users : user[v].at = "creating" /\ user[v].entry = f
      BY <1>9 DEF Inv, Account, Created
    <3>2. v \notin UsersOf(e)
      BY <1>6, <3>1
    <3>3. QED
      BY <1>11, <3>1, <3>2
  <2>2. \A v, w \in Users : /\ user'[v].at = "creating" /\ user'[w].at = "creating"
                           /\ user'[v].entry = user'[w].entry => v = w
    BY <1>11, <1>12 DEF Inv, Account, Created
  <2>3. QED
    BY <2>1, <2>2 DEF Created
<1>23. GeneralKept'
  <2> SUFFICES ASSUME General \notin torn' PROVE GeneralKept'
    BY DEF GeneralKept
  <2>1. tag # General /\ pool'[General] = pool[General] /\ General \notin torn
    BY <1>8, <1>10, GeneralTag
  <2>2. /\ pool[General] # None /\ entry[pool[General]].sock # "creating"
        /\ \A v \in Users : user[v].tag = General => user[v].at \in {"idle", "holding"}
        /\ pool[General] \in Entries
    BY <2>1, PoolEntry, GeneralTag DEF Inv, Account, GeneralKept
  <2>3. entry'[pool'[General]].sock # "creating"
    BY <1>9, <2>1, <2>2
  <2>4. \A v \in Users : user'[v].tag = General => user'[v].at \in {"idle", "holding"}
    BY <1>11, <1>12, <2>2
  <2>5. QED
    BY <2>1, <2>2, <2>3, <2>4 DEF GeneralKept
<1>24. Room'
  <2>1. \A f \in DeadOnes : f \in DeadOnes'
    <3> SUFFICES ASSUME NEW f \in Entries, Dead(f) PROVE f \in DeadOnes'
      BY DEF DeadOnes
    <3>1. f # e
      BY <1>2 DEF Dead
    <3>2. \A v \in Users : user'[v].entry # f
      BY <1>11, <1>12 DEF Dead
    <3>3. \A g \in Entries : entry'[g] = entry[g] \/ entry'[g].sock = "closed"
      BY <1>9
    <3>4. entry'[f] = entry[f] /\ \A t \in Tags : pool'[t] # f
      BY <1>9, <1>10, <3>1 DEF Dead
    <3>5. QED
      BY <3>1, <3>2, <3>3, <3>4, DeadKept
  <2>2. ReservedUsers' \subseteq ReservedUsers
    BY <1>11, <1>12 DEF ReservedUsers
  <2>3. QED
    BY <1>4, <2>1, <2>2, RoomKept DEF Inv, others
<1>25. QED
  BY <1>15, <1>17, <1>18, <1>20, <1>21, <1>22, <1>23, <1>24 DEF Inv, Account

-----------------------------------------------------------------------------
(* Releases and idle timers.                                               *)

\* A release acts on the entry that has the tag now.
LEMMA ReleaseInv ==
  ASSUME Inv, NEW u \in Users, Release(u) PROVE Inv'
<1> USE NoneIsNoEntry
<1>1. PICK tag \in Tags : tag = user[u].tag
  BY DEF Inv, Structure, UsersTyped
<1>2. PICK x \in Entries : x = user[u].entry
  BY DEF Release, Inv, Structure, UsersTyped, Placed, Using
<1>3. PICK e \in Sockets : e = pool[tag]
  BY DEF Inv, Structure, PoolTyped
<1>4. /\ user[u].at = "holding"
      /\ entry' = IF e = None THEN entry ELSE [entry EXCEPT ![e] = ReleasedEntry(e)]
      /\ user' = [user EXCEPT ![u] = Idle]
      /\ UNCHANGED <<pool, cool, others, torn>>
  BY <1>1, <1>3 DEF Release
<1>5. /\ entry[x].tag = tag /\ entry[x].sock # "creating"
      /\ tag \notin torn => x = e
      /\ e # None => entry[e].tag = tag
  BY <1>1, <1>2, <1>3, <1>4, PoolEntry DEF Inv, Account, UserAccount
<1> DEFINE refs == Less(entry[e].refs)
           arms == refs = 0 /\ Kind(tag) # "general" /\ entry[e].timer = "unset"
           timer == IF arms THEN "armed" ELSE entry[e].timer
<1>6. /\ \A f \in Entries \ {e} : entry'[f] = entry[f]
      /\ e # None => /\ entry'[e].tag = tag /\ entry'[e].sock = entry[e].sock
                     /\ entry'[e].permit = entry[e].permit
                     /\ entry'[e].refs = refs /\ entry'[e].timer = timer
      /\ PoolTyped'
  <2>1. CASE e = None
    BY <1>4, <2>1 DEF Inv, Structure, PoolTyped
  <2>2. CASE e # None
    <3>1. entry[e] \in EntryType /\ e \in Entries
      BY <2>2 DEF Inv, Structure, PoolTyped
    <3>2. ReleasedEntry(e) = [entry[e] EXCEPT !.timer = timer, !.refs = refs]
      BY <1>5, <2>2, <3>1 DEF ReleasedEntry, EntryType
    <3>3. refs \in 0 .. Cardinality(Users) + 1
      BY <3>1, UsersFinite DEF Less, EntryType
    <3>4. timer \in {"unset", "armed", "fired"}
      BY <3>1 DEF EntryType
    <3> HIDE DEF refs, timer
    <3>5. [entry[e] EXCEPT !.timer = timer, !.refs = refs] \in EntryType
      BY <3>1, <3>3, <3>4, EntryChanged, Zenon
    <3>6. PoolTyped'
      BY <1>4, <2>2, <3>1, <3>2, <3>5 DEF Inv, Structure, PoolTyped
    <3>7. entry'[e] = [entry[e] EXCEPT !.timer = timer, !.refs = refs]
      BY <1>4, <2>2, <3>1, <3>2 DEF Inv, Structure, PoolTyped
    <3>8. \A f \in Entries \ {e} : entry'[f] = entry[f]
      BY <1>4, <2>2 DEF Inv, Structure, PoolTyped
    <3>9. QED
      BY <1>5, <2>2, <3>1, <3>6, <3>7, <3>8 DEF EntryType
  <2>3. QED
    BY <2>1, <2>2
<1>7. \A f \in Entries : /\ entry'[f].tag = entry[f].tag /\ entry'[f].sock = entry[f].sock
                        /\ entry'[f].permit = entry[f].permit
  BY <1>5, <1>6
<1>8. Idle \in [at : {"idle"}, tag : Tags, entry : {None}] /\ Idle.tag = General
  BY GeneralTag DEF Idle
<1>9. /\ \A v \in Users \ {u} : user'[v] = user[v]
      /\ user'[u] = Idle /\ user'[u].at = "idle" /\ user'[u].entry = None
      /\ UsersTyped'
  BY <1>4, <1>8 DEF Inv, Structure, UsersTyped
<1>10. Placed'
  BY <1>9 DEF Inv, Structure, Placed, Using
<1>11. Structure'
  BY <1>4, <1>6, <1>9, <1>10 DEF Inv, Structure, RestTyped, others
\* The entry that u had loses a user, whichever entry loses a count.
<1>12. /\ \A f \in Entries \ {x} : UsersOf(f)' = UsersOf(f)
       /\ UsersOf(x)' = UsersOf(x) \ {u} /\ u \in UsersOf(x)
       /\ Cardinality(UsersOf(x)') = Cardinality(UsersOf(x)) - 1
       /\ \A f \in Entries : Cardinality(UsersOf(f)) \in Nat /\ Cardinality(UsersOf(f)') \in Nat
                           /\ (Cardinality(UsersOf(f)') = 0 <=> UsersOf(f)' = {})
  <2>1. \A f \in Entries : Cardinality(UsersOf(f)') = 0 <=> UsersOf(f)' = {}
    BY UsersFinite DEF UsersOf
  <2>2. QED
    BY <1>2, <1>9, <1>10, <2>1, OneUserMoves DEF Inv, Structure
<1>13. \A v \in Users : UserAccount(v)'
  <2>1. ASSUME NEW v \in Users, v # u PROVE UserAccount(v)'
    <3>1. user'[v] = user[v] /\ (user[v].entry # None => user[v].entry \in Entries)
      BY <1>9, <2>1 DEF Inv, Structure, UsersTyped
    <3>2. QED
      BY <1>4, <1>7, <3>1, UserKept
  <2>2. UserAccount(u)'
    BY <1>9 DEF UserAccount
  <2>3. QED
    BY <2>1, <2>2
<1>14. \A f \in Entries : EntryAccount(f)'
  <2>1. ASSUME NEW f \in Entries, f # e, f # x PROVE EntryAccount(f)'
    BY <1>4, <1>6, <1>12, <2>1, EntryKept
  <2>2. ASSUME x # e PROVE EntryAccount(x)'
    BY <1>1, <1>3, <1>4, <1>5, <1>6, <2>2 DEF EntryAccount
  <2>3. ASSUME e # None PROVE EntryAccount(e)'
    <3>1. InPool(e) /\ EntryAccount(e) /\ e \in Entries
      BY <1>3, <1>5, <2>3 DEF Inv, Account, EntryAccount
    <3>2. entry[e].refs \in Nat /\ entry[e].timer \in {"unset", "armed", "fired"}
      BY <3>1 DEF Inv, Structure, PoolTyped, EntryType
    <3>3. PICK n \in Nat, m \in Nat :
            /\ n = Cardinality(UsersOf(e)) /\ m = Cardinality(UsersOf(e)')
            /\ m = IF x = e THEN n - 1 ELSE n
            /\ m = 0 <=> UsersOf(e)' = {}
      BY <1>12, <3>1
    <3>4. refs \in Nat /\ refs <= m + 1
      <4>1. entry[e].refs <= n + 1
        BY <3>1, <3>3 DEF InPool
      <4>2. QED
        BY <3>2, <3>3, <4>1 DEF Less
    <3>5. ASSUME tag \notin torn
          PROVE  /\ x = e /\ entry[e].timer = "unset"
                 /\ entry[e].sock # "creating"
                 /\ refs = m + (IF tag = General THEN 1 ELSE 0)
                 /\ tag # General => Kind(tag) # "general" /\ entry[e].sock # "closed"
      <4>1. x = e /\ UsersOf(e) # {} /\ entry[e].sock # "creating"
        BY <1>5, <1>12, <3>5
      <4>2. entry[e].timer = "unset"
        <5>1. entry[e].timer # "fired"
          BY <1>5, <2>3, <3>1, <3>5 DEF InPool
        <5>2. entry[e].timer # "armed"
          BY <1>5, <2>3, <3>1, <3>5, <4>1 DEF EntryAccount
        <5>3. QED
          BY <3>2, <5>1, <5>2
      <4>3. entry[e].refs = n + (IF tag = General THEN 1 ELSE 0)
        BY <1>5, <2>3, <3>1, <3>3, <3>5, <4>1 DEF InPool
      <4>4. refs = m + (IF tag = General THEN 1 ELSE 0)
        BY <3>3, <4>1, <4>3 DEF Less
      <4>5. tag # General => entry[e].sock # "closed"
        BY <1>5, <2>3, <3>1, <3>5 DEF InPool
      <4>6. tag # General => Kind(tag) # "general"
        BY GeneralTag
      <4>7. QED
        BY <4>1, <4>2, <4>4, <4>5, <4>6
    <3>6. ASSUME tag \notin torn
          PROVE  /\ timer = "armed" => UsersOf(e)' = {}
                 /\ tag # General /\ UsersOf(e)' = {} => timer = "armed"
                 /\ timer # "fired"
      BY <3>3, <3>5, <3>6, GeneralTag
    <3> HIDE DEF refs, timer
    <3>7. InPool(e)'
      BY <1>4, <1>6, <2>3, <3>3, <3>4, <3>5, <3>6 DEF InPool
    <3>8. tag \notin torn => pool[tag] = e
      BY <1>3
    <3>9. Kind(tag) = "streaming" /\ tag \notin torn /\ General \notin torn =>
            entry[e].permit = IF pool[tag] = e /\ entry[e].sock # "creating" THEN pool[General] ELSE None
      BY <1>5, <2>3, <3>1 DEF EntryAccount
    <3>10. timer = "armed" /\ tag \notin torn => UsersOf(e)' = {}
      BY <3>6
    <3>11. QED
      BY <1>4, <1>6, <2>3, <3>7, <3>8, <3>9, <3>10 DEF EntryAccount
  <2>4. QED
    BY <2>1, <2>2, <2>3
<1>15. PoolTagged'
  BY <1>4, <1>7, PoolEntry DEF PoolTagged
<1>16. GeneralPlain'
  <2>1. \A f \in Entries : entry[f].tag = General => entry'[f].timer = entry[f].timer
    <3>1. e # None /\ tag = General => timer = entry[e].timer
      BY GeneralTag
    <3>2. QED
      BY <1>5, <1>6, <3>1
  <2>2. QED
    BY <1>7, <2>1 DEF Inv, Account, GeneralPlain
<1>17. Created'
  <2>1. \A f \in Entries : entry'[f].sock = "creating" =>
          \E v \in Users : user'[v].at = "creating" /\ user'[v].entry = f
    <3> SUFFICES ASSUME NEW f \in Entries, entry'[f].sock = "creating"
                 PROVE  \E v \in Users : user'[v].at = "creating" /\ user'[v].entry = f
      OBVIOUS
    <3>1. PICK v \in Users : user[v].at = "creating" /\ user[v].entry = f
      BY <1>7 DEF Inv, Account, Created
    <3>2. v # u
      BY <1>4, <3>1
    <3>3. QED
      BY <1>9, <3>1, <3>2
  <2>2. \A v, w \in Users : /\ user'[v].at = "creating" /\ user'[w].at = "creating"
                           /\ user'[v].entry = user'[w].entry => v = w
    BY <1>9 DEF Inv, Account, Created
  <2>3. QED
    BY <2>1, <2>2 DEF Created
<1>18. GeneralKept'
  <2> SUFFICES ASSUME General \notin torn PROVE GeneralKept'
    BY <1>4 DEF GeneralKept
  <2>1. /\ pool[General] # None /\ entry[pool[General]].sock # "creating"
        /\ \A v \in Users : user[v].tag = General => user[v].at \in {"idle", "holding"}
        /\ pool[General] \in Entries
    BY PoolEntry, GeneralTag DEF Inv, Account, GeneralKept
  <2>2. entry'[pool[General]].sock # "creating"
    BY <1>7, <2>1
  <2>3. \A v \in Users : user'[v].tag = General => user'[v].at \in {"idle", "holding"}
    BY <1>9, <2>1
  <2>4. QED
    BY <1>4, <2>1, <2>2, <2>3 DEF GeneralKept
<1>19. Room'
  <2>1. \A f \in DeadOnes : f \in DeadOnes'
    <3> SUFFICES ASSUME NEW f \in Entries, Dead(f) PROVE f \in DeadOnes'
      BY DEF DeadOnes
    <3>1. f # e /\ \A t \in Tags : pool'[t] # f
      BY <1>3, <1>4 DEF Dead
    <3>2. \A v \in Users : user'[v].entry # f
      BY <1>9 DEF Dead
    <3>3. \A g \in Entries : entry'[g].sock = entry[g].sock /\ entry'[g].permit = entry[g].permit
      BY <1>7
    <3>4. QED
      BY <1>6, <3>1, <3>2, <3>3, DeadKept
  <2>2. ReservedUsers' \subseteq ReservedUsers
    BY <1>9 DEF ReservedUsers
  <2>3. QED
    BY <1>4, <2>1, <2>2, RoomKept DEF Inv, others
<1>20. QED
  BY <1>11, <1>13, <1>14, <1>15, <1>16, <1>17, <1>18, <1>19 DEF Inv, Account

\* The idle timer of an entry, that fires on the entry that has the tag.
LEMMA IdleTimerInv ==
  ASSUME Inv, NEW e \in Entries, IdleTimer(e) PROVE Inv'
<1> USE NoneIsNoEntry
<1>1. PICK tag \in Tags : tag = entry[e].tag
  BY DEF Inv, Structure, PoolTyped, EntryType
<1>2. PICK c \in Sockets : c = pool[tag]
  BY DEF Inv, Structure, PoolTyped
<1>3. entry[e].timer = "armed" /\ tag # General /\ EntryAccount(e)
  BY <1>1 DEF IdleTimer, Inv, Account, GeneralPlain
\* Unless the tag was torn away the timer is that of the entry of the pool, which
\* nobody uses.
<1>4. tag \notin torn => c = e /\ UsersOf(e) = {} /\ InPool(e) /\ entry[e].sock # "creating"
  <2> SUFFICES ASSUME tag \notin torn
               PROVE  c = e /\ UsersOf(e) = {} /\ InPool(e) /\ entry[e].sock # "creating"
    OBVIOUS
  <2>1. c = e /\ UsersOf(e) = {} /\ InPool(e)
    BY <1>1, <1>2, <1>3 DEF EntryAccount
  <2>2. UsersOf(e) = {v \in Users : user[v].entry = e}
    BY UsersAre DEF Inv, Structure
  <2>3. entry[e].sock # "creating"
    BY <2>1, <2>2 DEF Inv, Account, Created
  <2>4. QED
    BY <2>1, <2>3
<1>5. tag \notin torn => entry[e].refs = 0
  <2> SUFFICES ASSUME tag \notin torn PROVE entry[e].refs = 0
    OBVIOUS
  <2>1. UsersOf(e) = {} /\ InPool(e) /\ entry[e].sock # "creating"
    BY <1>4
  <2>2. Cardinality(UsersOf(e)) = 0
    BY <2>1, FS_EmptySet
  <2>3. entry[e].refs = 0 + (IF tag = General THEN 1 ELSE 0)
    BY <1>1, <2>1, <2>2 DEF InPool
  <2>4. QED
    BY <1>3, <2>3
<1>6. UNCHANGED <<user, cool, others, torn>>
  BY DEF IdleTimer
<1>7. \A f \in Entries : UsersOf(f)' = UsersOf(f)
  BY <1>6 DEF UsersOf, Uses
<1>8. c # None => c \in Entries /\ entry[c].tag = tag
  BY <1>2, PoolEntry
<1>9. CASE ~(c # None /\ entry[c].refs = 0)
  <2>1. pool' = pool /\ entry' = [entry EXCEPT ![e].timer = "fired"] /\ tag \in torn
    BY <1>1, <1>2, <1>4, <1>5, <1>9 DEF IdleTimer
  <2>2. /\ \A f \in Entries \ {e} : entry'[f] = entry[f]
        /\ entry'[e].timer = "fired"
        /\ PoolTyped'
    BY <2>1 DEF Inv, Structure, PoolTyped, EntryType
  <2>3. \A f \in Entries :
          /\ entry'[f].tag = entry[f].tag /\ entry'[f].sock = entry[f].sock
          /\ entry'[f].permit = entry[f].permit /\ entry'[f].refs = entry[f].refs
    BY <2>1 DEF Inv, Structure, PoolTyped, EntryType
  <2>4. Structure'
    BY <1>6, <2>2 DEF Inv, Structure, UsersTyped, RestTyped, Placed, others
  <2>5. \A v \in Users : UserAccount(v)'
    BY <1>6, <2>1, <2>3, UserKept DEF Inv, Structure, UsersTyped
  <2>6. \A f \in Entries : EntryAccount(f)'
    <3>1. ASSUME NEW f \in Entries, f # e PROVE EntryAccount(f)'
      BY <1>6, <1>7, <2>1, <2>2, <3>1, EntryKept
    <3>2. EntryAccount(e)'
      BY <1>1, <1>3, <1>6, <1>7, <2>1, <2>3 DEF EntryAccount, InPool
    <3>3. QED
      BY <3>1, <3>2
  <2>7. PoolTagged' /\ Created'
    BY <1>6, <2>1, <2>3, PoolEntry DEF Inv, Account, PoolTagged, Created
  <2>8. GeneralPlain'
    BY <1>1, <1>3, <2>2, <2>3 DEF Inv, Account, GeneralPlain
  <2>9. GeneralKept'
    BY <1>6, <2>1, <2>3, PoolEntry, GeneralTag DEF Inv, Account, GeneralKept
  <2>10. Room'
    <3>1. \A f \in DeadOnes : f \in DeadOnes'
      <4> SUFFICES ASSUME NEW f \in Entries, Dead(f) PROVE f \in DeadOnes'
        BY DEF DeadOnes
      <4>1. f # e
        BY <1>3 DEF Dead
      <4>2. QED
        BY <1>6, <2>1, <2>2, <2>3, <4>1, DeadKept DEF Dead
    <3>2. ReservedUsers' = ReservedUsers
      BY <1>6 DEF ReservedUsers
    <3>3. QED
      BY <1>6, <3>1, <3>2, RoomKept DEF Inv, others
  <2>11. QED
    BY <2>4, <2>5, <2>6, <2>7, <2>8, <2>9, <2>10 DEF Inv, Account
<1>10. CASE c # None /\ entry[c].refs = 0
  <2> DEFINE fired == [entry EXCEPT ![e].timer = "unset"]
             permit == IF Kind(tag) = "streaming" THEN None ELSE entry[c].permit
  <2>1. /\ pool' = [pool EXCEPT ![tag] = None] /\ c \in Entries
        /\ entry' = [fired EXCEPT ![c].permit = permit, ![c].sock = Closed(@)]
    BY <1>1, <1>2, <1>8, <1>10 DEF IdleTimer, PermitAfterIdle
  <2>2. fired \in [Entries -> EntryType]
    BY DEF Inv, Structure, PoolTyped, EntryType
  <2>3. \A f \in Entries :
          /\ fired[f].tag = entry[f].tag /\ fired[f].sock = entry[f].sock
          /\ fired[f].permit = entry[f].permit /\ fired[f].refs = entry[f].refs
          /\ f # e => fired[f] = entry[f]
          /\ f = e => fired[f].timer = "unset"
    BY DEF Inv, Structure, PoolTyped, EntryType
  <2>4. permit \in Sockets
    BY <2>1 DEF Inv, Structure, PoolTyped, EntryType
  <2> HIDE DEF fired, permit
  <2>5. Closed(fired[c].sock) \in {"creating", "closed"}
         /\ (Closed(fired[c].sock) = "creating" <=> entry[c].sock = "creating")
    BY <2>1, <2>3 DEF Closed
  <2>6. /\ PoolTyped'
        /\ \A f \in Entries \ {c} : entry'[f] = fired[f]
        /\ entry'[c].sock = Closed(fired[c].sock) /\ entry'[c].permit = permit
        /\ entry'[c].tag = fired[c].tag /\ entry'[c].timer = fired[c].timer
    <3>1. entry'[c] = [fired[c] EXCEPT !.permit = permit, !.sock = Closed(fired[c].sock)]
      BY <2>1, <2>2
    <3>2. entry'[c] \in EntryType
      BY <2>1, <2>2, <2>4, <2>5, <3>1 DEF EntryType
    <3>3. PoolTyped'
      BY <2>1, <2>2, <3>2 DEF Inv, Structure, PoolTyped
    <3>4. \A f \in Entries \ {c} : entry'[f] = fired[f]
      BY <2>1, <2>2
    <3>5. QED
      BY <2>1, <2>2, <3>1, <3>3, <3>4 DEF EntryType
  <2>7. \A f \in Entries :
          /\ entry'[f].tag = entry[f].tag
          /\ entry'[f].sock = "creating" <=> entry[f].sock = "creating"
    BY <2>3, <2>5, <2>6
  <2>8. \A f \in Entries : f # c /\ f # e => entry'[f] = entry[f]
    BY <2>3, <2>6
  <2>9. /\ pool'[tag] = None /\ \A t \in Tags \ {tag} : pool'[t] = pool[t]
        /\ pool'[General] = pool[General]
    BY <1>3, <2>1, GeneralTag DEF Inv, Structure, PoolTyped
  <2>10. Structure'
    BY <1>6, <2>6 DEF Inv, Structure, UsersTyped, RestTyped, Placed, others
  <2>11. \A v \in Users : UserAccount(v)'
    <3> SUFFICES ASSUME NEW v \in Users PROVE UserAccount(v)'
      OBVIOUS
    <3>1. /\ user'[v] = user[v] /\ user[v].tag \in Tags
          /\ user[v].entry # None => user[v].entry \in Entries
      BY <1>6 DEF Inv, Structure, UsersTyped
    <3>2. user[v].entry # None /\ user[v].tag = tag => tag \in torn
      <4>1. UsersOf(e) = {w \in Users : user[w].entry = e}
        BY UsersAre DEF Inv, Structure
      <4>2. QED
        BY <1>2, <1>4, <4>1 DEF Inv, Account, UserAccount
    <3>3. user[v].entry # None => user[v].tag \in torn' \/ pool'[user[v].tag] = pool[user[v].tag]
      BY <1>6, <2>9, <3>1, <3>2
    <3>4. QED
      BY <1>6, <2>7, <3>1, <3>3, UserKept
  <2>12. \A f \in Entries : EntryAccount(f)'
    <3>1. ASSUME NEW f \in Entries, f # c, f # e PROVE EntryAccount(f)'
      <4>1. entry[f].tag \in Tags
        BY DEF Inv, Structure, PoolTyped, EntryType
      <4>2. \/ pool'[entry[f].tag] = pool[entry[f].tag]
            \/ pool'[entry[f].tag] # f /\ pool[entry[f].tag] # f
        BY <1>2, <2>9, <3>1, <4>1
      <4>3. QED
        BY <1>6, <1>7, <2>8, <2>9, <3>1, <4>2, EntryKept
    <3>2. ASSUME NEW f \in {c, e} PROVE EntryAccount(f)'
      <4>1. f \in Entries /\ entry'[f].tag = tag /\ pool'[tag] # f
        <5>1. f \in Entries /\ entry[f].tag = tag
          BY <1>1, <1>8, <1>10, <3>2
        <5>2. QED
          BY <2>7, <2>9, <5>1
      <4>2. tag \notin torn => f = e /\ f = c
        BY <1>4, <3>2
      <4>3. f = e /\ f = c => entry'[f].timer = "unset" /\ entry'[f].permit = permit
        BY <2>3, <2>6
      <4>4. Kind(tag) = "streaming" => permit = None
        BY DEF permit
      <4>5. QED
        BY <1>6, <4>1, <4>2, <4>3, <4>4 DEF EntryAccount
    <3>3. QED
      BY <3>1, <3>2
  <2>13. PoolTagged'
    <3> SUFFICES ASSUME NEW t \in Tags, pool'[t] # None PROVE entry'[pool'[t]].tag = t
      BY DEF PoolTagged
    <3>1. pool'[t] = pool[t]
      BY <2>9
    <3>2. QED
      BY <2>7, <3>1, PoolEntry
  <2>14. Created'
    BY <1>6, <2>7 DEF Inv, Account, Created
  <2>15. GeneralPlain'
    <3>1. \A f \in Entries : entry[f].tag = General => f # c /\ f # e
      BY <1>1, <1>3, <1>8, <1>10
    <3>2. QED
      BY <2>7, <2>8, <3>1 DEF Inv, Account, GeneralPlain
  <2>16. GeneralKept'
    BY <1>6, <2>7, <2>9, PoolEntry, GeneralTag DEF Inv, Account, GeneralKept
  <2>17. Room'
    <3>1. \A f \in DeadOnes : f \in DeadOnes'
      <4> SUFFICES ASSUME NEW f \in Entries, Dead(f) PROVE f \in DeadOnes'
        BY DEF DeadOnes
      <4>1. f # e /\ f # c
        BY <1>2, <1>3 DEF Dead
      <4>2. entry'[f] = entry[f] /\ \A t \in Tags : pool'[t] # f
        BY <2>8, <2>9, <4>1 DEF Dead
      <4>3. \A g \in Entries : entry'[g].sock # "closed" =>
              \/ entry[g].sock # "closed" /\ entry'[g].permit = entry[g].permit
              \/ entry'[g].permit # f
        <5> SUFFICES ASSUME NEW g \in Entries, entry'[g].sock # "closed"
                     PROVE  \/ entry[g].sock # "closed" /\ entry'[g].permit = entry[g].permit
                            \/ entry'[g].permit # f
          OBVIOUS
        <5>1. CASE g = c
          BY <2>5, <2>6, <5>1 DEF permit, Dead
        <5>2. CASE g # c
          BY <2>3, <2>6, <5>2
        <5>3. QED
          BY <5>1, <5>2
      <4>4. QED
        BY <1>6, <4>2, <4>3, DeadKept DEF Dead
    <3>2. ReservedUsers' = ReservedUsers
      BY <1>6 DEF ReservedUsers
    <3>3. QED
      BY <1>6, <3>1, <3>2, RoomKept DEF Inv, others
  <2>18. QED
    BY <2>10, <2>11, <2>12, <2>13, <2>14, <2>15, <2>16, <2>17 DEF Inv, Account
<1>11. QED
  BY <1>9, <1>10

-----------------------------------------------------------------------------
\* The inductive invariant holds in every reachable state.
THEOREM Invariance == Spec => []Inv
<1>1. Inv /\ UNCHANGED vars => Inv'
  <2> SUFFICES ASSUME Inv, UNCHANGED vars PROVE Inv'
    OBVIOUS
  <2>1. UNCHANGED <<pool, entry, user, torn, cool, reconnecting, closed>>
    BY DEF vars, others
  <2>2. RestTyped'
    BY <2>1 DEF Inv, Structure, RestTyped
  <2>3. QED
    BY <2>1, <2>2, UnchangedInv, RoomUnchanged DEF Inv
<1>2. Inv /\ Next => Inv'
  <2> SUFFICES ASSUME Inv, Next PROVE Inv'
    OBVIOUS
  <2>1. ASSUME NEW u \in Users, Acquire(u) PROVE Inv'
    BY <2>1, GeneralTag, AcquireNewInv, AcquirePendingInv, AcquireIdleInv, AcquireActiveInv,
       PreemptInv DEF Acquire
  <2>2. ASSUME NEW u \in Users,
               \/ Relogin(u) \/ CreateAgain(u) \/ Login(u) \/ Release(u) \/ StreamTimeouts(u)
        PROVE  Inv'
    BY <2>2, ReloginInv, CreateAgainInv, LoginDoneInv, LoginFailedInv, ReleaseInv,
       StreamTimeoutsInv DEF Login
  <2>3. ASSUME NEW e \in Entries, IdleTimer(e) \/ ConnectionLost(e) PROVE Inv'
    BY <2>3, IdleTimerInv, ConnectionLostInv
  <2>4. QED
    BY <2>1, <2>2, <2>3, CooldownExpiresInv, D2cDiscInv, ReconnectBeginsInv, ReconnectCreatesInv,
       ReconnectLoginInv, FirstLoginInv, CloseInv DEF Next
<1>3. QED
  BY InitInv, <1>1, <1>2, PTL DEF Spec

\* The pool and its entries keep their types: no step misses a number to give to
\* a client, and no refCount exceeds the number of consumers by more than one.
THEOREM TypeCorrect == Spec => []TypeOK
BY Invariance, InvProperties, PTL

\* However preemptions, disconnects, timeouts and reconnections interleave with
\* it, who waits for a first login waits for the one creator of that entry.
THEOREM WaitersAreServed == Spec => []WaiterHasCreator
BY Invariance, InvProperties, PTL

\* Until an entry of a tag is torn away all users of the tag have the entry of
\* the pool, which is open, and its refCount is their number.
THEOREM OwnersCounted == Spec => []UsersOwnEntry
BY Invariance, InvProperties, PTL

\* A streaming socket has its permit on the general client exactly while it is
\* in the pool.
THEOREM PermitsMatchSockets == Spec => []StreamHoldsGeneral
BY Invariance, InvProperties, PTL

\* The socket of a tag that nobody uses has its idle timer running.
THEOREM IdleSocketsTimed == Spec => []IdleIsTimed
BY Invariance, InvProperties, PTL
=============================================================================
