-------------------------- MODULE StreamFanoutProofs --------------------------
(***************************************************************************)
(* Safety of the fanout for every set of clients, every capacity of the    *)
(* queues and every number of frames.                                      *)
(***************************************************************************)
EXTENDS StreamFanout, TLAPS

-----------------------------------------------------------------------------
(* The inductive invariant.  LossCounted speaks of the clients in the map; *)
(* that a client enters it with nothing behind it, and that an open queue  *)
(* is the only one a frame is pushed into, is what makes it inductive.     *)

\* A client that never subscribed has no trace in the fanout.
Untouched ==
  \A c \in Clients : generator[c] = "none" =>
    /\ c \notin queues \cup closed
    /\ queue[c] = <<>> /\ got[c] = <<>> /\ dropped[c] = 0

\* The queues in the map are open.
OpenQueues == queues \cap closed = {}

\* No client has a frame the pump has not read.
Seen == \A c \in queues : \A i \in DOMAIN got[c] : got[c][i] <= pumped

Inv == TypeOK /\ Untouched /\ OpenQueues /\ Seen /\ LossCounted

\* The part of the invariant that is about what one client in the map got (g),
\* has buffered (q) and lost (d), of the n frames read since its first (f).
Account(g, q, d, n, f, waits) ==
  /\ \A i, j \in DOMAIN g : i < j => g[i] < g[j]
  /\ \A i \in DOMAIN q : q[i] = n - Len(q) + i
  /\ \A i \in DOMAIN g : q # <<>> => g[i] < Head(q)
  /\ Len(g) + Len(q) + d = n - f + 1
  /\ waits => q = <<>>
  /\ \A i \in DOMAIN g : g[i] <= n

\* Seen and LossCounted are that account of each client.
LEMMA Accounts ==
  (Seen /\ LossCounted) <=>
     \A c \in queues : Account(got[c], queue[c], dropped[c], pumped, first[c], c \in waiting)
BY DEF Seen, LossCounted, Account

\* A frame handed to a waiting client.
LEMMA Handed ==
  ASSUME NEW g \in Seq(Nat), NEW d \in Nat, NEW n \in Nat, NEW f \in Nat,
         Account(g, <<>>, d, n, f, TRUE)
  PROVE  Account(Append(g, n + 1), <<>>, d, n + 1, f, FALSE)
<1> DEFINE h == Append(g, n + 1)
<1>1. /\ Len(h) = Len(g) + 1 /\ DOMAIN h = 1 .. Len(g) + 1 /\ DOMAIN g = 1 .. Len(g)
      /\ Len(g) \in Nat
      /\ \A i \in 1 .. Len(g) : h[i] = g[i] /\ h[i] \in Nat
      /\ h[Len(g) + 1] = n + 1
  OBVIOUS
<1>2. \A i \in 1 .. Len(g) : h[i] <= n
  BY <1>1 DEF Account
<1>3. \A i, j \in DOMAIN h : i < j => h[i] < h[j]
  BY <1>1, <1>2 DEF Account
<1>4. \A i \in DOMAIN h : h[i] <= n + 1
  BY <1>1, <1>2
<1>5. Len(h) + Len(<<>>) + d = (n + 1) - f + 1
  BY <1>1 DEF Account
<1> HIDE DEF h
<1> DEFINE e == <<>>
<1>6. e = <<>> /\ DOMAIN e = {}
  OBVIOUS
<1>7. Len(h) + Len(e) + d = (n + 1) - f + 1
  BY <1>5
<1> HIDE DEF e
<1>8. Account(h, e, d, n + 1, f, FALSE)
  BY <1>3, <1>4, <1>6, <1>7 DEF Account
<1>9. QED
  BY <1>6, <1>8 DEF h

\* A frame appended to a backlog that is not full.
LEMMA Buffered ==
  ASSUME NEW g \in Seq(Nat), NEW q \in Seq(Nat), NEW d \in Nat, NEW n \in Nat,
         NEW f \in Nat, Account(g, q, d, n, f, FALSE)
  PROVE  Account(g, Append(q, n + 1), d, n + 1, f, FALSE)
<1> DEFINE r == Append(q, n + 1)
<1>1. /\ Len(r) = Len(q) + 1 /\ DOMAIN r = 1 .. Len(q) + 1 /\ DOMAIN q = 1 .. Len(q)
      /\ Len(q) \in Nat /\ Len(g) \in Nat /\ DOMAIN g = 1 .. Len(g)
      /\ \A i \in 1 .. Len(q) : r[i] = q[i]
      /\ r[Len(q) + 1] = n + 1 /\ Head(r) = r[1]
      /\ q # <<>> => Head(q) = q[1] /\ Len(q) > 0
      /\ q = <<>> => Len(q) = 0
      /\ \A i \in DOMAIN g : g[i] \in Nat
  OBVIOUS
<1>2. \A i \in DOMAIN r : r[i] = (n + 1) - Len(r) + i
  BY <1>1 DEF Account
<1>3. \A i \in DOMAIN g : g[i] < Head(r)
  BY <1>1 DEF Account
<1>4. Len(g) + Len(r) + d = (n + 1) - f + 1
  BY <1>1 DEF Account
<1>5. \A i \in DOMAIN g : g[i] <= n + 1
  BY <1>1 DEF Account
<1> HIDE DEF r
<1>6. QED
  BY <1>2, <1>3, <1>4, <1>5 DEF Account, r

\* A frame appended to a full backlog, whose oldest frame is dropped.
LEMMA Evicted ==
  ASSUME NEW g \in Seq(Nat), NEW q \in Seq(Nat), q # <<>>, NEW d \in Nat,
         NEW n \in Nat, NEW f \in Nat, Account(g, q, d, n, f, FALSE)
  PROVE  Account(g, Append(Tail(q), n + 1), d + 1, n + 1, f, FALSE)
<1> DEFINE r == Append(Tail(q), n + 1)
<1>0. /\ Len(q) \in Nat \ {0} /\ Len(g) \in Nat /\ DOMAIN g = 1 .. Len(g)
      /\ DOMAIN q = 1 .. Len(q) /\ Head(q) = q[1]
      /\ \A i \in DOMAIN g : g[i] \in Nat
  OBVIOUS
<1>1. /\ Len(r) = Len(q) /\ DOMAIN r = 1 .. Len(q)
      /\ \A i \in 1 .. Len(q) - 1 : r[i] = q[i + 1]
      /\ r[Len(q)] = n + 1 /\ Head(r) = r[1]
  <2> DEFINE s == Tail(q)
  <2>1. /\ s \in Seq(Nat) /\ Len(s) = Len(q) - 1
        /\ \A i \in 1 .. Len(q) - 1 : s[i] = q[i + 1]
    BY <1>0
  <2> HIDE DEF s
  <2>2. /\ Append(s, n + 1) \in Seq(Nat) /\ Len(Append(s, n + 1)) = Len(s) + 1
        /\ \A i \in 1 .. Len(s) : Append(s, n + 1)[i] = s[i]
        /\ Append(s, n + 1)[Len(s) + 1] = n + 1
    BY <2>1
  <2>3. r = Append(s, n + 1)
    BY DEF s
  <2>4. r \in Seq(Nat) /\ Len(r) = Len(q)
    BY <2>1, <2>2, <2>3, <1>0
  <2>5. /\ \A i \in 1 .. Len(q) - 1 : r[i] = q[i + 1]
        /\ r[Len(q)] = n + 1
    BY <2>1, <2>2, <2>3, <1>0
  <2> HIDE DEF r
  <2>6. DOMAIN r = 1 .. Len(q) /\ Head(r) = r[1]
    BY <2>4, <1>0
  <2>7. QED
    BY <2>4, <2>5, <2>6
<1>2. \A i \in DOMAIN r : r[i] = (n + 1) - Len(r) + i
  <2>1. \A i \in DOMAIN q : q[i] = n - Len(q) + i
    BY DEF Account
  <2> HIDE DEF r
  <2>2. TAKE i \in DOMAIN r
  <2>3. CASE i = Len(q)
    BY <1>0, <1>1, <2>3
  <2>4. CASE i \in 1 .. Len(q) - 1
    <3>1. i + 1 \in DOMAIN q
      BY <1>0, <2>4
    <3>2. q[i + 1] = n - Len(q) + (i + 1)
      BY <2>1, <3>1
    <3>3. QED
      BY <1>0, <1>1, <2>4, <3>2
  <2>5. QED
    BY <1>0, <1>1, <2>3, <2>4
<1>3. \A i \in DOMAIN g : g[i] < Head(r)
  <2>1. Head(q) = n - Len(q) + 1
    BY <1>0 DEF Account
  <2> HIDE DEF r
  <2>2. Head(r) = (n + 1) - Len(q) + 1
    <3>1. 1 \in DOMAIN r
      BY <1>0, <1>1
    <3>2. r[1] = (n + 1) - Len(r) + 1
      BY <1>2, <3>1
    <3>3. QED
      BY <1>1, <3>2
  <2>3. QED
    BY <1>0, <2>1, <2>2 DEF Account
<1>4. Len(g) + Len(r) + (d + 1) = (n + 1) - f + 1
  <2>1. Len(g) + Len(q) + d = n - f + 1
    BY DEF Account
  <2> HIDE DEF r
  <2>2. QED
    BY <1>0, <1>1, <2>1
<1>5. \A i \in DOMAIN g : g[i] <= n + 1
  BY <1>0 DEF Account
<1> HIDE DEF r
<1>6. QED
  BY <1>2, <1>3, <1>4, <1>5 DEF Account, r

\* A frame taken from the backlog.
LEMMA Taken ==
  ASSUME NEW g \in Seq(Nat), NEW q \in Seq(Nat), q # <<>>, NEW d \in Nat,
         NEW n \in Nat, NEW f \in Nat, Account(g, q, d, n, f, FALSE)
  PROVE  Account(Append(g, Head(q)), Tail(q), d, n, f, FALSE)
<1> DEFINE h == Append(g, Head(q))
           r == Tail(q)
<1>1. /\ Len(r) = Len(q) - 1 /\ DOMAIN r = 1 .. Len(q) - 1 /\ DOMAIN q = 1 .. Len(q)
      /\ Len(q) \in Nat \ {0} /\ Len(g) \in Nat /\ DOMAIN g = 1 .. Len(g)
      /\ \A i \in 1 .. Len(q) - 1 : r[i] = q[i + 1]
      /\ Head(q) = q[1]
      /\ r # <<>> => Head(r) = r[1] /\ Len(r) > 0
      /\ Len(h) = Len(g) + 1 /\ DOMAIN h = 1 .. Len(g) + 1
      /\ \A i \in 1 .. Len(g) : h[i] = g[i] /\ h[i] \in Nat
      /\ h[Len(g) + 1] = Head(q)
  OBVIOUS
<1>2. \A i \in DOMAIN q : q[i] = n - Len(q) + i
  BY DEF Account
<1> HIDE DEF h, r
<1>3. Head(q) = n - Len(q) + 1 /\ Head(q) <= n
  BY <1>1, <1>2
<1>4. \A i \in DOMAIN r : r[i] = n - Len(r) + i
  <2>1. TAKE i \in DOMAIN r
  <2>2. i \in 1 .. Len(q) - 1 /\ i + 1 \in DOMAIN q
    BY <1>1
  <2>3. q[i + 1] = n - Len(q) + (i + 1)
    BY <1>2, <2>2
  <2>4. QED
    BY <1>1, <2>2, <2>3
<1>5. \A i \in 1 .. Len(g) : h[i] < Head(q)
  BY <1>1 DEF Account
<1>6. \A i, j \in DOMAIN h : i < j => h[i] < h[j]
  <2>1. \A i, j \in 1 .. Len(g) : i < j => h[i] < h[j]
    BY <1>1 DEF Account
  <2>2. QED
    BY <1>1, <1>5, <2>1
<1>7. \A i \in DOMAIN h : h[i] <= Head(q)
  BY <1>1, <1>3, <1>5
<1>8. \A i \in DOMAIN h : r # <<>> => h[i] < Head(r)
  <2>0. r # <<>> => 1 \in DOMAIN r
    BY <1>1
  <2>1. r # <<>> => Head(r) = n - Len(r) + 1
    BY <1>1, <1>4, <2>0
  <2>2. \A i \in DOMAIN h : h[i] \in Int
    BY <1>1, <1>3
  <2>3. QED
    BY <1>1, <1>3, <1>7, <2>1, <2>2
<1>9. \A i \in DOMAIN h : h[i] <= n
  <2>1. \A i \in DOMAIN h : h[i] \in Int
    BY <1>1, <1>3
  <2>2. QED
    BY <1>1, <1>3, <1>7, <2>1
<1>10. Len(h) + Len(r) + d = n - f + 1
  BY <1>1 DEF Account
<1>11. QED
  BY <1>4, <1>6, <1>8, <1>9, <1>10 DEF Account, h, r

-----------------------------------------------------------------------------
(* Each action preserves the invariant.                                    *)

\* What a pumped frame does to each client.
LEMMA PumpEffect ==
  ASSUME Inv, Pump
  PROVE  \A c \in Clients :
           /\ queue'[c] = IF c \in queues \ waiting
                          THEN IF Len(queue[c]) = MaxItems
                               THEN Append(Tail(queue[c]), pumped + 1)
                               ELSE Append(queue[c], pumped + 1)
                          ELSE queue[c]
           /\ dropped'[c] = IF c \in queues \ waiting /\ Len(queue[c]) = MaxItems
                            THEN dropped[c] + 1 ELSE dropped[c]
           /\ got'[c] = IF c \in queues \cap waiting THEN Append(got[c], pumped + 1)
                        ELSE got[c]
           /\ generator'[c] = IF c \in queues \cap waiting \cap leaving THEN "done"
                              ELSE IF c \in queues \cap waiting THEN "yielded"
                              ELSE generator[c]
<1>1. queues \ closed = queues
  BY DEF Inv, OpenQueues
<1>2. Push(pumped + 1, queues)
  BY <1>1 DEF Pump
<1>3. queue' = [c \in Clients |->
         IF c \in {b \in queues \ waiting : Len(queue[b]) = MaxItems}
         THEN Append(Tail(queue[c]), pumped + 1)
         ELSE IF c \in queues \ waiting THEN Append(queue[c], pumped + 1)
         ELSE queue[c]]
  BY <1>2 DEF Push
<1>4. dropped' = [c \in Clients |->
         IF c \in {b \in queues \ waiting : Len(queue[b]) = MaxItems}
         THEN dropped[c] + 1 ELSE dropped[c]]
  BY <1>2 DEF Push
<1>5. got' = [c \in Clients |-> IF c \in queues \cap waiting
                                THEN Append(got[c], pumped + 1) ELSE got[c]]
  BY <1>2 DEF Push
<1>6. generator' = [c \in Clients |->
         IF c \in (queues \cap waiting) \cap leaving THEN "done"
         ELSE IF c \in queues \cap waiting THEN "yielded" ELSE generator[c]]
  BY DEF Pump
<1>7. TAKE c \in Clients
<1>8. QED
  BY <1>3, <1>4, <1>5, <1>6

LEMMA PumpPreserves == Inv /\ Pump => Inv'
<1> SUFFICES ASSUME Inv, Pump PROVE Inv'
  OBVIOUS
<1>1. /\ pumped' = pumped + 1 /\ pumped < MaxFrames
      /\ queues' = queues \ (queues \cap waiting \cap leaving)
      /\ closed' = closed \cup (queues \cap waiting \cap leaving)
      /\ waiting' = waiting \ queues
      /\ UNCHANGED <<source, running, leaving, first>>
  BY DEF Inv, OpenQueues, Pump, Push
<1>2. TypeOK'
  <2>1. pumped' \in 0 .. MaxFrames /\ pumped \in Nat
    BY <1>1, FanoutAssumption DEF Inv, TypeOK
  <2>2. /\ queue' \in [Clients -> Seq(Nat)]
        /\ \A c \in Clients : Len(queue'[c]) <= MaxItems
    <3>1. queue' = [c \in Clients |-> queue'[c]]
      BY DEF Pump, Push
    <3>2. ASSUME NEW c \in Clients PROVE queue'[c] \in Seq(Nat) /\ Len(queue'[c]) <= MaxItems
      <4>1. queue[c] \in Seq(Nat) /\ Len(queue[c]) \in Nat /\ Len(queue[c]) <= MaxItems
        BY DEF Inv, TypeOK
      <4>2. CASE c \in queues \ waiting /\ Len(queue[c]) = MaxItems
        <5>1. queue'[c] = Append(Tail(queue[c]), pumped + 1)
          BY <4>2, PumpEffect
        <5>2. queue[c] # <<>>
          BY <4>1, <4>2, FanoutAssumption
        <5>3. Tail(queue[c]) \in Seq(Nat) /\ Len(Tail(queue[c])) = Len(queue[c]) - 1
          BY <4>1, <5>2
        <5>4. QED
          BY <2>1, <4>1, <5>1, <5>3
      <4>3. CASE c \in queues \ waiting /\ Len(queue[c]) # MaxItems
        <5>1. queue'[c] = Append(queue[c], pumped + 1)
          BY <4>3, PumpEffect
        <5>2. QED
          BY <2>1, <4>1, <4>3, <5>1, FanoutAssumption
      <4>4. CASE c \notin queues \ waiting
        BY <4>1, <4>4, PumpEffect
      <4>5. QED
        BY <4>2, <4>3, <4>4
    <3>3. QED
      BY <3>1, <3>2
  <2>3. dropped' \in [Clients -> Nat]
    <3>1. dropped' = [c \in Clients |-> dropped'[c]]
      BY DEF Pump, Push
    <3>2. ASSUME NEW c \in Clients PROVE dropped'[c] \in Nat
      <4>1. dropped'[c] \in {dropped[c], dropped[c] + 1}
        BY PumpEffect
      <4>2. dropped[c] \in Nat
        BY DEF Inv, TypeOK
      <4>3. QED
        BY <4>1, <4>2
    <3>3. QED
      BY <3>1, <3>2
  <2>4. got' \in [Clients -> Seq(Nat)]
    <3>1. got' = [c \in Clients |-> got'[c]]
      BY DEF Pump, Push
    <3>2. ASSUME NEW c \in Clients PROVE got'[c] \in Seq(Nat)
      <4>1. got[c] \in Seq(Nat) /\ Append(got[c], pumped + 1) \in Seq(Nat)
        BY <2>1 DEF Inv, TypeOK
      <4>2. QED
        BY <4>1, PumpEffect
    <3>3. QED
      BY <3>1, <3>2
  <2>5. generator' \in [Clients -> {"none", "fresh", "asking", "yielded", "done"}]
    <3>1. generator' = [c \in Clients |-> generator'[c]]
      BY DEF Pump
    <3>2. \A c \in Clients : generator'[c] \in {"none", "fresh", "asking", "yielded", "done"}
      BY PumpEffect DEF Inv, TypeOK
    <3>3. QED
      BY <3>1, <3>2
  <2>6. \A c \in Clients : c \in waiting' <=> generator'[c] = "asking"
    BY <1>1, PumpEffect DEF Inv, TypeOK
  <2>7. QED
    BY <1>1, <2>1, <2>2, <2>3, <2>4, <2>5, <2>6 DEF Inv, TypeOK
<1>3. Untouched' /\ OpenQueues'
  <2>1. \A c \in Clients : generator'[c] = "none" => generator[c] = "none"
    BY PumpEffect
  <2>2. OpenQueues'
    BY <1>1 DEF Inv, OpenQueues
  <2>3. Untouched'
    BY <1>1, <2>1, PumpEffect DEF Inv, Untouched
  <2>4. QED
    BY <2>2, <2>3
<1>4. Seen' /\ LossCounted'
  <2>1. \A c \in queues : Account(got[c], queue[c], dropped[c], pumped, first[c], c \in waiting)
    BY Accounts DEF Inv
  <2>2. ASSUME NEW c \in queues'
        PROVE  Account(got'[c], queue'[c], dropped'[c], pumped', first'[c], c \in waiting')
    <3>1. /\ c \in queues /\ c \in Clients /\ c \notin waiting' /\ first'[c] = first[c]
          /\ pumped' = pumped + 1 /\ pumped \in Nat
      BY <1>1, FanoutAssumption DEF Inv, TypeOK
    <3>2. got[c] \in Seq(Nat) /\ queue[c] \in Seq(Nat) /\ dropped[c] \in Nat /\ first[c] \in Nat
      BY <3>1 DEF Inv, TypeOK
    <3>3. Account(got[c], queue[c], dropped[c], pumped, first[c], c \in waiting)
      BY <2>1, <3>1
    <3>4. (c \in waiting') = FALSE
      BY <3>1
    <3>5. CASE c \in waiting
      <4>1. queue[c] = <<>> /\ Account(got[c], <<>>, dropped[c], pumped, first[c], TRUE)
        BY <3>3, <3>5 DEF Account
      <4>2. Account(Append(got[c], pumped + 1), <<>>, dropped[c], pumped + 1, first[c], FALSE)
        BY <3>1, <3>2, <4>1, Handed
      <4>3. /\ got'[c] = Append(got[c], pumped + 1) /\ queue'[c] = <<>>
            /\ dropped'[c] = dropped[c]
        BY <3>1, <3>5, <4>1, PumpEffect
      <4>4. QED
        BY <3>1, <3>4, <4>2, <4>3
    <3>6. CASE c \notin waiting
      <4>1. Account(got[c], queue[c], dropped[c], pumped, first[c], FALSE)
        BY <3>3, <3>6 DEF Account
      <4>2. CASE Len(queue[c]) = MaxItems
        <5>1. queue[c] # <<>>
          BY <4>2, FanoutAssumption
        <5>2. Account(got[c], Append(Tail(queue[c]), pumped + 1), dropped[c] + 1, pumped + 1,
                      first[c], FALSE)
          BY <3>1, <3>2, <4>1, <5>1, Evicted
        <5>3. /\ got'[c] = got[c] /\ queue'[c] = Append(Tail(queue[c]), pumped + 1)
              /\ dropped'[c] = dropped[c] + 1
          BY <3>1, <3>6, <4>2, PumpEffect
        <5>4. QED
          BY <3>1, <3>4, <5>2, <5>3
      <4>3. CASE Len(queue[c]) # MaxItems
        <5>1. Account(got[c], Append(queue[c], pumped + 1), dropped[c], pumped + 1,
                      first[c], FALSE)
          BY <3>1, <3>2, <4>1, Buffered
        <5>2. /\ got'[c] = got[c] /\ queue'[c] = Append(queue[c], pumped + 1)
              /\ dropped'[c] = dropped[c]
          BY <3>1, <3>6, <4>3, PumpEffect
        <5>3. QED
          BY <3>1, <3>4, <5>1, <5>2
      <4>4. QED
        BY <4>2, <4>3
    <3>7. QED
      BY <3>5, <3>6
  <2>3. QED
    BY <2>2 DEF Seen, LossCounted, Account
<1>5. QED
  BY <1>2, <1>3, <1>4 DEF Inv

\* The end of the stream empties the map of queues; nothing else is claimed of
\* the clients that are out of it.
LEMMA EndPreserves == Inv /\ (SourceEnds \/ Stop) => Inv'
<1> SUFFICES ASSUME Inv, SourceEnds \/ Stop PROVE Inv'
  OBVIOUS
<1>1. /\ queues' = {} /\ closed' = closed \cup queues /\ waiting' = waiting \ queues
      /\ generator' = [c \in Clients |-> IF c \in queues \cap waiting THEN "done"
                                         ELSE generator[c]]
      /\ source' \in {"returning", "ended"} /\ running' = FALSE
      /\ UNCHANGED <<pumped, queue, dropped, leaving, first, got>>
  BY DEF SourceEnds, Stop, CloseAll
<1>2. \A c \in Clients : generator'[c] = IF c \in queues \cap waiting THEN "done"
                                         ELSE generator[c]
  BY <1>1
<1>3. TypeOK'
  <2>1. generator' \in [Clients -> {"none", "fresh", "asking", "yielded", "done"}]
    BY <1>1 DEF Inv, TypeOK
  <2>2. \A c \in Clients : c \in waiting' <=> generator'[c] = "asking"
    BY <1>1, <1>2 DEF Inv, TypeOK
  <2>3. QED
    BY <1>1, <2>1, <2>2 DEF Inv, TypeOK
<1>4. Untouched'
  BY <1>1, <1>2 DEF Inv, Untouched
<1>5. OpenQueues' /\ Seen' /\ LossCounted'
  BY <1>1 DEF OpenQueues, Seen, LossCounted
<1>6. QED
  BY <1>3, <1>4, <1>5 DEF Inv

LEMMA SubscribePreserves == \A c \in Clients : Inv /\ Subscribe(c) => Inv'
<1> SUFFICES ASSUME NEW c \in Clients, Inv, Subscribe(c) PROVE Inv'
  OBVIOUS
<1>1. /\ generator[c] = "none" /\ generator' = [generator EXCEPT ![c] = "fresh"]
      /\ queues' = queues \cup {c} /\ first' = [first EXCEPT ![c] = pumped + 1]
      /\ UNCHANGED <<source, running, pumped, queue, waiting, closed, dropped, leaving, got>>
  BY DEF Subscribe, queueVars
<1>2. c \notin queues \cup closed /\ queue[c] = <<>> /\ got[c] = <<>> /\ dropped[c] = 0
  BY <1>1 DEF Inv, Untouched
<1>3. pumped \in Nat
  BY FanoutAssumption DEF Inv, TypeOK
<1>4. TypeOK'
  <2>1. /\ generator' \in [Clients -> {"none", "fresh", "asking", "yielded", "done"}]
        /\ first' \in [Clients -> Nat]
    BY <1>1, <1>3 DEF Inv, TypeOK
  <2>2. \A b \in Clients : b \in waiting' <=> generator'[b] = "asking"
    BY <1>1 DEF Inv, TypeOK
  <2>3. QED
    BY <1>1, <2>1, <2>2 DEF Inv, TypeOK
<1>5. Untouched' /\ OpenQueues'
  BY <1>1, <1>2 DEF Inv, TypeOK, Untouched, OpenQueues
<1>6. Seen' /\ LossCounted'
  <2>1. ASSUME NEW b \in queues'
        PROVE  Account(got'[b], queue'[b], dropped'[b], pumped', first'[b], b \in waiting')
    <3>1. CASE b = c
      <4>1. /\ got'[b] = <<>> /\ queue'[b] = <<>> /\ dropped'[b] = 0 /\ pumped' = pumped
            /\ first'[b] = pumped + 1
        BY <1>1, <1>2, <3>1 DEF Inv, TypeOK
      <4>2. Account(<<>>, <<>>, 0, pumped, pumped + 1, b \in waiting')
        BY <1>3 DEF Account
      <4>3. QED
        BY <4>1, <4>2
    <3>2. CASE b # c
      <4>1. b \in queues /\ first'[b] = first[b]
        BY <1>1, <3>2 DEF Inv, TypeOK
      <4>2. Account(got[b], queue[b], dropped[b], pumped, first[b], b \in waiting)
        BY <4>1, Accounts DEF Inv
      <4>3. QED
        BY <1>1, <4>1, <4>2
    <3>3. QED
      BY <3>1, <3>2
  <2>2. QED
    BY <2>1 DEF Seen, LossCounted, Account
<1>7. QED
  BY <1>4, <1>5, <1>6 DEF Inv

LEMMA AskPreserves == \A c \in Clients : Inv /\ Ask(c) => Inv'
<1> SUFFICES ASSUME NEW c \in Clients, Inv, Ask(c) PROVE Inv'
  OBVIOUS
<1>1. /\ generator[c] \in {"fresh", "yielded"}
      /\ UNCHANGED <<source, running, pumped, closed, dropped, leaving, first, queues>>
  BY DEF Ask
<1>2. c \notin waiting
  BY <1>1 DEF Inv, TypeOK
<1>3. \A b \in queues : Account(got[b], queue[b], dropped[b], pumped, first[b], b \in waiting)
  BY Accounts DEF Inv
<1>4. CASE c \in closed
  <2>1. generator' = [generator EXCEPT ![c] = "done"] /\ UNCHANGED <<queue, waiting, got>>
    BY <1>4 DEF Ask
  <2>2. TypeOK'
    BY <1>1, <1>2, <2>1 DEF Inv, TypeOK
  <2>3. Untouched' /\ OpenQueues'
    BY <1>1, <2>1 DEF Inv, TypeOK, Untouched, OpenQueues
  <2>4. Seen' /\ LossCounted'
    BY <1>1, <2>1 DEF Inv, Seen, LossCounted
  <2>5. QED
    BY <2>2, <2>3, <2>4 DEF Inv
<1>5. CASE c \notin closed /\ queue[c] # <<>>
  <2>1. /\ got' = [got EXCEPT ![c] = Append(@, Head(queue[c]))]
        /\ queue' = [queue EXCEPT ![c] = Tail(@)]
        /\ generator' = [generator EXCEPT ![c] = "yielded"]
        /\ UNCHANGED waiting
    BY <1>5 DEF Ask
  <2>2. /\ got[c] \in Seq(Nat) /\ queue[c] \in Seq(Nat) /\ dropped[c] \in Nat
        /\ first[c] \in Nat /\ pumped \in Nat
    BY FanoutAssumption DEF Inv, TypeOK
  <2>3. /\ Append(got[c], Head(queue[c])) \in Seq(Nat) /\ Tail(queue[c]) \in Seq(Nat)
        /\ Len(Tail(queue[c])) <= MaxItems
    BY <1>5, <2>2, FanoutAssumption DEF Inv, TypeOK
  <2>4. /\ got'[c] = Append(got[c], Head(queue[c])) /\ queue'[c] = Tail(queue[c])
        /\ \A b \in Clients \ {c} : got'[b] = got[b] /\ queue'[b] = queue[b]
    BY <2>1 DEF Inv, TypeOK
  <2>5. TypeOK'
    <3>1. queue' \in [Clients -> Seq(Nat)] /\ got' \in [Clients -> Seq(Nat)]
      BY <2>1, <2>3 DEF Inv, TypeOK
    <3>2. \A b \in Clients : Len(queue'[b]) <= MaxItems
      BY <2>3, <2>4 DEF Inv, TypeOK
    <3>3. /\ generator' \in [Clients -> {"none", "fresh", "asking", "yielded", "done"}]
          /\ \A b \in Clients : b \in waiting' <=> generator'[b] = "asking"
      BY <1>2, <2>1 DEF Inv, TypeOK
    <3>4. QED
      BY <1>1, <2>1, <3>1, <3>2, <3>3 DEF Inv, TypeOK
  <2>6. Untouched' /\ OpenQueues'
    BY <1>1, <2>1, <2>4 DEF Inv, TypeOK, Untouched, OpenQueues
  <2>7. Seen' /\ LossCounted'
    <3>1. ASSUME NEW b \in queues'
          PROVE  Account(got'[b], queue'[b], dropped'[b], pumped', first'[b], b \in waiting')
      <4>1. b \in queues /\ b \in Clients
        BY <1>1 DEF Inv, TypeOK
      <4>2. CASE b = c
        <5>1. Account(got[c], queue[c], dropped[c], pumped, first[c], FALSE)
          BY <1>2, <1>3, <4>1, <4>2 DEF Account
        <5>2. Account(Append(got[c], Head(queue[c])), Tail(queue[c]), dropped[c], pumped,
                      first[c], FALSE)
          BY <1>5, <2>2, <5>1, Taken
        <5>3. (b \in waiting') = FALSE
          BY <1>2, <2>1, <4>2
        <5>4. QED
          BY <1>1, <2>4, <4>2, <5>2, <5>3
      <4>3. CASE b # c
        BY <1>1, <1>3, <2>1, <2>4, <4>1, <4>3
      <4>4. QED
        BY <4>2, <4>3
    <3>2. QED
      BY <3>1 DEF Seen, LossCounted, Account
  <2>8. QED
    BY <2>5, <2>6, <2>7 DEF Inv
<1>6. CASE c \notin closed /\ queue[c] = <<>>
  <2>1. /\ waiting' = waiting \cup {c} /\ generator' = [generator EXCEPT ![c] = "asking"]
        /\ UNCHANGED <<queue, got>>
    BY <1>6 DEF Ask
  <2>2. TypeOK'
    <3>1. /\ generator' \in [Clients -> {"none", "fresh", "asking", "yielded", "done"}]
          /\ \A b \in Clients : b \in waiting' <=> generator'[b] = "asking"
      BY <2>1 DEF Inv, TypeOK
    <3>2. QED
      BY <1>1, <2>1, <3>1 DEF Inv, TypeOK
  <2>3. Untouched' /\ OpenQueues'
    BY <1>1, <2>1 DEF Inv, TypeOK, Untouched, OpenQueues
  <2>4. Seen' /\ LossCounted'
    <3>1. ASSUME NEW b \in queues'
          PROVE  Account(got'[b], queue'[b], dropped'[b], pumped', first'[b], b \in waiting')
      <4>1. Account(got[b], queue[b], dropped[b], pumped, first[b], b \in waiting)
        BY <1>1, <1>3
      <4>2. b \in waiting' => queue[b] = <<>>
        BY <1>6, <2>1, <4>1 DEF Account
      <4>3. Account(got[b], queue[b], dropped[b], pumped, first[b], b \in waiting')
        BY <4>1, <4>2 DEF Account
      <4>4. QED
        BY <1>1, <2>1, <4>3
    <3>2. QED
      BY <3>1 DEF Seen, LossCounted, Account
  <2>5. QED
    BY <2>2, <2>3, <2>4 DEF Inv
<1>7. QED
  BY <1>4, <1>5, <1>6

LEMMA ReturnsPreserve ==
  \A c \in Clients : Inv /\ (Return(c) \/ ReturnFresh(c) \/ ReturnPending(c)) => Inv'
<1> SUFFICES ASSUME NEW c \in Clients, Inv,
                    Return(c) \/ ReturnFresh(c) \/ ReturnPending(c)
             PROVE  Inv'
  OBVIOUS
<1>1. /\ UNCHANGED <<source, running, pumped, queue, waiting, dropped, first, got>>
      /\ queues' \subseteq queues
      /\ generator[c] # "none"
  BY DEF Return, ReturnFresh, ReturnPending, queueVars
<1>2. /\ closed' \subseteq closed \cup {c} /\ (c \in closed' => c \in closed \/ c \notin queues')
      /\ leaving' \subseteq leaving \cup {c}
      /\ \/ generator' = [generator EXCEPT ![c] = "done"] /\ generator[c] # "asking"
         \/ generator' = generator
  BY DEF Return, ReturnFresh, ReturnPending, queueVars
<1>3. TypeOK'
  BY <1>1, <1>2 DEF Inv, TypeOK
<1>4. Untouched' /\ OpenQueues'
  BY <1>1, <1>2 DEF Inv, TypeOK, Untouched, OpenQueues
<1>5. Seen' /\ LossCounted'
  BY <1>1 DEF Inv, Seen, LossCounted
<1>6. QED
  BY <1>3, <1>4, <1>5 DEF Inv

-----------------------------------------------------------------------------
LEMMA InitInv == Init => Inv
<1> SUFFICES ASSUME Init PROVE Inv
  OBVIOUS
<1>1. TypeOK
  BY FanoutAssumption DEF Init, TypeOK
<1>2. QED
  BY <1>1 DEF Init, Inv, Untouched, OpenQueues, Seen, LossCounted

\* The invariant holds in every reachable state.
THEOREM Invariance == Spec => []Inv
<1>1. Inv /\ [Next]_vars => Inv'
  <2> SUFFICES ASSUME Inv, [Next]_vars PROVE Inv'
    OBVIOUS
  <2>1. CASE Pump
    BY <2>1, PumpPreserves
  <2>2. CASE SourceEnds \/ Stop
    BY <2>2, EndPreserves
  <2>3. CASE \E c \in Clients : Client(c)
    BY <2>3, SubscribePreserves, AskPreserves, ReturnsPreserve DEF Client
  <2>4. CASE UNCHANGED vars
    BY <2>4 DEF vars, queueVars, clientVars, Inv, TypeOK, Untouched, OpenQueues, Seen,
       LossCounted
  <2>5. QED
    BY <2>1, <2>2, <2>3, <2>4 DEF Next
<1>2. QED
  BY InitInv, <1>1, PTL DEF Spec

\* Every variable of the fanout keeps its type, its queues never exceed their
\* capacity, and exactly the clients that asked wait.
THEOREM TypeCorrect == Spec => []TypeOK
BY Invariance, PTL DEF Inv

\* A slow client loses only its own oldest frames, and each loss is counted:
\* push() and next() of AsyncBoundedQueue under the fanout's pump.
THEOREM LossIsCounted == Spec => []LossCounted
BY Invariance, PTL DEF Inv

-----------------------------------------------------------------------------
(* The end of the stream.                                                  *)

\* A client that is not done has its queue in the map or closed; only one in the
\* map is waited at, and once the fanout does not run the map is empty.
Attached ==
  /\ source = "ended" => ~running
  /\ ~running => queues = {}
  /\ waiting \subseteq queues
  /\ \A c \in Clients : generator[c] \in {"fresh", "yielded"} => c \in queues \cup closed

LEMMA AttachedKept == Inv /\ Attached /\ [Next]_vars => Attached'
<1> SUFFICES ASSUME Inv, Attached, [Next]_vars PROVE Attached'
  OBVIOUS
<1>1. CASE Pump
  <2>1. /\ queues' = queues \ (queues \cap waiting \cap leaving)
        /\ closed' = closed \cup (queues \cap waiting \cap leaving)
        /\ waiting' = waiting \ queues /\ UNCHANGED <<source, running>>
    BY <1>1 DEF Inv, OpenQueues, Pump, Push
  <2>2. \A c \in Clients : generator'[c] \in {"fresh", "yielded"} =>
          c \in queues \/ generator[c] \in {"fresh", "yielded"}
    BY <1>1, PumpEffect
  <2>3. QED
    BY <2>1, <2>2 DEF Attached
<1>2. CASE SourceEnds \/ Stop
  <2>1. /\ queues' = {} /\ closed' = closed \cup queues /\ waiting' = waiting \ queues
        /\ ~running'
        /\ generator' = [c \in Clients |-> IF c \in queues \cap waiting THEN "done"
                                           ELSE generator[c]]
    BY <1>2 DEF SourceEnds, Stop, CloseAll
  <2>2. QED
    BY <2>1 DEF Attached
<1>3. ASSUME NEW c \in Clients, Subscribe(c) PROVE Attached'
  BY <1>3 DEF Subscribe, queueVars, Inv, TypeOK, Attached
<1>4. ASSUME NEW c \in Clients, Ask(c) PROVE Attached'
  <2>1. /\ generator[c] \in {"fresh", "yielded"}
        /\ UNCHANGED <<source, running, closed, queues>>
        /\ waiting' = waiting \/ (waiting' = waiting \cup {c} /\ c \notin closed)
        /\ \E g \in {"done", "yielded", "asking"} : generator' = [generator EXCEPT ![c] = g]
    BY <1>4 DEF Ask
  <2>2. QED
    BY <2>1 DEF Inv, TypeOK, Attached
<1>5. ASSUME NEW c \in Clients, Return(c) \/ ReturnFresh(c) \/ ReturnPending(c)
      PROVE  Attached'
  <2>1. CASE Return(c)
    BY <2>1 DEF Return, Inv, TypeOK, Attached
  <2>2. CASE ReturnFresh(c) \/ ReturnPending(c)
    BY <2>2 DEF ReturnFresh, ReturnPending, queueVars, Inv, TypeOK, Attached
  <2>3. QED
    BY <1>5, <2>1, <2>2
<1>6. CASE UNCHANGED vars
  BY <1>6 DEF vars, queueVars, clientVars, Attached
<1>7. QED
  BY <1>1, <1>2, <1>3, <1>4, <1>5, <1>6 DEF Next, Client

\* The end has reached a client when it does not wait and its next request ends
\* its generator.
EndSeen ==
  source = "ended" => \A c \in Clients :
    /\ generator[c] # "asking"
    /\ generator[c] \in {"fresh", "yielded"} => c \in closed

\* Once the source has ended no client waits for a frame, and the queue of each
\* one that is still busy with its last frame is closed: the part of EndReachesAll
\* that does not rest on fairness.
THEOREM EndIsSeen == Spec => []EndSeen
<1>1. Init => Attached
  BY DEF Init, Attached
<1>2. Inv /\ Attached => EndSeen
  BY DEF Inv, TypeOK, Attached, EndSeen
<1>3. QED
  BY Invariance, AttachedKept, <1>1, <1>2, PTL DEF Spec
===============================================================================
