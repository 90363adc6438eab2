---------------------------- MODULE StreamFanout ----------------------------
(***************************************************************************)
(* NativeStreamFanout (BaichuanRtspServer.ts) with its AsyncBoundedQueues: *)
(* one pump reads the camera's frames and pushes each into the queue of    *)
(* every subscriber; a subscriber that falls behind loses the oldest       *)
(* frames of its own queue, and the loss is counted.                       *)
(*                                                                         *)
(* Frames are numbered in the order the pump reads them.  The server       *)
(* subscribes a client at most once, while its fanout runs.  A client's    *)
(* async generator handles one request at a time: a return() made while    *)
(* next() is pending takes effect after it.                                *)
(***************************************************************************)
EXTENDS Integers, Sequences, FiniteSets

CONSTANTS
  Clients,    \* ids passed to subscribe()
  MaxItems,   \* capacity of a queue (200 in the server)
  MaxFrames   \* bound: frames the camera sends

ASSUME FanoutAssumption ==
  /\ MaxItems \in Nat \ {0}
  /\ MaxFrames \in Nat

VARIABLES
  source,     \* "open", "returning" (stop() awaits it), "ended"
  running,    \* this.running
  pumped,     \* history: frames read from the source
  queues,     \* clients in the map `queues'
  queue,      \* backlog of each client
  waiting,    \* clients whose next() waits for a frame
  closed,     \* clients whose queue is closed
  dropped,    \* evicted frames per client
  generator,  \* per client: "none", "fresh", "asking", "yielded", "done"
  leaving,    \* clients that called return() while next() was pending
  first,      \* history: the first frame a client may get
  got         \* history: the frames a client got

queueVars == <<queue, waiting, closed, dropped>>
clientVars == <<generator, leaving, first, got>>
vars == <<source, running, pumped, queues, queueVars, clientVars>>

-----------------------------------------------------------------------------
\* Mutant: nothing is evicted.
Push_Unbounded(frame, to) ==
  /\ queue' = [c \in Clients |-> IF c \in to \ waiting THEN Append(queue[c], frame)
                                 ELSE queue[c]]
  /\ UNCHANGED dropped
  /\ got' = [c \in Clients |-> IF c \in to \cap waiting THEN Append(got[c], frame)
                               ELSE got[c]]
  /\ waiting' = waiting \ to

\* Mutant: a full queue refuses the new frame instead of evicting the oldest.
Push_KeepsOldest(frame, to) ==
  /\ queue' = [c \in Clients |->
       IF c \in to \ waiting /\ Len(queue[c]) < MaxItems THEN Append(queue[c], frame)
       ELSE queue[c]]
  /\ dropped' = [c \in Clients |->
       IF c \in to \ waiting /\ Len(queue[c]) = MaxItems THEN dropped[c] + 1
       ELSE dropped[c]]
  /\ got' = [c \in Clients |-> IF c \in to \cap waiting THEN Append(got[c], frame)
                               ELSE got[c]]
  /\ waiting' = waiting \ to

\* push() into the queue of each client of `to': handed to a waiting consumer,
\* else buffered, evicting the oldest when the queue was full.
Push(frame, to) ==
  LET buffer == to \ waiting
      full == {c \in buffer : Len(queue[c]) = MaxItems}
  IN /\ queue' = [c \in Clients |->
          IF c \in full THEN Append(Tail(queue[c]), frame)
          ELSE IF c \in buffer THEN Append(queue[c], frame)
          ELSE queue[c]]
     /\ dropped' = [c \in Clients |-> IF c \in full THEN dropped[c] + 1 ELSE dropped[c]]
     /\ got' = [c \in Clients |-> IF c \in to \cap waiting THEN Append(got[c], frame)
                                  ELSE got[c]]
     /\ waiting' = waiting \ to

\* The pump reads a frame; each client it is handed to runs on: it consumes
\* the frame, or leaves if return() is queued, which closes its queue.
Pump ==
  LET woken == queues \cap waiting
      gone == woken \cap leaving
  IN /\ source # "ended"
     /\ pumped < MaxFrames
     /\ pumped' = pumped + 1
     /\ Push(pumped + 1, queues \ closed)
     /\ generator' = [c \in Clients |-> IF c \in gone THEN "done"
                                        ELSE IF c \in woken THEN "yielded"
                                        ELSE generator[c]]
     /\ queues' = queues \ gone
     /\ closed' = closed \cup gone
     /\ UNCHANGED <<source, running, leaving, first>>

\* Mutant: the waiting consumers are not woken.
CloseAll_NoWake ==
  /\ closed' = closed \cup queues
  /\ queues' = {}
  /\ UNCHANGED <<waiting, generator>>

\* Every queue is closed, which ends the generators that wait, and forgotten.
CloseAll ==
  /\ closed' = closed \cup queues
  /\ queues' = {}
  /\ waiting' = waiting \ queues
  /\ generator' = [c \in Clients |-> IF c \in queues \cap waiting THEN "done"
                                     ELSE generator[c]]

\* The source ends, fails, or answers return(): the pump's `finally' block.
SourceEnds ==
  /\ source # "ended"
  /\ source' = "ended"
  /\ running' = FALSE
  /\ CloseAll
  /\ UNCHANGED <<pumped, queue, dropped, leaving, first, got>>

\* stop(): the queues are closed before the source is asked to return.
Stop ==
  /\ running
  /\ running' = FALSE
  /\ source' = "returning"
  /\ CloseAll
  /\ UNCHANGED <<pumped, queue, dropped, leaving, first, got>>

-----------------------------------------------------------------------------
(* A client and its generator.                                             *)

\* subscribe(id): the queue is registered before the generator first runs.
Subscribe(c) ==
  /\ running
  /\ generator[c] = "none"
  /\ generator' = [generator EXCEPT ![c] = "fresh"]
  /\ queues' = queues \cup {c}
  /\ first' = [first EXCEPT ![c] = pumped + 1]
  /\ UNCHANGED <<source, running, pumped, queueVars, leaving, got>>

\* The client asks for the next frame: a closed queue ends the generator, and
\* its backlog is discarded.
Ask(c) ==
  /\ generator[c] \in {"fresh", "yielded"}
  /\ IF c \in closed
     THEN /\ generator' = [generator EXCEPT ![c] = "done"]
          /\ UNCHANGED <<queues, queue, waiting, got>>
     ELSE IF queue[c] # <<>>
     THEN /\ got' = [got EXCEPT ![c] = Append(@, Head(queue[c]))]
          /\ queue' = [queue EXCEPT ![c] = Tail(@)]
          /\ generator' = [generator EXCEPT ![c] = "yielded"]
          /\ UNCHANGED <<queues, waiting>>
     ELSE /\ waiting' = waiting \cup {c}
          /\ generator' = [generator EXCEPT ![c] = "asking"]
          /\ UNCHANGED <<queues, queue, got>>
  /\ UNCHANGED <<source, running, pumped, closed, dropped, leaving, first>>

\* The client leaves between two frames: the generator's `finally' block.
Return(c) ==
  /\ generator[c] = "yielded"
  /\ generator' = [generator EXCEPT ![c] = "done"]
  /\ closed' = closed \cup {c}
  /\ queues' = queues \ {c}
  /\ UNCHANGED <<source, running, pumped, queue, waiting, dropped, leaving, first, got>>

\* return() before the first next(): the body never ran, nor does `finally'.
ReturnFresh(c) ==
  /\ generator[c] = "fresh"
  /\ generator' = [generator EXCEPT ![c] = "done"]
  /\ UNCHANGED <<source, running, pumped, queues, queueVars, leaving, first, got>>

\* return() while next() is pending is queued behind it.
ReturnPending(c) ==
  /\ generator[c] = "asking"
  /\ leaving' = leaving \cup {c}
  /\ UNCHANGED <<source, running, pumped, queues, queueVars, generator, first, got>>

-----------------------------------------------------------------------------
\* start() has run.
Init ==
  /\ source = "open" /\ running = TRUE
  /\ pumped = 0
  /\ queues = {}
  /\ queue = [c \in Clients |-> <<>>]
  /\ waiting = {} /\ closed = {}
  /\ dropped = [c \in Clients |-> 0]
  /\ generator = [c \in Clients |-> "none"]
  /\ leaving = {}
  /\ first = [c \in Clients |-> 0]
  /\ got = [c \in Clients |-> <<>>]

Client(c) == Subscribe(c) \/ Ask(c) \/ Return(c) \/ ReturnFresh(c) \/ ReturnPending(c)

Next == Pump \/ SourceEnds \/ Stop \/ \E c \in Clients : Client(c)

Spec == Init /\ [][Next]_vars

(* A client keeps asking; an aborted source returns.  Frames need not come. *)
FairSpec ==
  /\ Spec
  /\ \A c \in Clients : WF_vars(Ask(c))
  /\ WF_vars(source = "returning" /\ SourceEnds)

-----------------------------------------------------------------------------
(* Properties.                                                             *)

\* Type invariant of the fanout; only an open queue has a waiting consumer.
TypeOK ==
  /\ source \in {"open", "returning", "ended"} /\ running \in BOOLEAN
  /\ pumped \in 0 .. MaxFrames
  /\ queues \subseteq Clients /\ waiting \subseteq Clients /\ closed \subseteq Clients
  /\ leaving \subseteq Clients
  /\ queue \in [Clients -> Seq(Nat)]
  /\ dropped \in [Clients -> Nat]
  /\ generator \in [Clients -> {"none", "fresh", "asking", "yielded", "done"}]
  /\ first \in [Clients -> Nat]
  /\ got \in [Clients -> Seq(Nat)]
  /\ \A c \in Clients : c \in waiting <=> generator[c] = "asking"
  /\ \A c \in Clients : Len(queue[c]) <= MaxItems

\* "Keeps the newest items and evicts the oldest", and the loss is "reported,
\* never silent": what a client got or has buffered is in the camera's order,
\* its backlog ends with the latest frame without a gap, and each frame since it
\* subscribed was handed over, is buffered, or is counted as dropped.  Nothing
\* is buffered behind a consumer that waits.
LossCounted ==
  \A c \in queues :
    /\ \A i, j \in DOMAIN got[c] : i < j => got[c][i] < got[c][j]
    /\ \A i \in DOMAIN queue[c] : queue[c][i] = pumped - Len(queue[c]) + i
    /\ \A i \in DOMAIN got[c] : queue[c] # <<>> => got[c][i] < Head(queue[c])
    /\ Len(got[c]) + Len(queue[c]) + dropped[c] = pumped - first[c] + 1
    /\ c \in waiting => queue[c] = <<>>

\* When the source has ended no client keeps waiting for a frame: push(),
\* next(), close() and return() leave no consumer behind, in any order.
EndReachesAll ==
  source = "ended" ~> \A c \in Clients : generator[c] \in {"none", "done"}
=============================================================================
