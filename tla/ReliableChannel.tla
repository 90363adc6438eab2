--------------------------- MODULE ReliableChannel ---------------------------
(***************************************************************************)
(* What BcUdpStream promises its owner (the class comment calls it a       *)
(* reliable "byte stream"), without datagrams, acknowledgements or timers: *)
(* two FIFO channels, one per direction, and a connection that may be      *)
(* closed for good.  Packets are numbered from 0 in the order they are     *)
(* sent, so a channel's content is its count of packets.                   *)
(***************************************************************************)
EXTENDS Naturals, Sequences

VARIABLES
  open,       \* the connection has not been closed
  offered,    \* number of packets the camera has sent
  delivered,  \* the sequence of packets handed to the client's listener
  written,    \* number of packets the client has written
  arrived     \* number of packets the camera's application can read in order

channelVars == <<open, offered, delivered, written, arrived>>

Init ==
  /\ open = TRUE
  /\ offered = 0
  /\ delivered = <<>>
  /\ written = 0
  /\ arrived = 0

Offer ==
  /\ offered' = offered + 1
  /\ UNCHANGED <<open, delivered, written, arrived>>

\* One or more packets reach the listener, each one exactly once and in order.
Deliver ==
  /\ open
  /\ \E n \in Len(delivered) + 1 .. offered :
        delivered' = [i \in 1 .. n |-> i - 1]
  /\ UNCHANGED <<open, offered, written, arrived>>

Write ==
  /\ open
  /\ written' > written
  /\ written' \in Nat
  /\ UNCHANGED <<open, offered, delivered, arrived>>

Arrive ==
  /\ arrived' \in arrived + 1 .. written
  /\ UNCHANGED <<open, offered, delivered, written>>

Close ==
  /\ open
  /\ open' = FALSE
  /\ UNCHANGED <<offered, delivered, written, arrived>>

Next == Offer \/ Deliver \/ Write \/ Arrive \/ Close

Spec == Init /\ [][Next]_channelVars
=============================================================================
