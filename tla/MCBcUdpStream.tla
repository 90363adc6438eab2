---------------------------- MODULE MCBcUdpStream ----------------------------
(* Small instances of BcUdpStream for TLC. *)
EXTENDS BcUdpStream

CONSTANT MaxPackets  \* bound: packets of both directions together

\* Bound for the safety properties.
Budget == camNext + written <= MaxPackets
StreamSpec == Init /\ [][Next /\ Budget']_vars

\* Bound for the progress properties: packets flow in one direction, and the
\* camera changes its port only while it is the client that sends.
OneDirection == camNext = 0 \/ (written = 0 /\ camMoves = 0)
\* The port the camera starts with does not matter.
LiveInit == Init /\ remote = CHOOSE p \in Ports : TRUE
LiveSpec == LiveInit /\ [][Next /\ OneDirection']_vars /\ Fairness
=============================================================================
