---- MODULE MCSocketPool ----
(* Instances of SocketPool for TLC. *)
EXTENDS SocketPool, TLC

\* A live stream (its main and sub profile share a tag) and a replay.
MCKeys == {Live(0, "main"), Replay(0)}

\* Consumers are interchangeable; no liveness is checked.
UserSymmetry == Permutations(Users)
====
