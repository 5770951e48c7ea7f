----------------------------- MODULE MCSessions -----------------------------
(* Sessions for TLC: slots are interchangeable, and the end is looked at   *)
(* with at most two connections and one packet.                            *)
EXTENDS Sessions

StopBound ==
  \/ phase = "running"
  \/ phase = "stopping" /\ Connections <= 2 /\ \A c \in Clients : Packets(c) <= 1

Symmetry == Permutations(Slots)
=============================================================================
