----------------------------- MODULE MCUdpSocket -----------------------------
(* UdpSocket on small sets, whose members are alike. *)
EXTENDS UdpSocket, TLC

Alike == Permutations(Sockets) \cup Permutations(Pcbs)
===============================================================================
