---------------------------- MODULE MCUdpReceive ----------------------------
EXTENDS UdpReceive, TLC

Symmetry == Permutations(Packets) \cup Permutations(Sockets) \cup Permutations(Ports)
=============================================================================
