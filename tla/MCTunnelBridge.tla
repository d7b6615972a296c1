---------------------------- MODULE MCTunnelBridge ---------------------------
(* Instances of TunnelBridge for TLC.  Connections are interchangeable.        *)
EXTENDS TunnelBridge

CONSTANTS c1, c2

Symmetry == Permutations(Conns)
=============================================================================
