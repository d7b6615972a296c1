------------------------------- MODULE MCTunnel ------------------------------
(* Instances of DeviceTunnel for TLC.                                          *)
EXTENDS DeviceTunnel

CONSTANTS s1, s2, g1

\* The engine's own steps and its timers happen; the companion need not come.
TunnelFairSpec == TunnelSpec /\ WF_tunnelVars(TunnelProgress)
=============================================================================
