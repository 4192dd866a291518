--------------------------- MODULE MCTunnelManager ---------------------------
(* A small instance of TunnelManager for TLC. *)
EXTENDS TunnelManager

===============================================================================
