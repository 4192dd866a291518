----------------------------- MODULE MCHttpStreams -----------------------------
(* A small instance of HttpStreams for TLC. *)
EXTENDS HttpStreams

===============================================================================
