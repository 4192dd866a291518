------------------------------ MODULE MCDtxEvents ------------------------------
(* A small instance of DtxEvents for TLC. *)
EXTENDS DtxEvents

===============================================================================
