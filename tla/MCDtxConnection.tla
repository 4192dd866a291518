---------------------------- MODULE MCDtxConnection ----------------------------
(* A small instance of DtxConnection for TLC. *)
EXTENDS DtxConnection

===============================================================================
