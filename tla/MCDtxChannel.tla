---------------------------- MODULE MCDtxChannel ----------------------------
(* Small instances of DtxChannel for TLC. *)
EXTENDS DtxChannel

=============================================================================
