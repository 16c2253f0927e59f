---------------------------- MODULE MCDTLSRecord ----------------------------
(* A small instance of DTLSRecord for TLC. *)
EXTENDS DTLSRecord
=============================================================================
