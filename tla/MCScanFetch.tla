---------------------------- MODULE MCScanFetch ----------------------------
(* ScanFetch for TLC. *)
EXTENDS ScanFetch
============================================================================
