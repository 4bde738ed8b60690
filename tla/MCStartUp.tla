----------------------------- MODULE MCStartUp -----------------------------
(* StartUp for TLC. *)
EXTENDS StartUp
=============================================================================
