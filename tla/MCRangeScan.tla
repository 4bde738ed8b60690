---------------------------- MODULE MCRangeScan ----------------------------
(* RangeScan for TLC. *)
EXTENDS RangeScan
============================================================================
