---------------------------- MODULE OrderedScan ----------------------------
(***************************************************************************)
(* What a scan promises its caller: the rows of the query, each once and   *)
(* in order, then the end; or an error, after which nothing follows.  The  *)
(* end follows the last row the store has sent.  That is the last row of   *)
(* the query, or the store has just sent an empty page in the middle.      *)
(***************************************************************************)
EXTENDS Naturals, Sequences

CONSTANT Rows    \* how many rows the query has

VARIABLES
  out,    \* rows handed to the caller, by their number
  phase,  \* "scanning", "eof" or "error"
  sent,   \* rows the store has sent
  hole    \* did the store just send an empty page while rows remain

vars == <<out, phase, sent, hole>>

Init == out = <<>> /\ phase = "scanning" /\ sent = 0 /\ hole = FALSE

(* the store sends some of the rows that remain, or an empty page *)
Page ==
  /\ sent' \in sent..Rows
  /\ hole' \in BOOLEAN
  /\ hole' => sent' = sent /\ sent < Rows

Emit ==
  /\ phase = "scanning"
  /\ Page
  /\ Len(out) < sent'
  /\ out' = Append(out, Len(out) + 1)
  /\ UNCHANGED phase

Eof ==
  /\ phase = "scanning"
  /\ Page
  /\ Len(out) = sent'
  /\ sent' = Rows \/ hole'
  /\ phase' = "eof"
  /\ UNCHANGED out

Fail ==
  /\ phase = "scanning"
  /\ phase' = "error"
  /\ UNCHANGED <<out, sent, hole>>

Next == Emit \/ Eof \/ Fail

Spec == Init /\ [][Next]_vars
=============================================================================
