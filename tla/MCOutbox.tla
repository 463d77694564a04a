------------------------------ MODULE MCOutbox ------------------------------
(***************************************************************************)
(* Small instances of Outbox for TLC.                                      *)
(***************************************************************************)
EXTENDS Outbox

\* The backoff schedule, in ticks.
OneStep == <<1>>
=============================================================================
