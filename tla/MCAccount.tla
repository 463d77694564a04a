------------------------------ MODULE MCAccount ------------------------------
(***************************************************************************)
(* A small instance of Account for TLC.                                    *)
(***************************************************************************)
EXTENDS Account, TLC

CONSTANTS e1, e2, p1, p2, x1

MCCredential == {<<e1, p1>>, <<e1, p2>>, <<e2, p1>>}

MCSeed == {[email |-> e1, password |-> p1, slug |-> x1]}
=============================================================================
