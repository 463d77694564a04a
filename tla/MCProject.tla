------------------------------ MODULE MCProject ------------------------------
(***************************************************************************)
(* A small instance of Project for TLC.                                    *)
(***************************************************************************)
EXTENDS Project, TLC
=============================================================================
