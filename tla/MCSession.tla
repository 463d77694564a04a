------------------------------ MODULE MCSession ------------------------------
(***************************************************************************)
(* A small instance of Session for TLC.                                    *)
(***************************************************************************)
EXTENDS Session, TLC

\* Tokens, families and requests are interchangeable.
Interchangeable == Permutations(Token) \cup Permutations(Request) \cup Permutations(Family)
=============================================================================
