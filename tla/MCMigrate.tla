----------------------------- MODULE MCMigrate -----------------------------
(***************************************************************************)
(* A small instance of Migrate for TLC: two releases, and one in which a   *)
(* file was edited after it had been released.                             *)
(***************************************************************************)
EXTENDS Migrate, TLC

CONSTANTS old, new, edited

Release(sums) == [i \in 1 .. Len(sums) |-> [version |-> i, sum |-> sums[i]]]

MCFiles == old :> Release(<<"a", "b">>) @@ new :> Release(<<"a", "b", "c">>)
        @@ edited :> Release(<<"a", "b2", "c">>)
=============================================================================
