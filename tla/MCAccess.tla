------------------------------ MODULE MCAccess ------------------------------
(***************************************************************************)
(* A small instance of Access for TLC.                                     *)
(***************************************************************************)
EXTENDS Access, TLC

CONSTANTS t1, t2, u1, u2

Symmetry == Permutations(Request)

MCFounder == t1 :> u1 @@ t2 :> u2

\* All that is done in t1; t2 is where its members and its key do not belong.
MCOp == t1 :> {"addMember", "createKey", "revokeKey", "writeProject"}
     @@ t2 :> {"writeProject"}

\* A key for good, one that expires, one for what is kept to people, and one without a scope.
MCAsked == {[scopes |-> {"project:write"}, expires |-> None],
            [scopes |-> {"project:write"}, expires |-> 1],
            [scopes |-> {"member:manage"}, expires |-> None],
            [scopes |-> {}, expires |-> None]}
=============================================================================
