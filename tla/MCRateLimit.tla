---------------------------- MODULE MCRateLimit ----------------------------
(***************************************************************************)
(* A small instance of RateLimit for TLC: three addresses that log in,     *)
(* directly and through proxies, with headers of their own, the refresh    *)
(* route, two tenants with members and API keys, and a person and a key    *)
(* outside the tenants.                                                    *)
(***************************************************************************)
EXTENDS RateLimit, TLC

CONSTANTS a1, a2, a3, p1, p2, t1, t2, u1

At(route, origin, via, adds, xff, forwarded) ==
    [route |-> route, origin |-> origin, via |-> via, adds |-> adds, xff |-> xff,
     forwarded |-> forwarded, user |-> NoUser, tenant |-> None]

As(route, user, tenant) ==
    [route |-> route, origin |-> a1, via |-> <<>>, adds |-> "xff", xff |-> <<>>,
     forwarded |-> <<>>, user |-> user, tenant |-> tenant]

\* The last caller of each kind is misplaced: on the key of a2, and on the one key of all API keys.
MCCaller ==
    {At("login", a1, <<>>, "xff", <<a2>>, <<a2>>),
     At("login", a1, <<p1>>, "xff", <<a2>>, <<>>),
     At("login", a1, <<p1, p2>>, "forwarded", <<a2>>, <<Garbage>>),
     At("refresh", a1, <<p1>>, "xff", <<>>, <<>>),
     At("login", a2, <<>>, "xff", <<>>, <<>>),
     At("login", a3, <<p1>>, "xff", <<>>, <<a2>>),
     As("tenant", u1, t1), As("tenant", NoUser, t1), As("tenant", NoUser, t2), As("me", u1, None),
     As("me", NoUser, t2)}

MCLimit  == "login" :> 1 @@ "refresh_ip" :> 1 @@ "api" :> 2
MCWindow == "login" :> 3 @@ "refresh_ip" :> 3 @@ "api" :> 2
=============================================================================
