----------------------------- MODULE MCRouteSync -----------------------------
(* Instances of RouteSync for TLC.                                         *)
EXTENDS RouteSync, TLC

CONSTANTS t1, t2, a, b, A, r1, r2

\* Two hosts, each spelled in lower case.
PlainLower == [x \in Addrs |-> x]

\* One host, spelled in lower case (a) and in mixed case (A).
MixedLower == [x \in Addrs |-> a]

OneOrNone == {{}, {a}}
EitherSpelling == {{a}, {A}}
TwoHosts == {{a}, {b}}

\* A first start; a tenant with address a at work; one marked for removal.
NoTenants == [t \in Tenants |-> None]
Started(removed) ==
    [t \in Tenants |->
        IF t = t1
        THEN [sites |-> IF removed THEN {} ELSE {a}, active |-> TRUE,
              removed |-> removed]
        ELSE None]
AtWork == {Started(FALSE)}
Marked == {Started(TRUE)}
AnyStart == {NoTenants, Started(FALSE), Started(TRUE)}
ItsRoute == {{<<t1, a>>}}
SomeRoutes == {{}, {<<t1, a>>}}

Symmetric == Permutations(Requests)
==============================================================================
