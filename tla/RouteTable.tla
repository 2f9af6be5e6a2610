------------------------------ MODULE RouteTable ------------------------------
(***************************************************************************)
(* What the synchronisation promises, without its goroutines, channel,     *)
(* cache and work lists: a table of tenants that anybody may change, row   *)
(* by row, and a cloud that only passes change, each going by one reading  *)
(* of the table for the routes it deletes and by one that is not older for *)
(* the routes it creates.                                                  *)
(***************************************************************************)
CONSTANTS Tenants, Addrs, Lower, Row, None

VARIABLES
    tenantDns,      \* tenant -> row or None
    routes,         \* set of <<tenant, address>>
    phase,          \* of the pass: "idle", "deleting" or "creating"
    basis           \* the reading of the table the pass goes by

vars == <<tenantDns, routes, phase, basis>>

NoRows == [t \in Tenants |-> None]

\* Some active tenant of the table has the address of the route.
CalledFor(r, table) ==
    table[r[1]] # None /\ table[r[1]].active /\ r[2] \in table[r[1]].sites

\* ... or, for the cloud, the host: addresses that differ in case are one host.
Owned(r, table) ==
    \E t \in Tenants, a \in Addrs :
        CalledFor(<<t, a>>, table) /\ Lower[a] = Lower[r[2]]

Init ==
    /\ tenantDns \in [Tenants -> Row \union {None}]
    /\ routes \subseteq Tenants \X Addrs
    /\ phase = "idle" /\ basis = NoRows

\* A request, or the purge of a removed tenant.
Change(t) ==
    /\ \E row \in Row \union {None} :
          tenantDns' = [tenantDns EXCEPT ![t] = row]
    /\ UNCHANGED <<routes, phase, basis>>

Begin ==
    /\ phase = "idle"
    /\ phase' = "deleting" /\ basis' = tenantDns
    /\ UNCHANGED <<tenantDns, routes>>

\* Only a route whose host nobody has goes.
Delete(r) ==
    /\ phase = "deleting" /\ r \in routes
    /\ ~Owned(r, basis)
    /\ routes' = routes \ {r}
    /\ UNCHANGED <<tenantDns, phase, basis>>

Turn ==
    /\ phase = "deleting"
    /\ phase' = "creating" /\ basis' \in {basis, tenantDns}
    /\ UNCHANGED <<tenantDns, routes>>

\* Only a route that an active tenant calls for comes, and all deletions of the
\* pass are over by then.
Create(r) ==
    /\ phase = "creating" /\ r \notin routes
    /\ CalledFor(r, basis)
    /\ routes' = routes \union {r}
    /\ UNCHANGED <<tenantDns, phase, basis>>

\* A pass ends, or its process does.
End ==
    /\ phase # "idle"
    /\ phase' = "idle" /\ basis' = NoRows
    /\ UNCHANGED <<tenantDns, routes>>

Next ==
    \/ \E t \in Tenants : Change(t)
    \/ \E r \in Tenants \X Addrs : Delete(r) \/ Create(r)
    \/ Begin \/ Turn \/ End

Spec == Init /\ [][Next]_vars
===============================================================================
