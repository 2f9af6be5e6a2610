----------------------------- MODULE MCTenantFeed -----------------------------
(* Instances of TenantFeed for TLC.                                        *)
EXTENDS TenantFeed, TLC

CONSTANTS t1, t2

\* One tenant is known from the start, the other one is or appears later.
MCManagers == {t1 :> "ACTIVE" @@ t2 :> "unknown",
               t1 :> "SUSPENDED" @@ t2 :> "ACTIVE"}

\* A first start, one on rows that are out of date, and one on a row that was
\* marked and not yet purged: the loader of the last run had an older list.
StaleRow == [active |-> TRUE, removed |-> FALSE]
MarkedRow == [active |-> FALSE, removed |-> TRUE]
MCTables == {[t \in Tenants |-> None], [t \in Tenants |-> StaleRow],
             t1 :> MarkedRow @@ t2 :> None}
===============================================================================
