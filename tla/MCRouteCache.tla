----------------------------- MODULE MCRouteCache -----------------------------
(* Instances of RouteCache for TLC.                                        *)
EXTENDS RouteCache, TLC

CONSTANTS home, other, k1, k2, w1, w2, w3, g1
===============================================================================
