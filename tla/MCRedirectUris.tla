---------------------------- MODULE MCRedirectUris ----------------------------
(* Instances of RedirectUris for TLC.                                      *)
EXTENDS RedirectUris, TLC

CONSTANTS h1, timer, callback, s1, s2, s3

MCFirstUris == {[h \in Hosts |-> 1]}

===============================================================================
