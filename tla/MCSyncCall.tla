------------------------------ MODULE MCSyncCall ------------------------------
(* Instances of SyncCall for TLC.                                          *)
EXTENDS SyncCall

CONSTANTS c1
===============================================================================
