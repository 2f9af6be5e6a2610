------------------------------- MODULE MCStartup -------------------------------
(* Instances of Startup for TLC.                                           *)
EXTENDS Startup

CONSTANTS i1, i2, t1, t2, h1, h2

MCClouds == {{<<t1, h1>>, <<t2, h2>>}, {<<t1, h1>>, <<t1, h2>>}}
===============================================================================
