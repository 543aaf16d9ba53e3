------------------------------ MODULE MCShutdown ------------------------------
(* Shutdown with the ten seconds of WaitForSingleObject in ticks of half a *)
(* second.                                                                 *)
EXTENDS Shutdown

TenSeconds == 20
===============================================================================
