---------------------------- MODULE MCLircThread ----------------------------
(* LircThread with a daemon at each of two addresses, at the same one of    *)
(* two ports: a change from the other address and the other port to the     *)
(* first daemon goes, port first, through the second.                       *)
EXTENDS LircThread

CONSTANTS home, other   \* the addresses

Listeners == {<<home, 1>>, <<other, 1>>}
=============================================================================
