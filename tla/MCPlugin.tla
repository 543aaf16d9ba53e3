------------------------------ MODULE MCPlugin ------------------------------
(* The smallest plug-in with all of its parts: one pair of a button and a   *)
(* remote control with one action, and one address and port.               *)
EXTENDS Plugin

CONSTANTS home   \* the address

Listeners == {<<home, 1>>}
=============================================================================
