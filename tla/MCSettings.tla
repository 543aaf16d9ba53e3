------------------------------ MODULE MCSettings ------------------------------
(* Settings with two addresses, and ports on both sides of 16 bits: the    *)
(* second one is 8765 + 65536.                                             *)
EXTENDS Settings

CONSTANTS local, other   \* the addresses

PortNumbersTyped == {8765, 74301}
===============================================================================
