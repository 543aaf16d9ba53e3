------------------------------ MODULE MCCfgStore ------------------------------
(* Bounds of the runs on CfgStore: up to two of three assignments, with    *)
(* keys of one and two letters, one key on two remote controls, and ports  *)
(* of one and two bytes.                                                   *)
EXTENDS CfgStore

Assignments ==
  {[kn |-> <<65>>, rn |-> <<82>>, naction |-> 1],
   [kn |-> <<65>>, rn |-> <<83>>, naction |-> 0],
   [kn |-> <<66, 66>>, rn |-> <<82>>, naction |-> 16]}

UpToTwo == {<<>>} \cup {<<a>> : a \in Assignments} \cup Assignments \X Assignments

UsedPorts == {80, 8765}
=============================================================================
