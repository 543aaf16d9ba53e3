---------------------------- MODULE MCRemoteKey ----------------------------
(* RemoteKey with the bounds of RemoteKey.cfg: two buttons of one remote    *)
(* control and two actions, so that a pair can be taken, changed and freed. *)
EXTENDS RemoteKey
=============================================================================
