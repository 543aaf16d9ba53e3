----------------------------- MODULE MCLineStream -----------------------------
(* Names for the runs on LineStream: a button that is a hexadecimal number *)
(* and one that is not, and a remote control of two words. A line has 10   *)
(* or 12 characters; BUF_SIZ is two of the longer ones, so that two lines  *)
(* may fill the buffer exactly.                                            *)
EXTENDS LineStream

ButtonNames == {<<"K", "L">>, <<"1", "e">>}

RemoteNames == {<<"R">>, <<"R", " ", "S">>}
===============================================================================
