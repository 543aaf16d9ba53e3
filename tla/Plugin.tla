------------------------------- MODULE Plugin -------------------------------
(***************************************************************************)
(* The network thread and the main thread as wholes: LircThread and        *)
(* RemoteKey composed. The thread of the one is the thread of the other:   *)
(* it goes through its loop while it has no line to pass on, and a line    *)
(* that readn returns is passed on before it goes round. The main thread   *)
(* handles one thing at a time, opens the dialog before the settings can   *)
(* be changed, and does nothing more once it waits in on_quit.             *)
(*                                                                         *)
(* Here inbox and the buffer of readn hold the lines that LircThread only  *)
(* counts.                                                                 *)
(***************************************************************************)
EXTENDS Naturals, Sequences

CONSTANTS Keys, Remotes, Actions, NoAction, MaxThrows,         \* of RemoteKey
          Addrs, Ports, Hosts, BUF_SIZ, MaxFaults, MaxEdits,   \* of LircThread
          MaxLines                                             \* of both

ASSUME BoundsAssumption == MaxLines \in Nat
ASSUME BufferAssumption == BUF_SIZ \in Nat \ {0}

VARIABLES
  received, net, lirc, cs, exec, config, queue, main, job, action, fields, bind,
  raced, thrown, crashed,                                      \* of RemoteKey
  pc, s, dest, state, enabled, port, addr, cfg_enabled, cfg_addr, destroy,
  listening, link, sends, faults, edits,                       \* of LircThread
  inbox,  \* the lines that arrived and were not read
  buf,    \* the lines in the buffer of readn
  late    \* lines passed on since the component was switched off, or on_quit

keyVars == <<received, net, lirc, cs, exec, config, queue, main, job, action, fields, bind,
             raced, thrown, crashed>>
linkVars == <<pc, s, dest, state, enabled, port, addr, cfg_enabled, cfg_addr, destroy,
              listening, link, sends, faults, edits>>
vars == <<keyVars, linkVars, inbox, buf, late>>

Path == INSTANCE RemoteKey
Loop == INSTANCE LircThread
          WITH c <- Len(buf), inbox <- Len(inbox), MaxSends <- MaxLines

Init ==
  /\ inbox = <<>> /\ buf = <<>> /\ late = 0
  /\ Path!Init /\ Loop!Init

-----------------------------------------------------------------------------
(* The network thread.                                                     *)

\* Steps of the loop are taken with no line to pass on.
Looping == net = "recv" /\ UNCHANGED <<keyVars, late>>

LoopStep ==
  /\ Looping
  /\ \/ /\ UNCHANGED <<inbox, buf>>
        /\ \/ Loop!ChecksEnabled \/ Loop!ReadsAddress \/ Loop!ReadsPort
           \/ Loop!ConnectFails \/ Loop!ShowsConnected \/ Loop!ChecksEnabledAgain
           \/ Loop!ReadnFindsClosed \/ Loop!ReadnFails
           \/ Loop!Disables \/ Loop!Loops \/ Loop!Pauses
     \/ inbox' = <<>> /\ UNCHANGED buf /\ (Loop!Connects \/ Loop!Out)
     \/ buf' = <<>> /\ UNCHANGED inbox /\ Loop!Selects

SelectFails == Looping /\ UNCHANGED <<inbox, buf>> /\ Loop!SelectFails

\* Faulty variant: a buffer with room for one more line is taken for full.
FullTooEarly ==
  LET rest == BUF_SIZ - Len(buf)
      n == IF Len(inbox) < rest THEN Len(inbox) ELSE rest
  IN  /\ Looping
      /\ pc = "readn" /\ inbox # <<>>
      /\ buf' = buf \o SubSeq(inbox, 1, n)
      /\ inbox' = SubSeq(inbox, n + 1, Len(inbox))
      /\ pc' = IF n + 1 >= rest THEN "full" ELSE "readn"
      /\ UNCHANGED <<s, dest, state, enabled, port, addr, cfg_enabled, cfg_addr, destroy,
                     listening, link, sends, faults, edits>>

Receives ==
  LET rest == BUF_SIZ - Len(buf)
      n == IF Len(inbox) < rest THEN Len(inbox) ELSE rest
  IN  /\ Looping
      /\ pc = "readn" /\ inbox # <<>>
      /\ buf' = buf \o SubSeq(inbox, 1, n)
      /\ inbox' = SubSeq(inbox, n + 1, Len(inbox))
      /\ pc' = IF n = rest THEN "full" ELSE "readn"
      /\ UNCHANGED <<s, dest, state, enabled, port, addr, cfg_enabled, cfg_addr, destroy,
                     listening, link, sends, faults, edits>>

\* Faulty variant: a key that nobody looks for is not stored.
ReadnReturnsUnstored ==
  /\ net = "recv" /\ pc = "readn" /\ inbox = <<>> /\ link = "up" /\ buf # <<>>
  /\ pc' = "while"
  /\ received' = Append(received, Head(buf)) /\ net' = "check"
  /\ late' = IF enabled /\ ~ destroy THEN late ELSE late + 1
  /\ UNCHANGED <<lirc, cs, exec, config, queue, main, job, action, fields, bind, raced, thrown,
                 crashed, s, dest, state, enabled, port, addr, cfg_enabled, cfg_addr, destroy,
                 listening, link, sends, faults, edits, inbox, buf>>

\* The first line is passed on, the others are dropped.
ReadnReturns ==
  /\ net = "recv" /\ pc = "readn" /\ inbox = <<>> /\ link = "up" /\ buf # <<>>
  /\ pc' = "while"
  /\ received' = Append(received, Head(buf)) /\ net' = "store"
  /\ late' = IF enabled /\ ~ destroy THEN late ELSE late + 1
  /\ UNCHANGED <<lirc, cs, exec, config, queue, main, job, action, fields, bind, raced, thrown,
                 crashed, s, dest, state, enabled, port, addr, cfg_enabled, cfg_addr, destroy,
                 listening, link, sends, faults, edits, inbox, buf>>

PassesOn == Path!NetStep /\ UNCHANGED <<linkVars, inbox, buf, late>>

NetThread == LoopStep \/ Receives \/ ReadnReturns \/ PassesOn

-----------------------------------------------------------------------------
(* The daemon and the network.                                             *)

DaemonSends ==
  /\ sends < MaxLines /\ link = "up"
  /\ \E p \in Path!Pairs : inbox' = Append(inbox, p)
  /\ sends' = sends + 1
  /\ UNCHANGED <<keyVars, pc, s, dest, state, enabled, port, addr, cfg_enabled, cfg_addr,
                 destroy, listening, link, faults, edits, buf, late>>

LinkBreaks ==
  /\ inbox' = <<>>
  /\ UNCHANGED <<keyVars, buf, late>>
  /\ Loop!LinkBreaks

DaemonMoves ==
  /\ UNCHANGED <<keyVars, inbox, buf, late>>
  /\ Loop!DaemonCloses \/ Loop!DaemonStarts \/ Loop!DaemonStops

-----------------------------------------------------------------------------
(* The main thread.                                                        *)

\* Messages, commands and the buttons of the assignments.
MainHandles ==
  /\ ~ destroy
  /\ Path!MainStep
  /\ UNCHANGED <<linkVars, inbox, buf, late>>

UserAssigns ==
  /\ ~ destroy
  /\ Path!UserStep
  /\ UNCHANGED <<linkVars, inbox, buf, late>>

\* The settings are changed in the dialog, between two messages.
UserConfigures ==
  /\ main = "idle" /\ config
  /\ UNCHANGED <<keyVars, inbox, buf>>
  /\ \/ Loop!OnIpnFieldchangedIpaddress \/ Loop!OnEnChangePort \/ Loop!OnBnClickedApply
  /\ late' = IF enabled' THEN 0 ELSE late

\* The player ends with no dialog open. From here on the main thread waits for
\* the network thread.
on_quit ==
  /\ main = "idle" /\ ~ config
  /\ UNCHANGED <<keyVars, inbox, buf, late>>
  /\ Loop!on_quit

-----------------------------------------------------------------------------
\* The plug-in has ended, or the process is gone.
Over == (crashed \/ pc = "exited") /\ UNCHANGED vars

Next ==
  \/ ~ crashed /\ \/ NetThread \/ SelectFails
                  \/ DaemonSends \/ LinkBreaks \/ DaemonMoves
                  \/ MainHandles \/ UserAssigns \/ UserConfigures \/ on_quit
  \/ Over

Spec == Init /\ [][Next]_vars

\* Both threads run; the daemon, the network and the user do what they like.
FairSpec ==
  /\ Spec
  /\ WF_vars(~ crashed /\ NetThread)
  /\ WF_vars(~ crashed /\ MainHandles)

-----------------------------------------------------------------------------
(* Properties.                                                             *)

\* After the component was switched off in the dialog, or on_quit has begun,
\* the thread passes on one more line at most, wherever it was.
LateLine == late <= 1

\* What holds of the key path and of the loop by themselves holds of the whole
\* plug-in: the composition takes their steps and no others.
ImplementsPath == Path!Spec
ImplementsLoop == Loop!Spec

\* The wait of on_quit ends: the thread comes out of its loop also when it has
\* lines to pass on, and when a command that threw has kept
\* global_execute_cs.
QuitEnds == destroy ~> pc = "exited" \/ crashed
=============================================================================
