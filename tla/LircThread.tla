----------------------------- MODULE LircThread -----------------------------
(***************************************************************************)
(* The network thread's connection to the LIRC daemon                      *)
(* (wdevlircthread_callback, readn and create_tcp_client), the settings    *)
(* that the dialog changes while the thread uses them, and the end of the  *)
(* plug-in. What the thread does with a line is RemoteKey.                 *)
(*                                                                         *)
(* A step is what the thread does between two accesses to what the main    *)
(* thread or the daemon changes. Received data is counted in lines: readn  *)
(* takes at most BUF_SIZ of them, and only the first of what one readn     *)
(* returns is used. A connection that breaks loses what was not read.      *)
(* Whoever listens on one of Hosts accepts the thread's connection and may *)
(* send it lines: dest is the peer while there is one.                     *)
(***************************************************************************)
EXTENDS Naturals

CONSTANTS
  Addrs,       \* addresses the user may set
  Ports,       \* ports the user may set
  Hosts,       \* addresses and ports where somebody may listen
  BUF_SIZ,     \* lines that fill the buffer of readn
  MaxSends,    \* bound: lines the daemon sends
  MaxFaults,   \* bound: times a socket call fails, or a peer stops or loses a connection
  MaxEdits     \* bound: changes the user makes in the dialog

ASSUME HostsAssumption == Hosts \subseteq Addrs \X Ports
ASSUME SizeAssumption == BUF_SIZ \in Nat /\ BUF_SIZ > 0
ASSUME BoundsAssumption == MaxSends \in Nat /\ MaxFaults \in Nat /\ MaxEdits \in Nat

VARIABLES
  pc,          \* where the thread is
  s,           \* its socket: "open", "none" (-1), or "garbage" when never set
  c,           \* lines readn has got so far
  dest,        \* the address and port it has read for connect
  state,       \* global_state
  enabled,     \* global_enabled = COMPONENT_ENABLED
  port,        \* global_port, always the same as g_config_port
  addr,        \* global_addr
  cfg_enabled, \* g_config_enabled
  cfg_addr,    \* g_config_addr
  destroy,     \* global_event = COMPONENT_EVENT_DESTROY
  listening,   \* the hosts that listen
  link,        \* the connection of s: "none", "up", "closed" by the peer, "reset"
  inbox,       \* lines that arrived on it and were not read
  sends, faults, edits   \* how often, for the bounds

threadVars == <<pc, s, c, dest, state>>
settings == <<enabled, port, addr, cfg_enabled, cfg_addr>>
daemonVars == <<listening, link, inbox>>
counts == <<sends, faults, edits>>
vars == <<pc, s, c, dest, state, enabled, port, addr, cfg_enabled, cfg_addr, destroy,
          listening, link, inbox, sends, faults, edits>>

Init ==
  /\ pc = "top" /\ s = "garbage" /\ c = 0
  /\ state = "disconnected"
  /\ enabled \in BOOLEAN /\ cfg_enabled = enabled
  /\ port \in Ports
  /\ addr \in Addrs /\ cfg_addr = addr
  /\ dest = <<addr, port>>
  /\ destroy = FALSE
  /\ listening \in SUBSET Hosts /\ link = "none" /\ inbox = 0
  /\ sends = 0 /\ faults = 0 /\ edits = 0

Goes(from, to) == pc = from /\ pc' = to

-----------------------------------------------------------------------------
(* Connecting.                                                             *)

\* `goto out' leaves s as it is in this turn of the loop: not initialised.
ChecksEnabled ==
  /\ \/ enabled /\ Goes("top", "address") /\ UNCHANGED s
     \/ ~enabled /\ Goes("top", "out") /\ s' \in {"none", "garbage"}
  /\ UNCHANGED <<c, dest, state, settings, destroy, daemonVars, counts>>

\* Faulty variant: the thread keeps the address it started with.
KeepsAddress ==
  /\ Goes("address", "port")
  /\ state' = "connecting"
  /\ UNCHANGED <<s, c, dest, settings, destroy, daemonVars, counts>>

ReadsAddress ==
  /\ Goes("address", "port")
  /\ state' = "connecting"
  /\ dest' = <<addr, dest[2]>>
  /\ UNCHANGED <<s, c, settings, destroy, daemonVars, counts>>

ReadsPort ==
  /\ Goes("port", "connect")
  /\ dest' = <<dest[1], port>>
  /\ UNCHANGED <<s, c, state, settings, destroy, daemonVars, counts>>

\* Whoever listens there accepts.
Connects ==
  /\ dest \in listening
  /\ Goes("connect", "connected")
  /\ s' = "open" /\ link' = "up" /\ inbox' = 0
  /\ UNCHANGED <<c, dest, state, settings, destroy, listening, counts>>

\* Faulty variant: a failed connect breaks out of the outer loop.
FailureEndsThread ==
  /\ Goes("connect", "exited")
  /\ \/ dest \notin listening /\ UNCHANGED faults
     \/ dest \in listening /\ faults < MaxFaults /\ faults' = faults + 1
  /\ s' = "none"
  /\ state' = "failed"
  /\ UNCHANGED <<c, dest, settings, destroy, daemonVars, sends, edits>>

\* Nobody listens there, or socket, connect or setnonblockopt fails although
\* somebody does.
ConnectFails ==
  /\ Goes("connect", "out")
  /\ \/ dest \notin listening /\ UNCHANGED faults
     \/ dest \in listening /\ faults < MaxFaults /\ faults' = faults + 1
  /\ s' = "none"
  /\ state' = "failed"
  /\ UNCHANGED <<c, dest, settings, destroy, daemonVars, sends, edits>>

\* A second later.
ShowsConnected ==
  /\ Goes("connected", "check")
  /\ state' = "connected"
  /\ UNCHANGED <<s, c, dest, settings, destroy, daemonVars, counts>>

-----------------------------------------------------------------------------
(* The loop over what arrives.                                             *)

\* Faulty variant: enabled is read when the thread connects only.
NeverChecksAgain ==
  /\ Goes("check", "select")
  /\ UNCHANGED <<s, c, dest, state, settings, destroy, daemonVars, counts>>

ChecksEnabledAgain ==
  /\ Goes("check", IF enabled THEN "select" ELSE "out")
  /\ UNCHANGED <<s, c, dest, state, settings, destroy, daemonVars, counts>>

Readable == inbox > 0 \/ link \in {"closed", "reset"}

Selects ==
  /\ Goes("select", IF Readable THEN "readn" ELSE "while")
  /\ c' = 0
  /\ UNCHANGED <<s, dest, state, settings, destroy, daemonVars, counts>>

SelectFails ==
  /\ faults < MaxFaults
  /\ Goes("select", "out")
  /\ state' = "failed"
  /\ faults' = faults + 1
  /\ UNCHANGED <<s, c, dest, settings, destroy, daemonVars, sends, edits>>

\* Faulty variant: recv may fill the whole buffer each time.
ReceivesBufSiz ==
  LET n == IF inbox < BUF_SIZ THEN inbox ELSE BUF_SIZ
  IN  /\ inbox > 0
      /\ Goes("readn", IF c + n = BUF_SIZ THEN "full" ELSE "readn")
      /\ c' = c + n
      /\ inbox' = inbox - n
      /\ UNCHANGED <<s, dest, state, settings, destroy, listening, link, counts>>

\* recv returns what has arrived, up to the rest of the buffer.
Receives ==
  LET rest == BUF_SIZ - c
      n == IF inbox < rest THEN inbox ELSE rest
  IN  /\ inbox > 0
      /\ Goes("readn", IF n = rest THEN "full" ELSE "readn")
      /\ c' = c + n
      /\ inbox' = inbox - n
      /\ UNCHANGED <<s, dest, state, settings, destroy, listening, link, counts>>

\* Faulty variant: a connection that was closed is not told from no data.
ClosedIsNoData ==
  /\ inbox = 0 /\ link = "closed"
  /\ Goes("readn", "while")
  /\ UNCHANGED <<s, c, dest, state, settings, destroy, daemonVars, counts>>

\* readn returns 0, even when it has got lines: they are lost.
ReadnFindsClosed ==
  /\ inbox = 0 /\ link = "closed"
  /\ Goes("readn", "out")
  /\ state' = "disconnected"
  /\ UNCHANGED <<s, c, dest, settings, destroy, daemonVars, counts>>

\* readn returns -1, for which the thread has no case.
ReadnFails ==
  /\ inbox = 0 /\ link = "reset"
  /\ Goes("readn", "while")
  /\ UNCHANGED <<s, c, dest, state, settings, destroy, daemonVars, counts>>

\* readn returns the lines it has got, of which the first is handled.
ReadnReturns ==
  /\ inbox = 0 /\ link = "up"
  /\ Goes("readn", "while")
  /\ UNCHANGED <<s, c, dest, state, settings, destroy, daemonVars, counts>>

\* r >= BUF_SIZ switches the component off.
Disables ==
  /\ Goes("full", "out")
  /\ enabled' = FALSE
  /\ state' = "failed"
  /\ UNCHANGED <<s, c, dest, port, addr, cfg_enabled, cfg_addr, destroy, daemonVars, counts>>

\* Faulty variant: global_event is looked at by the outer loop only.
LoopsWhileConnected ==
  /\ Goes("while", IF state = "connected" THEN "check" ELSE "out")
  /\ UNCHANGED <<s, c, dest, state, settings, destroy, daemonVars, counts>>

Loops ==
  /\ Goes("while", IF state = "connected" /\ ~destroy THEN "check" ELSE "out")
  /\ UNCHANGED <<s, c, dest, state, settings, destroy, daemonVars, counts>>

-----------------------------------------------------------------------------
(* out:                                                                    *)

\* Faulty variant: the socket is not closed.
OutLeavesOpen ==
  /\ Goes("out", "pause")
  /\ UNCHANGED <<s, c, dest, state, settings, destroy, daemonVars, counts>>

Out ==
  /\ Goes("out", "pause")
  /\ s' = "none" /\ link' = "none" /\ inbox' = 0
  /\ UNCHANGED <<c, dest, state, settings, destroy, listening, counts>>

\* Faulty variant: the state that out: found is kept.
PauseKeepsState ==
  /\ Goes("pause", IF destroy THEN "exited" ELSE "top")
  /\ s' = "garbage"
  /\ UNCHANGED <<c, dest, state, settings, destroy, daemonVars, counts>>

\* Half a second later; the next turn of the loop has an s of its own.
Pauses ==
  /\ Goes("pause", IF destroy THEN "exited" ELSE "top")
  /\ state' = "disconnected"
  /\ s' = "garbage"
  /\ UNCHANGED <<c, dest, settings, destroy, daemonVars, counts>>

NetStep ==
  \/ ChecksEnabled \/ ReadsAddress \/ ReadsPort \/ Connects \/ ConnectFails \/ ShowsConnected
  \/ ChecksEnabledAgain \/ Selects \/ Receives \/ ReadnFindsClosed \/ ReadnFails \/ ReadnReturns
  \/ Disables \/ Loops \/ Out \/ Pauses

-----------------------------------------------------------------------------
(* The daemons and the network.                                            *)

DaemonSends ==
  /\ sends < MaxSends /\ link = "up"
  /\ inbox' = inbox + 1
  /\ sends' = sends + 1
  /\ UNCHANGED <<threadVars, settings, destroy, listening, link, faults, edits>>

DaemonCloses ==
  /\ faults < MaxFaults /\ link = "up"
  /\ link' = "closed"
  /\ faults' = faults + 1
  /\ UNCHANGED <<threadVars, settings, destroy, listening, inbox, sends, edits>>

LinkBreaks ==
  /\ faults < MaxFaults /\ link \in {"up", "closed"}
  /\ link' = "reset" /\ inbox' = 0
  /\ faults' = faults + 1
  /\ UNCHANGED <<threadVars, settings, destroy, listening, sends, edits>>

DaemonStarts ==
  /\ \E h \in Hosts \ listening : listening' = listening \cup {h}
  /\ UNCHANGED <<threadVars, settings, destroy, link, inbox, counts>>

\* Its connection ends with it.
DaemonStops ==
  /\ faults < MaxFaults /\ faults' = faults + 1
  /\ \E h \in listening :
       /\ listening' = listening \ {h}
       /\ link' = IF h = dest /\ link = "up" THEN "closed" ELSE link
  /\ UNCHANGED <<threadVars, settings, destroy, inbox, sends, edits>>

-----------------------------------------------------------------------------
(* The main thread.                                                        *)

Edits ==
  /\ ~destroy /\ edits < MaxEdits /\ edits' = edits + 1
  /\ UNCHANGED <<threadVars, destroy, daemonVars, sends, faults>>

OnIpnFieldchangedIpaddress ==
  /\ Edits
  /\ cfg_addr' \in Addrs
  /\ UNCHANGED <<enabled, port, addr, cfg_enabled>>

OnEnChangePort ==
  /\ Edits
  /\ port' \in Ports
  /\ UNCHANGED <<enabled, addr, cfg_enabled, cfg_addr>>

\* The check box may have been clicked.
OnBnClickedApply ==
  /\ Edits
  /\ enabled' \in BOOLEAN
  /\ cfg_enabled' = enabled'
  /\ addr' = cfg_addr
  /\ UNCHANGED <<port, cfg_addr>>

on_quit ==
  /\ ~destroy /\ destroy' = TRUE
  /\ UNCHANGED <<threadVars, settings, daemonVars, counts>>

\* ExitThread.
Exited == pc = "exited" /\ UNCHANGED vars

Next == \/ NetStep \/ SelectFails
        \/ DaemonSends \/ DaemonCloses \/ LinkBreaks \/ DaemonStarts \/ DaemonStops
        \/ OnIpnFieldchangedIpaddress \/ OnEnChangePort \/ OnBnClickedApply \/ on_quit
        \/ Exited

Spec == Init /\ [][Next]_vars

\* The thread runs: its sleeps end, and connect, select and recv return. The
\* daemons and the user do what they like.
FairSpec == Spec /\ WF_vars(NetStep)

-----------------------------------------------------------------------------
(* Properties.                                                             *)

InLoop == {"check", "select", "readn", "full", "while"}

TypeOK ==
  /\ pc \in {"top", "address", "port", "connect", "connected", "out", "pause", "exited"} \cup InLoop
  /\ s \in {"open", "none", "garbage"}
  /\ c \in 0 .. BUF_SIZ
  /\ dest \in Addrs \X Ports
  /\ state \in {"disconnected", "connecting", "connected", "failed"}
  /\ enabled \in BOOLEAN /\ cfg_enabled \in BOOLEAN
  /\ port \in Ports /\ addr \in Addrs /\ cfg_addr \in Addrs
  /\ destroy \in BOOLEAN
  /\ listening \subseteq Hosts
  /\ link \in {"none", "up", "closed", "reset"}
  /\ inbox \in 0 .. MaxSends
  /\ sends \in 0 .. MaxSends /\ faults \in 0 .. MaxFaults /\ edits \in 0 .. MaxEdits

\* However a turn of the loop ends, the socket it opened is closed, and none is
\* open when the thread connects again or has exited.
SocketClosed ==
  /\ s = "open" <=> link # "none"
  /\ s = "open" => pc \in {"connected", "out"} \cup InLoop

\* "Connected to LIRC Daemon server" is shown only while the thread holds the
\* socket it opened in this turn of its loop, and for half a second after it
\* closed it: never for a turn that has not connected. Whether the connection
\* of that socket still stands is CloseNoticed and LossNoticed.
ConnectedHasSocket ==
  state = "connected" =>
    \/ s = "open" /\ pc \in {"out"} \cup InLoop
    \/ pc = "pause"

\* A connection that the daemon closed is noticed, and "Connected" is not shown
\* for ever over it. It may be reset before that: LossNoticed.
CloseNoticed ==
  state = "connected" /\ link = "closed" ~> state # "connected" \/ link = "reset"

\* The address and the port that are shown with it are those of the peer: the
\* code does not keep this, and no run lists it (README, section 7).
ShownPeer == state = "connected" /\ s = "open" => dest = <<addr, port>>

\* Switching the component off closes the connection.
DisableCloses == ~enabled ~> enabled \/ s # "open"

\* on_quit ends the thread, wherever it is.
ThreadStops == destroy ~> pc = "exited"

\* The component is on, the settings name a host that listens, no connection is
\* reset, and the plug-in does not end.
Settled(h) ==
  enabled /\ <<addr, port>> = h /\ h \in listening /\ link # "reset" /\ ~destroy

\* After any closed connections, failed calls and changes of the settings the
\* thread is connected again, once a host that the settings name keeps
\* listening. With whom is FollowsSettings: it may be the host that older
\* settings named, or the address and the port of a change half made, because
\* a connection that stands is kept.
Reconnects ==
  \A h \in Hosts : <>[]Settled(h) => <>[](state = "connected" /\ link = "up")

\* The next connection is made to the host that the settings name: when the
\* thread has left a connection after the last change, it ends up with that
\* host, whatever it was connected to and whatever it had read of the settings
\* before.
FollowsSettings ==
  \A h \in Hosts :
    [] (pc = "out" /\ []Settled(h)
          => <>[](state = "connected" /\ link = "up" /\ dest = h))

\* A connection that was lost is noticed, and "Connected" is not shown for ever.
LossNoticed == link = "reset" ~> link # "reset"
=============================================================================
