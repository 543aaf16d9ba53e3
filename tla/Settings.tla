------------------------------- MODULE Settings -------------------------------
(***************************************************************************)
(* The three settings: the globals that the network thread reads, the      *)
(* configuration variables that hold them over a restart, and the dialog   *)
(* that edits them (wdevinitconfig.cpp).                                   *)
(*                                                                         *)
(* Each of the three goes its own way. Enabled waits in the check box for  *)
(* Apply. A port takes effect while it is typed. An address is stored in   *)
(* its configuration variable while it is typed and waits there for Apply. *)
(* One dialog at a time; the thread is its connecting and its overflow,    *)
(* which switches the component off (the rest is LircThread).              *)
(***************************************************************************)
EXTENDS Integers

CONSTANTS
  Addrs,         \* addresses the user may type
  Ports,         \* numbers the user may type into the port field
  DefaultAddr,   \* inet_addr("127.0.0.1")
  DefaultPort,   \* 8765
  None           \* a field that is not complete; no peer

ASSUME DefaultsAssumption == DefaultAddr \in Addrs /\ DefaultPort \in Ports
ASSUME PortsAssumption == Ports \subseteq Nat
ASSUME NoneAssumption == None \notin Addrs \cup Ports

VARIABLES
  running,  \* the process runs
  enabled,  \* global_enabled = COMPONENT_ENABLED
  port,     \* global_port
  addr,     \* global_addr
  config,   \* g_config_enabled, g_config_port, g_config_addr
  file,     \* the same in the configuration file
  open,     \* the dialog is open
  check,    \* its check box is ticked
  shown,    \* the address in its address field
  apply,    \* its button Apply is enabled
  peer      \* address and port the thread is connected to

globals == <<enabled, port, addr>>
dialog == <<open, check, shown, apply>>
vars == <<running, globals, config, file, dialog, peer>>

Defaults == [enabled |-> FALSE, port |-> DefaultPort, addr |-> DefaultAddr]

Init ==
  /\ running = FALSE
  /\ enabled = FALSE /\ port = DefaultPort /\ addr = DefaultAddr
  /\ config = Defaults /\ file = Defaults
  /\ open = FALSE /\ check = FALSE /\ shown = None /\ apply = FALSE
  /\ peer = None

-----------------------------------------------------------------------------
(* The process.                                                            *)

NoDialog == open' = FALSE /\ check' = FALSE /\ shown' = None /\ apply' = FALSE

on_init ==
  /\ ~ running /\ running' = TRUE
  /\ config' = file
  /\ enabled' = file.enabled /\ port' = file.port /\ addr' = file.addr
  /\ UNCHANGED <<file, dialog, peer>>

Exit ==
  /\ running /\ ~ open /\ running' = FALSE
  /\ file' = config
  /\ peer' = None
  /\ UNCHANGED <<globals, config, dialog>>

ProcessGone ==
  /\ running /\ running' = FALSE
  /\ NoDialog
  /\ peer' = None
  /\ UNCHANGED <<globals, config, file>>

-----------------------------------------------------------------------------
(* The dialog.                                                             *)

OnInitDialog ==
  /\ running /\ ~ open
  /\ open' = TRUE /\ check' = enabled /\ shown' = addr /\ apply' = TRUE
  /\ UNCHANGED <<running, globals, config, file, peer>>

OnClose ==
  /\ open
  /\ NoDialog
  /\ UNCHANGED <<running, globals, config, file, peer>>

OnEnabledClicked ==
  /\ open
  /\ check' = ~ check /\ apply' = TRUE
  /\ UNCHANGED <<running, globals, config, file, open, shown, peer>>

\* Faulty variant: the button is not enabled again.
FieldChangedKeepsButton(a) ==
  /\ open
  /\ shown' = a
  /\ config' = IF a # None THEN [config EXCEPT !.addr = a] ELSE config
  /\ UNCHANGED <<running, globals, file, open, check, apply, peer>>

\* A complete address is stored, an incomplete one is not.
OnIpnFieldchangedIpaddress(a) ==
  /\ open
  /\ shown' = a /\ apply' = TRUE
  /\ config' = IF a # None THEN [config EXCEPT !.addr = a] ELSE config
  /\ UNCHANGED <<running, globals, file, open, check, peer>>

\* Faulty variant: the configuration variable is left to Apply.
PortIsNotStored(p) ==
  /\ open /\ apply' = TRUE
  /\ port' = IF p \in Ports THEN p ELSE port
  /\ UNCHANGED <<running, enabled, addr, config, file, open, check, shown, peer>>

\* A number takes effect at once, an empty field does not.
OnEnChangePort(p) ==
  /\ open /\ apply' = TRUE
  /\ IF p \in Ports
     THEN port' = p /\ config' = [config EXCEPT !.port = p]
     ELSE UNCHANGED <<port, config>>
  /\ UNCHANGED <<running, enabled, addr, file, open, check, shown, peer>>

OnBnClickedApply ==
  /\ open /\ apply
  /\ enabled' = check
  /\ config' = [config EXCEPT !.enabled = check]
  /\ addr' = config.addr
  /\ apply' = FALSE
  /\ UNCHANGED <<running, port, file, open, check, shown, peer>>

-----------------------------------------------------------------------------
(* The network thread.                                                     *)

\* A port of the socket address has 16 bits.
htons(p) == p % 65536

Connects ==
  /\ running /\ enabled /\ peer = None
  /\ peer' = <<addr, htons(port)>>
  /\ UNCHANGED <<running, globals, config, file, dialog>>

Disconnects ==
  /\ peer # None
  /\ peer' = None
  /\ UNCHANGED <<running, globals, config, file, dialog>>

\* The buffer is full.
Disables ==
  /\ peer # None
  /\ enabled' = FALSE
  /\ peer' = None
  /\ UNCHANGED <<running, port, addr, config, file, dialog>>

-----------------------------------------------------------------------------
Next ==
  \/ on_init \/ Exit \/ ProcessGone
  \/ OnInitDialog \/ OnClose \/ OnEnabledClicked \/ OnBnClickedApply
  \/ \E a \in Addrs \cup {None} : OnIpnFieldchangedIpaddress(a)
  \/ \E p \in Ports \cup {None} : OnEnChangePort(p)
  \/ Connects \/ Disconnects \/ Disables

Spec == Init /\ [][Next]_vars

-----------------------------------------------------------------------------
(* Properties.                                                             *)

Configs == [enabled : BOOLEAN, port : Ports, addr : Addrs]

PortNumbers == 0 .. 65535

Peers == Addrs \X PortNumbers

TypeOK ==
  /\ running \in BOOLEAN
  /\ enabled \in BOOLEAN /\ port \in Ports /\ addr \in Addrs
  /\ config \in Configs /\ file \in Configs
  /\ open \in BOOLEAN /\ check \in BOOLEAN /\ apply \in BOOLEAN
  /\ shown \in Addrs \cup {None}
  /\ peer \in Peers \cup {None}

\* What the thread uses is what a regular end stores and the next start brings
\* back: the same port, and no component that runs now and is off then. A process
\* that is lost brings back what was stored before. An overflow switches the
\* component off for this session only, and an address may wait for Apply.
ConfigHolds == running => port = config.port /\ (enabled => config.enabled)

\* While Apply is grey nothing waits for it: the address in use is the stored
\* one, and the check box is what is stored.
GreyIsApplied == open /\ ~ apply => addr = config.addr /\ check = config.enabled

-----------------------------------------------------------------------------
(* Statements the code does not keep. No run lists them; TLC violates each  *)
(* when its name is put into Settings.cfg (README, section 7).              *)

\* Apply puts the address into use that the dialog shows, when it is complete.
AppliesShown == [][OnBnClickedApply /\ shown # None => addr' = shown]_vars

\* The thread connects to the port that is set, which the status line names.
ShownPort == [][Connects => peer'[2] = port]_vars
=============================================================================
