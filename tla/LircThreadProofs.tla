--------------------------- MODULE LircThreadProofs ---------------------------
(***************************************************************************)
(* Proofs about LircThread, for every set of addresses and ports, every    *)
(* size of the buffer and every bound.                                     *)
(***************************************************************************)
EXTENDS LircThread, TLAPS

(***************************************************************************)
(* The inductive invariant: what SocketClosed and ConnectedHasSocket leave *)
(* out is that the thread has a socket in the whole of its inner loop, so  *)
(* that it leaves the loop for out: with one.                              *)
(***************************************************************************)

\* What waits to be read was sent.
ReadLess == inbox <= sends

HasSocket == pc \in {"connected"} \cup InLoop => s = "open"

IInv == TypeOK /\ ReadLess /\ SocketClosed /\ HasSocket /\ ConnectedHasSocket

LEMMA InitIInv == Init => IInv
<1> SUFFICES ASSUME Init PROVE IInv
  OBVIOUS
<1> USE HostsAssumption, SizeAssumption, BoundsAssumption DEF Init
<1>1. /\ pc = "top" /\ s = "garbage" /\ c \in 0 .. BUF_SIZ /\ dest \in Addrs \X Ports
      /\ inbox \in 0 .. MaxSends /\ sends \in 0 .. MaxSends /\ faults \in 0 .. MaxFaults
      /\ edits \in 0 .. MaxEdits /\ inbox <= sends
  OBVIOUS
<1>2. TypeOK /\ ReadLess
  BY <1>1 DEF TypeOK, ReadLess
<1>3. SocketClosed /\ HasSocket /\ ConnectedHasSocket
  BY DEF SocketClosed, HasSocket, ConnectedHasSocket, InLoop
<1> QED
  BY <1>2, <1>3 DEF IInv

LEMMA NextIInv == IInv /\ [Next]_vars => IInv'
<1> SUFFICES ASSUME TypeOK, ReadLess, SocketClosed, HasSocket, ConnectedHasSocket, [Next]_vars
             PROVE  IInv'
  BY DEF IInv
<1> USE HostsAssumption, SizeAssumption, BoundsAssumption
    DEF Goes, InLoop, threadVars, settings, daemonVars, counts
<1>nat. /\ inbox \in Nat /\ sends \in Nat /\ sends <= MaxSends
        /\ faults \in Nat /\ faults <= MaxFaults
  <2>1. inbox \in 0 .. MaxSends /\ sends \in 0 .. MaxSends /\ faults \in 0 .. MaxFaults
    BY DEF TypeOK
  <2> QED
    BY <2>1
<1>1. CASE ChecksEnabled
  <2> USE <1>1 DEF ChecksEnabled
  <2>1. TypeOK'
    BY DEF TypeOK
  <2>2. ReadLess'
    BY DEF ReadLess
  <2>3. SocketClosed' /\ HasSocket' /\ ConnectedHasSocket'
    BY DEF SocketClosed, HasSocket, ConnectedHasSocket
  <2> QED
    BY <2>1, <2>2, <2>3 DEF IInv
<1>2. CASE ReadsAddress
  <2> USE <1>2 DEF ReadsAddress
  <2>1. TypeOK'
    BY DEF TypeOK
  <2>2. ReadLess'
    BY DEF ReadLess
  <2>3. SocketClosed' /\ HasSocket' /\ ConnectedHasSocket'
    BY DEF SocketClosed, HasSocket, ConnectedHasSocket
  <2> QED
    BY <2>1, <2>2, <2>3 DEF IInv
<1>3. CASE ReadsPort
  <2> USE <1>3 DEF ReadsPort
  <2>1. TypeOK'
    BY DEF TypeOK
  <2>2. ReadLess'
    BY DEF ReadLess
  <2>3. SocketClosed' /\ HasSocket' /\ ConnectedHasSocket'
    BY DEF SocketClosed, HasSocket, ConnectedHasSocket
  <2> QED
    BY <2>1, <2>2, <2>3 DEF IInv
<1>4. CASE Connects
  <2> USE <1>4 DEF Connects
  <2>1. TypeOK'
    BY DEF TypeOK
  <2>2. ReadLess'
    BY <1>nat DEF ReadLess
  <2>3. SocketClosed' /\ HasSocket' /\ ConnectedHasSocket'
    BY DEF SocketClosed, HasSocket, ConnectedHasSocket
  <2> QED
    BY <2>1, <2>2, <2>3 DEF IInv
<1>5. CASE ConnectFails
  <2> USE <1>5 DEF ConnectFails
  <2>1. TypeOK'
    BY DEF TypeOK
  <2>2. ReadLess'
    BY DEF ReadLess
  <2>3. SocketClosed' /\ HasSocket' /\ ConnectedHasSocket'
    BY DEF SocketClosed, HasSocket, ConnectedHasSocket
  <2> QED
    BY <2>1, <2>2, <2>3 DEF IInv
<1>6. CASE ShowsConnected
  <2> USE <1>6 DEF ShowsConnected
  <2>1. TypeOK'
    BY DEF TypeOK
  <2>2. ReadLess'
    BY DEF ReadLess
  <2>3. SocketClosed' /\ HasSocket' /\ ConnectedHasSocket'
    BY DEF SocketClosed, HasSocket, ConnectedHasSocket
  <2> QED
    BY <2>1, <2>2, <2>3 DEF IInv
<1>7. CASE ChecksEnabledAgain
  <2> USE <1>7 DEF ChecksEnabledAgain
  <2>1. TypeOK'
    BY DEF TypeOK
  <2>2. ReadLess'
    BY DEF ReadLess
  <2>3. SocketClosed' /\ HasSocket' /\ ConnectedHasSocket'
    BY DEF SocketClosed, HasSocket, ConnectedHasSocket
  <2> QED
    BY <2>1, <2>2, <2>3 DEF IInv
<1>8. CASE Selects
  <2> USE <1>8 DEF Selects
  <2>1. TypeOK'
    BY DEF TypeOK
  <2>2. ReadLess'
    BY DEF ReadLess
  <2>3. SocketClosed' /\ HasSocket' /\ ConnectedHasSocket'
    BY DEF SocketClosed, HasSocket, ConnectedHasSocket
  <2> QED
    BY <2>1, <2>2, <2>3 DEF IInv
<1>9. CASE Receives
  <2> USE <1>9 DEF Receives
  <2>1. TypeOK'
    BY DEF TypeOK
  <2>2. ReadLess'
    <3>1. c \in Nat /\ BUF_SIZ - c >= 0
      BY DEF TypeOK
    <3>2. CASE inbox < BUF_SIZ - c
      BY <1>nat, <3>1, <3>2 DEF ReadLess
    <3>3. CASE ~ inbox < BUF_SIZ - c
      BY <1>nat, <3>1, <3>3 DEF ReadLess
    <3> QED
      BY <3>2, <3>3
  <2>3. SocketClosed' /\ HasSocket' /\ ConnectedHasSocket'
    BY DEF SocketClosed, HasSocket, ConnectedHasSocket
  <2> QED
    BY <2>1, <2>2, <2>3 DEF IInv
<1>10. CASE ReadnFindsClosed
  <2> USE <1>10 DEF ReadnFindsClosed
  <2>1. TypeOK'
    BY DEF TypeOK
  <2>2. ReadLess'
    BY DEF ReadLess
  <2>3. SocketClosed' /\ HasSocket' /\ ConnectedHasSocket'
    BY DEF SocketClosed, HasSocket, ConnectedHasSocket
  <2> QED
    BY <2>1, <2>2, <2>3 DEF IInv
<1>11. CASE ReadnFails
  <2> USE <1>11 DEF ReadnFails
  <2>1. TypeOK'
    BY DEF TypeOK
  <2>2. ReadLess'
    BY DEF ReadLess
  <2>3. SocketClosed' /\ HasSocket' /\ ConnectedHasSocket'
    BY DEF SocketClosed, HasSocket, ConnectedHasSocket
  <2> QED
    BY <2>1, <2>2, <2>3 DEF IInv
<1>12. CASE ReadnReturns
  <2> USE <1>12 DEF ReadnReturns
  <2>1. TypeOK'
    BY DEF TypeOK
  <2>2. ReadLess'
    BY DEF ReadLess
  <2>3. SocketClosed' /\ HasSocket' /\ ConnectedHasSocket'
    BY DEF SocketClosed, HasSocket, ConnectedHasSocket
  <2> QED
    BY <2>1, <2>2, <2>3 DEF IInv
<1>13. CASE Disables
  <2> USE <1>13 DEF Disables
  <2>1. TypeOK'
    BY DEF TypeOK
  <2>2. ReadLess'
    BY DEF ReadLess
  <2>3. SocketClosed' /\ HasSocket' /\ ConnectedHasSocket'
    BY DEF SocketClosed, HasSocket, ConnectedHasSocket
  <2> QED
    BY <2>1, <2>2, <2>3 DEF IInv
<1>14. CASE Loops
  <2> USE <1>14 DEF Loops
  <2>1. TypeOK'
    BY DEF TypeOK
  <2>2. ReadLess'
    BY DEF ReadLess
  <2>3. SocketClosed' /\ HasSocket' /\ ConnectedHasSocket'
    BY DEF SocketClosed, HasSocket, ConnectedHasSocket
  <2> QED
    BY <2>1, <2>2, <2>3 DEF IInv
<1>15. CASE Out
  <2> USE <1>15 DEF Out
  <2>1. TypeOK'
    BY DEF TypeOK
  <2>2. ReadLess'
    BY <1>nat DEF ReadLess
  <2>3. SocketClosed' /\ HasSocket' /\ ConnectedHasSocket'
    BY DEF SocketClosed, HasSocket, ConnectedHasSocket
  <2> QED
    BY <2>1, <2>2, <2>3 DEF IInv
<1>16. CASE Pauses
  <2> USE <1>16 DEF Pauses
  <2>1. TypeOK'
    BY DEF TypeOK
  <2>2. ReadLess'
    BY DEF ReadLess
  <2>3. SocketClosed' /\ HasSocket' /\ ConnectedHasSocket'
    BY DEF SocketClosed, HasSocket, ConnectedHasSocket
  <2> QED
    BY <2>1, <2>2, <2>3 DEF IInv
<1>17. CASE SelectFails
  <2> USE <1>17 DEF SelectFails
  <2>1. TypeOK'
    BY DEF TypeOK
  <2>2. ReadLess'
    BY DEF ReadLess
  <2>3. SocketClosed' /\ HasSocket' /\ ConnectedHasSocket'
    BY DEF SocketClosed, HasSocket, ConnectedHasSocket
  <2> QED
    BY <2>1, <2>2, <2>3 DEF IInv
<1>18. CASE DaemonSends
  <2> USE <1>18 DEF DaemonSends
  <2>1. TypeOK'
    <3>1. inbox' \in 0 .. MaxSends /\ sends' \in 0 .. MaxSends
      BY <1>nat DEF ReadLess
    <3>2. UNCHANGED <<pc, s, c, dest, state, enabled, port, addr, cfg_enabled, cfg_addr,
                      destroy, listening, link, faults, edits>>
      OBVIOUS
    <3> QED
      BY ONLY TypeOK, <3>1, <3>2 DEF TypeOK, InLoop
  <2>2. ReadLess'
    BY <1>nat DEF ReadLess
  <2>3. SocketClosed' /\ HasSocket' /\ ConnectedHasSocket'
    BY DEF SocketClosed, HasSocket, ConnectedHasSocket
  <2> QED
    BY <2>1, <2>2, <2>3 DEF IInv
<1>19. CASE DaemonCloses
  <2> USE <1>19 DEF DaemonCloses
  <2>1. TypeOK'
    BY DEF TypeOK
  <2>2. ReadLess'
    BY DEF ReadLess
  <2>3. SocketClosed' /\ HasSocket' /\ ConnectedHasSocket'
    BY DEF SocketClosed, HasSocket, ConnectedHasSocket
  <2> QED
    BY <2>1, <2>2, <2>3 DEF IInv
<1>20. CASE LinkBreaks
  <2> USE <1>20 DEF LinkBreaks
  <2>1. TypeOK'
    BY DEF TypeOK
  <2>2. ReadLess'
    BY <1>nat DEF ReadLess
  <2>3. SocketClosed' /\ HasSocket' /\ ConnectedHasSocket'
    BY DEF SocketClosed, HasSocket, ConnectedHasSocket
  <2> QED
    BY <2>1, <2>2, <2>3 DEF IInv
<1>21. CASE DaemonStarts
  <2> USE <1>21 DEF DaemonStarts
  <2>1. TypeOK'
    BY DEF TypeOK
  <2>2. ReadLess'
    BY DEF ReadLess
  <2>3. SocketClosed' /\ HasSocket' /\ ConnectedHasSocket'
    BY DEF SocketClosed, HasSocket, ConnectedHasSocket
  <2> QED
    BY <2>1, <2>2, <2>3 DEF IInv
<1>22. CASE DaemonStops
  <2> USE <1>22 DEF DaemonStops
  <2>1. TypeOK'
    <3>1. link' \in {"none", "up", "closed", "reset"} /\ listening' \subseteq Hosts
      BY DEF TypeOK
    <3>2. faults' \in 0 .. MaxFaults
      BY <1>nat
    <3>3. UNCHANGED <<pc, s, c, dest, state, enabled, port, addr, cfg_enabled, cfg_addr,
                      destroy, inbox, sends, edits>>
      OBVIOUS
    <3> QED
      BY ONLY TypeOK, <3>1, <3>2, <3>3 DEF TypeOK, InLoop
  <2>2. ReadLess'
    BY DEF ReadLess
  <2>3. SocketClosed' /\ HasSocket' /\ ConnectedHasSocket'
    BY DEF SocketClosed, HasSocket, ConnectedHasSocket
  <2> QED
    BY <2>1, <2>2, <2>3 DEF IInv
<1>23. CASE OnIpnFieldchangedIpaddress
  <2> USE <1>23 DEF OnIpnFieldchangedIpaddress, Edits
  <2>1. TypeOK'
    BY DEF TypeOK
  <2>2. ReadLess'
    BY DEF ReadLess
  <2>3. SocketClosed' /\ HasSocket' /\ ConnectedHasSocket'
    BY DEF SocketClosed, HasSocket, ConnectedHasSocket
  <2> QED
    BY <2>1, <2>2, <2>3 DEF IInv
<1>24. CASE OnEnChangePort
  <2> USE <1>24 DEF OnEnChangePort, Edits
  <2>1. TypeOK'
    BY DEF TypeOK
  <2>2. ReadLess'
    BY DEF ReadLess
  <2>3. SocketClosed' /\ HasSocket' /\ ConnectedHasSocket'
    BY DEF SocketClosed, HasSocket, ConnectedHasSocket
  <2> QED
    BY <2>1, <2>2, <2>3 DEF IInv
<1>25. CASE OnBnClickedApply
  <2> USE <1>25 DEF OnBnClickedApply, Edits
  <2>1. TypeOK'
    BY DEF TypeOK
  <2>2. ReadLess'
    BY DEF ReadLess
  <2>3. SocketClosed' /\ HasSocket' /\ ConnectedHasSocket'
    BY DEF SocketClosed, HasSocket, ConnectedHasSocket
  <2> QED
    BY <2>1, <2>2, <2>3 DEF IInv
<1>26. CASE on_quit
  <2> USE <1>26 DEF on_quit
  <2>1. TypeOK'
    BY DEF TypeOK
  <2>2. ReadLess'
    BY DEF ReadLess
  <2>3. SocketClosed' /\ HasSocket' /\ ConnectedHasSocket'
    BY DEF SocketClosed, HasSocket, ConnectedHasSocket
  <2> QED
    BY <2>1, <2>2, <2>3 DEF IInv
<1>27. CASE Exited
  <2> USE <1>27 DEF Exited, vars
  <2>1. TypeOK'
    BY DEF TypeOK
  <2>2. ReadLess'
    BY DEF ReadLess
  <2>3. SocketClosed' /\ HasSocket' /\ ConnectedHasSocket'
    BY DEF SocketClosed, HasSocket, ConnectedHasSocket
  <2> QED
    BY <2>1, <2>2, <2>3 DEF IInv
<1>28. CASE UNCHANGED vars
  BY <1>28 DEF vars, IInv, TypeOK, ReadLess, SocketClosed, HasSocket, ConnectedHasSocket
<1> QED
  BY <1>1, <1>2, <1>3, <1>4, <1>5, <1>6, <1>7, <1>8, <1>9, <1>10, <1>11,
     <1>12, <1>13, <1>14, <1>15, <1>16, <1>17, <1>18, <1>19, <1>20, <1>21,
     <1>22, <1>23, <1>24, <1>25, <1>26, <1>27, <1>28
  DEF Next, NetStep

LEMMA Invariance == Spec => []IInv
<1>1. Init => IInv
  BY InitIInv
<1>2. IInv /\ [Next]_vars => IInv'
  BY NextIInv
<1> QED
  BY <1>1, <1>2, PTL DEF Spec

-----------------------------------------------------------------------------
\* Every variable keeps its type: readn never gets more than the buffer holds.
THEOREM TypeCorrect == Spec => []TypeOK
<1>1. IInv => TypeOK
  BY DEF IInv
<1> QED
  BY <1>1, Invariance, PTL

\* No turn of the thread's loop leaves a socket open, whatever ends it.
THEOREM SocketsAreClosed == Spec => []SocketClosed
<1>1. IInv => SocketClosed
  BY DEF IInv
<1> QED
  BY <1>1, Invariance, PTL

\* "Connected" is not shown without the socket of this turn of the loop, but for
\* the pause after it was closed.
THEOREM ConnectedIsOpen == Spec => []ConnectedHasSocket
<1>1. IInv => ConnectedHasSocket
  BY DEF IInv
<1> QED
  BY <1>1, Invariance, PTL
=============================================================================
