---------------------------- MODULE PluginProofs ----------------------------
(***************************************************************************)
(* Proofs about Plugin: the composition takes the steps of the key path    *)
(* and of the loop and no others, and at most one line is late.            *)
(***************************************************************************)
EXTENDS Plugin, SequenceTheorems, TLAPS

\* The lines that are in the buffer of readn, and not yet returned or dropped.
Reading == IF pc \in {"readn", "full"} THEN Len(buf) ELSE 0

\* A line that was received was sent, and is in one place: this is what bounds
\* the lines of the key path by those of the daemon.
Lines ==
  /\ received \in Seq(Path!Pairs) /\ inbox \in Seq(Path!Pairs) /\ buf \in Seq(Path!Pairs)
  /\ sends \in 0 .. MaxLines
  /\ Len(buf) <= BUF_SIZ
  /\ Len(received) + Len(inbox) + Reading <= sends

LEMMA InitLines == Init => Lines
<1> SUFFICES ASSUME Init PROVE Lines
  OBVIOUS
<1>1. received = <<>> /\ inbox = <<>> /\ buf = <<>> /\ sends = 0 /\ pc = "top"
  BY DEF Init, Path!Init, Loop!Init
<1>2. Len(<<>>) = 0 /\ <<>> \in Seq(Path!Pairs)
  BY EmptySeq
<1> QED
  BY <1>1, <1>2, BoundsAssumption, BufferAssumption DEF Lines, Reading

\* Steps that leave the three sequences and sends alone.
LEMMA SameLines ==
  ASSUME Lines, UNCHANGED <<received, inbox, buf, sends>>,
         pc' \in {"readn", "full"} => pc \in {"readn", "full"}
  PROVE  Lines'
<1>1. Len(inbox) \in Nat /\ Len(received) \in Nat /\ Len(buf) \in Nat
  BY DEF Lines
<1>2. Reading \in Nat /\ Reading' \in Nat /\ Reading' <= Reading
  BY <1>1 DEF Reading
<1> QED
  BY <1>1, <1>2 DEF Lines

\* Steps that drop what has arrived.
LEMMA DropsInbox ==
  ASSUME Lines, UNCHANGED <<received, buf, sends>>, inbox' = <<>>,
         pc' \in {"readn", "full"} => pc \in {"readn", "full"}
  PROVE  Lines'
<1>1. Len(<<>>) = 0 /\ <<>> \in Seq(Path!Pairs)
  BY EmptySeq
<1>2. Len(inbox) \in Nat /\ Len(received) \in Nat /\ Len(buf) \in Nat
  BY DEF Lines
<1>3. Reading \in Nat /\ Reading' \in Nat /\ Reading' <= Reading
  BY <1>2 DEF Reading
<1> QED
  BY <1>1, <1>2, <1>3 DEF Lines

LEMMA LoopStepLines == ASSUME Lines, LoopStep PROVE Lines'
<1>1. UNCHANGED <<received, sends>>
  BY DEF LoopStep, Looping, keyVars, Loop!ChecksEnabled, Loop!ReadsAddress, Loop!ReadsPort,
         Loop!ConnectFails, Loop!ShowsConnected, Loop!ChecksEnabledAgain, Loop!ReadnFindsClosed,
         Loop!ReadnFails, Loop!Disables, Loop!Loops, Loop!Pauses, Loop!Connects, Loop!Out,
         Loop!Selects, Loop!counts
<1>2. CASE UNCHANGED <<inbox, buf>> /\ pc' \notin {"readn", "full"}
  BY <1>1, <1>2, SameLines
<1>3. CASE inbox' = <<>> /\ UNCHANGED buf /\ (Loop!Connects \/ Loop!Out)
  <2>1. pc' \notin {"readn", "full"}
    BY <1>3 DEF Loop!Connects, Loop!Out, Loop!Goes
  <2> QED
    BY <1>1, <1>3, <2>1, DropsInbox
<1>4. CASE buf' = <<>> /\ UNCHANGED inbox /\ Loop!Selects
  <2>1. Len(<<>>) = 0 /\ <<>> \in Seq(Path!Pairs)
    BY EmptySeq
  <2>2. Reading' = 0 /\ Reading \in Nat
    BY <1>4, <2>1 DEF Reading, Lines
  <2> QED
    BY <1>1, <1>4, <2>1, <2>2, BufferAssumption DEF Lines
<1>5. CASE UNCHANGED <<inbox, buf>> /\
           \/ Loop!ChecksEnabled \/ Loop!ReadsAddress \/ Loop!ReadsPort
           \/ Loop!ConnectFails \/ Loop!ShowsConnected \/ Loop!ChecksEnabledAgain
           \/ Loop!ReadnFindsClosed \/ Loop!ReadnFails
           \/ Loop!Disables \/ Loop!Loops \/ Loop!Pauses
  <2>1. pc' \notin {"readn", "full"}
    BY <1>5 DEF Loop!ChecksEnabled, Loop!ReadsAddress, Loop!ReadsPort,
         Loop!ConnectFails, Loop!ShowsConnected, Loop!ChecksEnabledAgain, Loop!ReadnFindsClosed,
         Loop!ReadnFails, Loop!Disables, Loop!Loops, Loop!Pauses, Loop!Goes
  <2> QED
    BY <1>2, <1>5, <2>1
<1> QED
  BY <1>3, <1>4, <1>5 DEF LoopStep

\* What recv takes: the front of inbox goes to the end of buf.
LEMMA Moved ==
  ASSUME NEW S, NEW q \in Seq(S), NEW b \in Seq(S), NEW n \in 0 .. Len(q)
  PROVE  /\ b \o SubSeq(q, 1, n) \in Seq(S)
         /\ Len(b \o SubSeq(q, 1, n)) = Len(b) + n
         /\ SubSeq(q, n + 1, Len(q)) \in Seq(S)
         /\ Len(SubSeq(q, n + 1, Len(q))) = Len(q) - n
<1>1. Len(q) \in Nat /\ Len(b) \in Nat
  OBVIOUS
<1>2. \A i \in 1 .. n : q[i] \in S
  BY <1>1, ElementOfSeq
<1>3. \A i \in n + 1 .. Len(q) : q[i] \in S
  BY <1>1, ElementOfSeq
<1>4. SubSeq(q, 1, n) \in Seq(S) /\ Len(SubSeq(q, 1, n)) = n
  BY <1>1, <1>2, SubSeqProperties
<1>5. SubSeq(q, n + 1, Len(q)) \in Seq(S) /\ Len(SubSeq(q, n + 1, Len(q))) = Len(q) - n
  BY <1>1, <1>3, SubSeqProperties
<1> QED
  BY <1>1, <1>4, <1>5, ConcatProperties

LEMMA ReceivesLines == ASSUME Lines, Receives PROVE Lines'
<1> DEFINE rest == BUF_SIZ - Len(buf)
           n == IF Len(inbox) < rest THEN Len(inbox) ELSE rest
<1>1. Len(inbox) \in Nat /\ Len(received) \in Nat /\ Len(buf) \in Nat /\ BUF_SIZ \in Nat
  BY BufferAssumption DEF Lines
<1>2. n \in 0 .. Len(inbox) /\ Len(buf) + n <= BUF_SIZ
  BY <1>1 DEF Lines
<1>3. /\ buf' = buf \o SubSeq(inbox, 1, n)
      /\ inbox' = SubSeq(inbox, n + 1, Len(inbox))
      /\ UNCHANGED <<received, sends>>
      /\ pc = "readn" /\ pc' \in {"readn", "full"}
  BY DEF Receives, Looping, keyVars
<1> HIDE DEF n, rest
<1>4. /\ buf' \in Seq(Path!Pairs) /\ Len(buf') = Len(buf) + n
      /\ inbox' \in Seq(Path!Pairs) /\ Len(inbox') = Len(inbox) - n
  BY <1>2, <1>3, Moved DEF Lines
<1>5. Reading = Len(buf) /\ Reading' = Len(buf) + n
  BY <1>3, <1>4 DEF Reading
<1>6. Len(received') + Len(inbox') + Reading' = Len(received) + Len(inbox) + Reading
  <2>1. Len(received') = Len(received)
    BY <1>3
  <2>2. n \in Nat
    BY <1>1, <1>2
  <2> QED
    BY <1>1, <1>4, <1>5, <2>1, <2>2
<1> QED
  BY <1>2, <1>3, <1>4, <1>6 DEF Lines

LEMMA ReturnsLines == ASSUME Lines, ReadnReturns PROVE Lines'
<1>1. Head(buf) \in Path!Pairs /\ Len(buf) \in Nat \ {0}
  BY HeadTailProperties, EmptySeq DEF ReadnReturns, Lines
<1>2. received' \in Seq(Path!Pairs) /\ Len(received') = Len(received) + 1
  BY <1>1, AppendProperties DEF ReadnReturns, Lines
<1>3. Reading = Len(buf) /\ Reading' = 0 /\ UNCHANGED <<inbox, buf, sends>>
  BY DEF ReadnReturns, Reading
<1>4. Len(inbox) \in Nat /\ Len(received) \in Nat
  BY DEF Lines
<1> QED
  BY <1>1, <1>2, <1>3, <1>4 DEF Lines

LEMMA SendsLines == ASSUME Lines, DaemonSends PROVE Lines'
<1>1. inbox' \in Seq(Path!Pairs) /\ Len(inbox') = Len(inbox) + 1
  BY AppendProperties DEF DaemonSends, Lines
<1>2. sends < MaxLines /\ sends' = sends + 1 /\ UNCHANGED <<received, buf, pc>>
  BY DEF DaemonSends, keyVars
<1>3. Len(inbox) \in Nat /\ Len(received) \in Nat /\ Len(buf) \in Nat /\ sends \in Nat
  BY DEF Lines
<1>4. Reading' = Reading /\ Reading \in Nat
  BY <1>2, <1>3 DEF Reading
<1>5. sends' \in 0 .. MaxLines
  BY <1>2, <1>3, BoundsAssumption
<1> QED
  BY <1>1, <1>2, <1>3, <1>4, <1>5 DEF Lines

\* The other steps of the daemon, the network and the main thread.
LEMMA OtherLines ==
  ASSUME Lines,
         SelectFails \/ PassesOn \/ LinkBreaks \/ DaemonMoves
           \/ MainHandles \/ UserAssigns \/ UserConfigures \/ on_quit
  PROVE  Lines'
<1>1. CASE SelectFails
  BY <1>1, SameLines DEF SelectFails, Looping, keyVars, Loop!SelectFails, Loop!Goes
<1>2. CASE PassesOn
  <2>1. UNCHANGED received
    BY <1>2 DEF PassesOn, Path!NetStep, Path!NetStoresKn, Path!NetStoresRn, Path!NetChecksDialog,
           Path!NetLooksUp, Path!NetLookupRaces, Path!NetTriesExecute, Path!NetPostsToMain,
           Path!NetReleasesExecute, Path!NetPostsToDialog
  <2> QED
    BY <1>2, <2>1, SameLines DEF PassesOn, linkVars
<1>3. CASE LinkBreaks
  <2>1. UNCHANGED <<received, buf, sends, pc>> /\ inbox' = <<>>
    BY <1>3 DEF LinkBreaks, keyVars, Loop!LinkBreaks, Loop!threadVars
  <2> QED
    BY <2>1, DropsInbox
<1>4. CASE DaemonMoves
  BY <1>4, SameLines DEF DaemonMoves, keyVars, Loop!DaemonCloses, Loop!DaemonStarts,
         Loop!DaemonStops, Loop!threadVars, Loop!counts
<1>5. CASE MainHandles
  <2>1. UNCHANGED received
    BY <1>5 DEF MainHandles, Path!MainStep, Path!GetMessage, Path!HookCopiesKn,
           Path!HookCopiesRn, Path!HookFinds, Path!CommandTries, Path!CommandReturns,
           Path!CommandThrows, Path!RemoteKeyShowsKn, Path!RemoteKeyShowsRn, Path!netVars
  <2> QED
    BY <1>5, <2>1, SameLines DEF MainHandles, linkVars
<1>6. CASE UserAssigns
  <2>1. UNCHANGED received
    BY <1>6 DEF UserAssigns, Path!UserStep, Path!OpenDialog, Path!CloseDialog, Path!Edit,
           Path!OnBnClickedBAdd, Path!OnBnClickedBRemove, Path!OnBnClickedBReset, Path!netVars
  <2> QED
    BY <1>6, <2>1, SameLines DEF UserAssigns, linkVars
<1>7. CASE UserConfigures
  BY <1>7, SameLines DEF UserConfigures, keyVars, Loop!OnIpnFieldchangedIpaddress,
         Loop!OnEnChangePort, Loop!OnBnClickedApply, Loop!Edits, Loop!threadVars
<1>8. CASE on_quit
  BY <1>8, SameLines DEF on_quit, keyVars, Loop!on_quit, Loop!threadVars, Loop!counts
<1> QED
  BY <1>1, <1>2, <1>3, <1>4, <1>5, <1>6, <1>7, <1>8

LEMMA NextLines == Lines /\ [Next]_vars => Lines'
<1> SUFFICES ASSUME Lines, [Next]_vars PROVE Lines'
  OBVIOUS
<1>1. CASE UNCHANGED vars
  BY <1>1, SameLines DEF vars, keyVars, linkVars
<1>2. CASE LoopStep
  BY <1>2, LoopStepLines
<1>3. CASE Receives
  BY <1>3, ReceivesLines
<1>4. CASE ReadnReturns
  BY <1>4, ReturnsLines
<1>5. CASE DaemonSends
  BY <1>5, SendsLines
<1>6. CASE SelectFails \/ PassesOn \/ LinkBreaks \/ DaemonMoves
             \/ MainHandles \/ UserAssigns \/ UserConfigures \/ on_quit
  BY <1>6, OtherLines
<1> QED
  BY <1>1, <1>2, <1>3, <1>4, <1>5, <1>6 DEF Next, NetThread, Over

LEMMA SpecLines == Spec => []Lines
BY InitLines, NextLines, PTL DEF Spec

-----------------------------------------------------------------------------
(***************************************************************************)
(* The key path: a step of the loop changes nothing of it, and readn hands *)
(* it its next line.                                                       *)
(***************************************************************************)
LEMMA ReceiveStep ==
  ASSUME Lines, ~ crashed, ReadnReturns
  PROVE  Path!Next
<1>1. Head(buf) \in Path!Pairs /\ Len(buf) \in Nat \ {0}
  BY HeadTailProperties, EmptySeq DEF ReadnReturns, Lines
<1>2. Reading = Len(buf) /\ Len(inbox) \in Nat /\ Len(received) \in Nat
  BY DEF ReadnReturns, Reading, Lines
<1>3. Len(received) < MaxLines
  BY <1>1, <1>2, BoundsAssumption DEF Lines
<1>4. Path!ReceiveLine
  BY <1>1, <1>3 DEF ReadnReturns, Path!ReceiveLine, Path!Line, Path!NetGoes, Path!mainVars,
         Path!uiVars, Path!faults
<1> QED
  BY <1>4 DEF Path!Next

LEMMA PathStep == Lines /\ [Next]_vars => [Path!Next]_(Path!vars)
<1> SUFFICES ASSUME Lines, [Next]_vars PROVE Path!Next \/ UNCHANGED Path!vars
  OBVIOUS
<1>1. CASE UNCHANGED keyVars
  BY <1>1 DEF keyVars, Path!vars
<1>2. CASE LoopStep \/ Receives \/ SelectFails \/ DaemonSends \/ LinkBreaks \/ DaemonMoves
             \/ UserConfigures \/ on_quit \/ Over \/ UNCHANGED vars
  BY <1>1, <1>2 DEF LoopStep, Receives, SelectFails, DaemonSends, LinkBreaks, DaemonMoves,
         UserConfigures, on_quit, Over, Looping, vars
<1>3. CASE ~ crashed /\ ReadnReturns
  BY <1>3, ReceiveStep
<1>4. CASE ~ crashed /\ (PassesOn \/ MainHandles \/ UserAssigns)
  BY <1>4 DEF PassesOn, MainHandles, UserAssigns, Path!Next
<1> QED
  BY <1>2, <1>3, <1>4 DEF Next, NetThread

\* Plugin.tla: ImplementsPath. Every behaviour of the plug-in is one of the key
\* path, for any buffer and any number of lines, faults and edits: what is
\* proved of RemoteKey holds of the whole plug-in.
THEOREM PathImplemented == Spec => ImplementsPath
<1>1. Init => Path!Init
  BY DEF Init
<1> QED
  BY <1>1, SpecLines, PathStep, PTL DEF Spec, ImplementsPath, Path!Spec

-----------------------------------------------------------------------------
(***************************************************************************)
(* The loop, which counts the lines that are in inbox and buf.             *)
(***************************************************************************)
LEMMA ReceivesStep == ASSUME Lines, Receives PROVE Loop!Receives
<1> DEFINE rest == BUF_SIZ - Len(buf)
           n == IF Len(inbox) < rest THEN Len(inbox) ELSE rest
<1>1. Len(inbox) \in Nat /\ Len(buf) \in Nat /\ BUF_SIZ \in Nat
  BY BufferAssumption DEF Lines
<1>2. n \in 0 .. Len(inbox) /\ Len(inbox) > 0
  BY <1>1, EmptySeq DEF Lines, Receives
<1>3. /\ buf' = buf \o SubSeq(inbox, 1, n)
      /\ inbox' = SubSeq(inbox, n + 1, Len(inbox))
      /\ pc = "readn" /\ pc' = IF n = rest THEN "full" ELSE "readn"
      /\ UNCHANGED <<s, dest, state, enabled, port, addr, cfg_enabled, cfg_addr, destroy,
                     listening, link, sends, faults, edits>>
  BY DEF Receives
<1>4. Len(buf') = Len(buf) + n /\ Len(inbox') = Len(inbox) - n
  <2> HIDE DEF n, rest
  <2> QED
    BY <1>2, <1>3, Moved DEF Lines
<1> QED
  BY <1>2, <1>3, <1>4 DEF Loop!Receives, Loop!Goes, Loop!settings, Loop!counts

LEMMA ReturnsStep == ASSUME ReadnReturns PROVE Loop!ReadnReturns
<1>1. Len(inbox) = 0
  BY EmptySeq DEF ReadnReturns
<1> QED
  BY <1>1 DEF ReadnReturns, Loop!ReadnReturns, Loop!Goes, Loop!settings, Loop!daemonVars,
         Loop!counts

LEMMA SendsStep == ASSUME Lines, DaemonSends PROVE Loop!DaemonSends
<1>1. Len(inbox') = Len(inbox) + 1
  BY AppendProperties DEF DaemonSends, Lines
<1> QED
  BY <1>1 DEF DaemonSends, Loop!DaemonSends, Loop!threadVars, Loop!settings

LEMMA LoopNext == Lines /\ [Next]_vars => [Loop!Next]_(Loop!vars)
<1> SUFFICES ASSUME Lines, [Next]_vars PROVE Loop!Next \/ UNCHANGED Loop!vars
  OBVIOUS
<1>1. CASE UNCHANGED <<linkVars, inbox, buf>>
  BY <1>1 DEF linkVars, Loop!vars
<1>2. CASE PassesOn \/ MainHandles \/ UserAssigns \/ Over \/ UNCHANGED vars
  BY <1>1, <1>2 DEF PassesOn, MainHandles, UserAssigns, Over, vars
<1>3. CASE LoopStep
  BY <1>3 DEF LoopStep, Loop!Next, Loop!NetStep
<1>4. CASE Receives
  BY <1>4, ReceivesStep DEF Loop!Next, Loop!NetStep
<1>5. CASE ReadnReturns
  BY <1>5, ReturnsStep DEF Loop!Next, Loop!NetStep
<1>6. CASE DaemonSends
  BY <1>6, SendsStep DEF Loop!Next
<1>7. CASE SelectFails \/ LinkBreaks \/ DaemonMoves \/ UserConfigures \/ on_quit
  BY <1>7 DEF SelectFails, LinkBreaks, DaemonMoves, UserConfigures, on_quit, Loop!Next
<1> QED
  BY <1>2, <1>3, <1>4, <1>5, <1>6, <1>7 DEF Next, NetThread

\* Plugin.tla: ImplementsLoop. Every behaviour of the plug-in is one of the
\* connection loop: what is proved of LircThread holds of the whole plug-in.
THEOREM LoopImplemented == Spec => ImplementsLoop
<1>1. Init => Loop!Init
  BY EmptySeq DEF Init
<1> QED
  BY <1>1, SpecLines, LoopNext, PTL DEF Spec, ImplementsLoop, Loop!Spec

-----------------------------------------------------------------------------
(***************************************************************************)
(* The late line. When one was passed on, the thread is on its way out: it *)
(* may look at enabled once more, and reads nothing before the component   *)
(* is switched on again.                                                   *)
(***************************************************************************)
OnItsWay ==
  /\ late \in 0 .. 1
  /\ late = 1 => \/ ~ enabled /\ pc \in {"check", "top"}
                 \/ (~ enabled \/ destroy) /\ pc \in {"while", "out", "pause", "exited"}

LEMMA LoopStepLate == ASSUME OnItsWay, LoopStep PROVE OnItsWay'
<1>1. late' = late
  BY DEF LoopStep, Looping
<1>2. CASE late = 0
  BY <1>1, <1>2 DEF OnItsWay
<1>3. CASE late = 1
  <2>1. pc \in {"check", "top", "while", "out", "pause", "exited"}
    BY <1>3 DEF OnItsWay
  <2>2. CASE Loop!ChecksEnabled \/ Loop!ChecksEnabledAgain
    BY <1>1, <1>3, <2>2 DEF OnItsWay, Loop!ChecksEnabled, Loop!ChecksEnabledAgain, Loop!Goes,
           Loop!settings
  <2>3. CASE Loop!Loops
    BY <1>1, <1>3, <2>3 DEF OnItsWay, Loop!Loops, Loop!Goes, Loop!settings
  <2>4. CASE Loop!Out
    BY <1>1, <1>3, <2>4 DEF OnItsWay, Loop!Out, Loop!Goes, Loop!settings
  <2>5. CASE Loop!Pauses
    BY <1>1, <1>3, <2>5 DEF OnItsWay, Loop!Pauses, Loop!Goes, Loop!settings
  <2>6. CASE \/ Loop!ReadsAddress \/ Loop!ReadsPort \/ Loop!Connects \/ Loop!ConnectFails
             \/ Loop!ShowsConnected \/ Loop!Selects \/ Loop!ReadnFindsClosed
             \/ Loop!ReadnFails \/ Loop!Disables
    BY <2>1, <2>6 DEF Loop!ReadsAddress, Loop!ReadsPort, Loop!Connects, Loop!ConnectFails,
           Loop!ShowsConnected, Loop!Selects, Loop!ReadnFindsClosed, Loop!ReadnFails,
           Loop!Disables, Loop!Goes
  <2> QED
    BY <2>2, <2>3, <2>4, <2>5, <2>6 DEF LoopStep
<1> QED
  BY <1>2, <1>3 DEF OnItsWay

LEMMA NextLate == OnItsWay /\ [Next]_vars => OnItsWay'
<1> SUFFICES ASSUME OnItsWay, [Next]_vars PROVE OnItsWay'
  OBVIOUS
<1>1. CASE UNCHANGED <<late, pc, enabled, destroy>>
  BY <1>1 DEF OnItsWay
<1>2. CASE LoopStep
  BY <1>2, LoopStepLate
<1>3. CASE Receives \/ SelectFails
  <2>1. late' = late /\ pc \in {"readn", "select"}
    BY <1>3 DEF Receives, SelectFails, Looping, Loop!SelectFails, Loop!Goes
  <2> QED
    BY <2>1 DEF OnItsWay
<1>4. CASE ReadnReturns
  BY <1>4 DEF ReadnReturns, OnItsWay
<1>5. CASE PassesOn \/ MainHandles \/ UserAssigns
  BY <1>1, <1>5 DEF PassesOn, MainHandles, UserAssigns, linkVars
<1>6. CASE DaemonSends \/ LinkBreaks \/ DaemonMoves
  BY <1>1, <1>6 DEF DaemonSends, LinkBreaks, DaemonMoves, Loop!LinkBreaks, Loop!DaemonCloses,
         Loop!DaemonStarts, Loop!DaemonStops, Loop!threadVars, Loop!settings
<1>7. CASE UserConfigures
  <2>1. ~ destroy /\ UNCHANGED <<pc, destroy>> /\ late' = IF enabled' THEN 0 ELSE late
    BY <1>7 DEF UserConfigures, Loop!OnIpnFieldchangedIpaddress, Loop!OnEnChangePort,
           Loop!OnBnClickedApply, Loop!Edits, Loop!threadVars
  <2> QED
    BY <2>1 DEF OnItsWay
<1>8. CASE on_quit
  BY <1>8 DEF on_quit, Loop!on_quit, Loop!threadVars, Loop!settings, OnItsWay
<1>9. CASE Over \/ UNCHANGED vars
  BY <1>1, <1>9 DEF Over, vars, linkVars
<1> QED
  BY <1>2, <1>3, <1>4, <1>5, <1>6, <1>7, <1>8, <1>9 DEF Next, NetThread

\* Plugin.tla: LateLine. However many lines have arrived, the thread passes on one
\* at most after the component was switched off or on_quit has begun.
THEOREM OneLateLine == Spec => []LateLine
<1>1. Init => OnItsWay
  BY DEF Init, OnItsWay
<1>2. OnItsWay => LateLine
  BY DEF OnItsWay, LateLine
<1> QED
  BY <1>1, <1>2, NextLate, PTL DEF Spec
=============================================================================
