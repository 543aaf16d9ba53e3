---------------------------- MODULE ShutdownProofs ----------------------------
(***************************************************************************)
(* Proofs about Shutdown, for every length of the wait and with no limit   *)
(* on connect: types, the order of the calls at the start, and that only a *)
(* slow connect lets the thread outlive the wait of on_quit.               *)
(***************************************************************************)
EXTENDS Shutdown, TLAPS

(***************************************************************************)
(* The start. There is no thread before CreateThread and none that runs    *)
(* before ResumeThread, which only a set hook leads to; by then both       *)
(* sections are initialised, and they stay so until the wait is over.      *)
(***************************************************************************)
Starting == {"start", "sections", "execute", "create"}
Past == {"delete execute", "delete cs", "term", "ended"}

Phases ==
  /\ main \in Starting => thread = "none"
  /\ main \in {"hook", "resume"} => thread = "suspended"
  /\ main = "resume" => hook
  /\ main \in {"create", "hook", "resume", "running", "unhook", "wait"}
       => cs = "ready" /\ execute = "ready"
  /\ main = "execute" => cs = "ready"
  /\ main \in {"unhook", "wait"} \cup Past => destroy
  /\ RunsHooked

\* How long a wait for the clock may still last.
Limits == thread \in {"select", "pause"} => left <= 1

StartInv == TypeOK /\ Phases /\ Limits

LEMMA InitStart == Init => StartInv
<1> SUFFICES ASSUME Init PROVE StartInv
  OBVIOUS
<1>1. 0 \in 0 .. 2 /\ 0 \in 0 .. Wait
  BY WaitAssumption
<1>2. TypeOK
  BY <1>1 DEF Init, TypeOK
<1>3. Phases /\ Limits
  BY DEF Init, Phases, Limits, RunsHooked, Running, Starting, Past
<1> QED
  BY <1>2, <1>3 DEF StartInv

LEMMA Numbers ==
  ASSUME StartInv
  PROVE  left \in 0 .. 2 /\ took \in 0 .. Wait /\ patience \in 0 .. Wait /\ Wait \in Nat
BY WaitAssumption DEF StartInv, TypeOK

LEMMA MainStepStart ==
  ASSUME StartInv, MainStep
  PROVE  StartInv'
<1>0. 0 \in 0 .. Wait /\ Wait \in 0 .. Wait
  BY WaitAssumption
<1> USE DEF StartInv, TypeOK, Phases, Limits, RunsHooked, Running, Starting, Past, MainGoes,
            sections
<1>1. CASE init
  BY <1>1 DEF init
<1>2. CASE InitializesCs
  BY <1>2 DEF InitializesCs
<1>3. CASE InitializesExecute
  BY <1>3 DEF InitializesExecute
<1>4. CASE CreatesThread
  BY <1>4 DEF CreatesThread
<1>5. CASE SetsHook
  BY <1>5 DEF SetsHook
<1>6. CASE ResumesThread
  BY <1>6 DEF ResumesThread
<1>7. CASE on_quit
  BY <1>7 DEF on_quit
<1>8. CASE Unhooks
  BY <1>0, <1>8 DEF Unhooks
<1>9. CASE Waits
  BY <1>0, <1>9 DEF Waits
<1>10. CASE DeletesExecute
  BY <1>10 DEF DeletesExecute
<1>11. CASE DeletesCs
  BY <1>11 DEF DeletesCs
<1>12. CASE term
  BY <1>12 DEF term
<1> QED
  BY <1>1, <1>2, <1>3, <1>4, <1>5, <1>6, <1>7, <1>8, <1>9, <1>10, <1>11, <1>12
     DEF MainStep, wdevlirc_init

\* A step of the thread goes from one running place to another, or to its end,
\* with a wait within its limit; a connect starts its count anew.
LEMMA ThreadGoes ==
  ASSUME ThreadStep
  PROVE  /\ UNCHANGED mainVars
         /\ thread \in Running
         /\ \/ thread' = "connected" /\ left' = 2
            \/ thread' \in {"select", "pause"} /\ left' = 1
            \/ thread' \in Running \cup {"exited"}
               /\ thread' \notin {"connected", "select", "pause"} /\ left' = 0
         /\ \/ took' = took
            \/ thread = "enabled" /\ took' = 0
BY DEF ThreadStep, ChecksEnabled, Connects, ConnectFails, WakesConnected,
       ChecksEnabledAgain, SelectsNothing, ReadnReturns, EntersCs, TriesExecute,
       Loops, Out, Pauses, Goes, Running

LEMMA ThreadStepStart ==
  ASSUME StartInv, ThreadStep
  PROVE  StartInv'
<1>1. /\ UNCHANGED mainVars
      /\ thread \in Running
      /\ \/ thread' = "connected" /\ left' = 2
         \/ thread' \in {"select", "pause"} /\ left' = 1
         \/ thread' \in Running \cup {"exited"}
            /\ thread' \notin {"connected", "select", "pause"} /\ left' = 0
      /\ \/ took' = took
         \/ thread = "enabled" /\ took' = 0
  BY ThreadGoes
<1>2. 2 \in 0 .. 2 /\ 1 \in 0 .. 2 /\ 0 \in 0 .. 2 /\ 0 \in 0 .. Wait /\ 1 <= 1
  BY WaitAssumption
<1>3. /\ left' \in 0 .. 2 /\ took' \in 0 .. Wait
      /\ thread' \in Running \cup {"none", "suspended", "exited"}
  BY <1>1, <1>2 DEF StartInv, TypeOK, Running
<1>4. TypeOK'
  BY <1>1, <1>3 DEF StartInv, TypeOK, mainVars, sections
<1>5. Limits'
  BY <1>1, <1>2 DEF Limits
<1>6. Phases'
  BY <1>1 DEF StartInv, Phases, RunsHooked, Running, Starting, Past, mainVars, sections
<1> QED
  BY <1>4, <1>5, <1>6 DEF StartInv

\* A tick, as arithmetic: SMT does it apart from the control.
LEMMA Ticks ==
  ASSUME StartInv, Tick
  PROVE  /\ left' \in 0 .. 2 /\ took' \in 0 .. Wait /\ patience' \in 0 .. Wait
         /\ left <= 1 => left' <= 1
<1>1. left \in 0 .. 2 /\ took \in 0 .. Wait /\ patience \in 0 .. Wait /\ Wait \in Nat
  BY Numbers
<1>2. /\ left' = IF left > 0 THEN left - 1 ELSE 0
      /\ patience' = IF patience > 0 THEN patience - 1 ELSE 0
      /\ \/ took' = took
         \/ took < Wait /\ took' = took + 1
  BY DEF Tick
<1>3. left' \in 0 .. 2 /\ (left <= 1 => left' <= 1)
  BY <1>1, <1>2
<1>4. took' \in 0 .. Wait
  BY <1>1, <1>2
<1>5. patience' \in 0 .. Wait
  BY <1>1, <1>2
<1> QED
  BY <1>3, <1>4, <1>5

LEMMA TickStart ==
  ASSUME StartInv, Tick
  PROVE  StartInv'
<1>1. UNCHANGED <<main, thread, destroy, hook, cs, execute, wsa>>
  BY DEF Tick, sections
<1>2. TypeOK'
  BY <1>1, Ticks DEF StartInv, TypeOK
<1>3. Phases'
  BY <1>1 DEF StartInv, Phases, RunsHooked
<1>4. Limits'
  BY <1>1, Ticks DEF StartInv, Limits
<1> QED
  BY <1>2, <1>3, <1>4 DEF StartInv

LEMMA NextStart == StartInv /\ [Next]_vars => StartInv'
<1> SUFFICES ASSUME StartInv, [Next]_vars PROVE StartInv'
  OBVIOUS
<1>1. CASE UNCHANGED vars
  BY <1>1 DEF vars, sections, StartInv, TypeOK, Phases, Limits, RunsHooked
<1>2. CASE Next
  BY <1>2, MainStepStart, ThreadStepStart, TickStart DEF Next
<1> QED
  BY <1>1, <1>2

\* Types, for every wait: no wait for the clock is longer than a second.
THEOREM TypeCorrect == Spec => []TypeOK
<1>1. StartInv => TypeOK
  BY DEF StartInv
<1> QED
  BY <1>1, InitStart, NextStart, PTL DEF Spec

\* From the first call of on_init to on_quit no thread runs without the hook
\* that takes its keys, whichever call of the start fails.
THEOREM HookedFirst == Spec => []RunsHooked
<1>1. StartInv => RunsHooked
  BY DEF StartInv, Phases
<1> QED
  BY <1>1, InitStart, NextStart, PTL DEF Spec

-----------------------------------------------------------------------------
(***************************************************************************)
(* The end. While on_quit waits, the event is set and neither loop is      *)
(* entered again: what has gone of the wait went into the connect of this  *)
(* turn, or into the waits behind it, a second, half a second and half a   *)
(* second. Spent is how much of these four ticks has gone.                 *)
(***************************************************************************)
Spent ==
  CASE thread = "connected" -> 2 - left
    [] thread = "check" -> 2
    [] thread = "select" -> 3 - left
    [] thread \in {"lock", "try", "while", "out"} -> 3
    [] thread = "pause" -> 4 - left
    [] OTHER -> 0

InTime ==
  /\ main = "wait" /\ thread = "enabled" => patience = Wait
  /\ main = "wait" /\ thread \in Running => Wait <= patience + took + Spent

\* After the wait; a thread that has just begun a turn then was given no time.
Outlived == main \in Past /\ thread = "enabled" => Wait = 0

EndInv == StartInv /\ InTime /\ Outlived /\ ThreadGoneFirst

LEMMA InitEnd == Init => EndInv
BY InitStart DEF Init, EndInv, InTime, Outlived, ThreadGoneFirst, Past

LEMMA SpentRange ==
  ASSUME StartInv
  PROVE  Spent \in 0 .. 4
<1>1. left \in 0 .. 2
  BY Numbers
<1> QED
  BY <1>1 DEF Spent

LEMMA MainStepEnd ==
  ASSUME EndInv, MainStep
  PROVE  InTime' /\ Outlived' /\ ThreadGoneFirst'
<1>0. StartInv
  BY DEF EndInv
<1>1. CASE init \/ wdevlirc_init \/ on_quit
  BY <1>1 DEF init, wdevlirc_init, InitializesCs, InitializesExecute, CreatesThread,
              SetsHook, ResumesThread, on_quit, MainGoes, InTime, Outlived, Past,
              ThreadGoneFirst
<1>2. CASE Unhooks
  <2>1. main' = "wait" /\ patience' = Wait /\ UNCHANGED <<thread, left, took>>
    BY <1>2 DEF Unhooks, MainGoes
  <2>2. Spent' = Spent
    BY <2>1 DEF Spent
  <2>3. Wait <= patience' + took' + Spent'
    BY <1>0, <2>1, <2>2, Numbers, SpentRange
  <2> QED
    BY <2>1, <2>3 DEF InTime, Outlived, ThreadGoneFirst, Past
<1>3. CASE Waits
  <2>1. main = "wait" /\ main' = "delete execute" /\ UNCHANGED <<thread, took>>
    BY <1>3 DEF Waits, MainGoes
  <2>2. ASSUME thread \in Running
        PROVE  SlowConnect /\ (thread = "enabled" => Wait = 0)
    <3>1. patience = 0
      BY <1>3, <2>2 DEF Waits, Running
    <3>2. Wait <= patience + took + Spent /\ (thread = "enabled" => patience = Wait)
      BY <2>1, <2>2 DEF EndInv, InTime
    <3>3. took >= Wait - 4
      BY <1>0, <3>1, <3>2, Numbers, SpentRange
    <3> QED
      BY <3>1, <3>2, <3>3 DEF SlowConnect
  <2> QED
    BY <2>1, <2>2 DEF InTime, Outlived, ThreadGoneFirst, SlowConnect, Running
<1>4. CASE DeletesExecute \/ DeletesCs \/ term
  BY <1>4 DEF DeletesExecute, DeletesCs, term, MainGoes, EndInv, InTime, Outlived,
              ThreadGoneFirst, SlowConnect, Past
<1> QED
  BY <1>1, <1>2, <1>3, <1>4 DEF MainStep

\* No step of the thread undoes what it has spent, but the one that begins a
\* connect, from where nothing was spent.
LEMMA SpendsOn ==
  ASSUME StartInv, ThreadStep, destroy
  PROVE  /\ thread' # "enabled"
         /\ thread' # "exited" /\ thread # "enabled" => Spent <= Spent' /\ took' = took
<1>1. left \in 0 .. 2 /\ Limits
  BY Numbers DEF StartInv
<1>2. CASE ChecksEnabled \/ Connects \/ ConnectFails \/ WakesConnected
  BY <1>1, <1>2 DEF ChecksEnabled, Connects, ConnectFails, WakesConnected, Goes, Spent
<1>3. CASE ChecksEnabledAgain \/ SelectsNothing \/ ReadnReturns
  BY <1>1, <1>3 DEF ChecksEnabledAgain, SelectsNothing, ReadnReturns, Goes, Spent, Limits
<1>4. CASE EntersCs \/ TriesExecute \/ Loops \/ Out \/ Pauses
  BY <1>1, <1>4 DEF EntersCs, TriesExecute, Loops, Out, Pauses, Goes, Spent
<1> QED
  BY <1>2, <1>3, <1>4 DEF ThreadStep

LEMMA Sums ==
  ASSUME NEW w \in Nat, NEW p \in Nat, NEW a \in Nat, NEW x \in Nat, NEW y \in Nat
  PROVE  /\ p = w => w <= p + a + y
         /\ w <= p + a + x /\ x <= y => w <= p + a + y
OBVIOUS

LEMMA ThreadStepEnd ==
  ASSUME EndInv, ThreadStep
  PROVE  InTime' /\ Outlived' /\ ThreadGoneFirst'
<1>0. StartInv /\ StartInv'
  BY ThreadStepStart DEF EndInv
<1>1. /\ main' = main /\ patience' = patience /\ thread \in Running
      /\ \/ took' = took
         \/ thread = "enabled" /\ took' = 0
  BY ThreadGoes DEF mainVars
<1>2. main \in {"wait"} \cup Past => destroy
  BY <1>0 DEF StartInv, Phases
<1>3. /\ Wait \in Nat /\ patience \in 0 .. Wait /\ took \in 0 .. Wait /\ Spent \in 0 .. 4
      /\ took' \in 0 .. Wait /\ Spent' \in 0 .. 4
  <2>1. took' \in 0 .. Wait /\ left' \in 0 .. 2
    BY <1>0 DEF StartInv, TypeOK
  <2>2. Spent' \in 0 .. 4
    BY <2>1 DEF Spent
  <2> QED
    BY <1>0, <2>1, <2>2, Numbers, SpentRange
<1>n. /\ Wait \in Nat /\ patience \in Nat /\ took \in Nat /\ Spent \in Nat
      /\ took' \in Nat /\ Spent' \in Nat
  BY <1>3
<1>4. InTime'
  <2>1. SUFFICES ASSUME main = "wait", thread' \in Running
                 PROVE  /\ thread' # "enabled"
                        /\ Wait <= patience + took' + Spent'
    BY <1>1 DEF InTime, Running
  <2>2. thread' # "enabled"
    BY <1>0, <1>2, <2>1, SpendsOn
  <2>3. CASE thread = "enabled"
    <3>1. patience = Wait
      BY <2>1, <2>3 DEF EndInv, InTime
    <3>2. Wait <= patience + took' + Spent'
      BY <1>n, <3>1, Sums
    <3> QED
      BY <2>2, <3>2
  <2>4. CASE thread # "enabled"
    <3>1. Spent <= Spent' /\ took' = took
      BY <1>0, <1>2, <2>1, <2>4, SpendsOn DEF Running
    <3>2. Wait <= patience + took + Spent
      BY <1>1, <2>1 DEF EndInv, InTime
    <3>3. Wait <= patience + took' + Spent'
      BY <1>n, <3>1, <3>2, Sums
    <3> QED
      BY <2>2, <3>3
  <2> QED
    BY <2>3, <2>4
<1>5. Outlived'
  BY <1>0, <1>1, <1>2, SpendsOn DEF Outlived
<1>6. ThreadGoneFirst'
  <2>1. SUFFICES ASSUME main \in Past PROVE took' >= Wait - 4
    BY <1>1 DEF ThreadGoneFirst, SlowConnect, Past
  <2>2. CASE took' = took
    BY <1>1, <2>1, <2>2 DEF EndInv, ThreadGoneFirst, SlowConnect, Past
  <2>3. CASE thread = "enabled" /\ took' = 0
    <3>1. Wait = 0
      BY <2>1, <2>3 DEF EndInv, Outlived
    <3> QED
      BY <2>3, <3>1
  <2> QED
    BY <1>1, <2>2, <2>3
<1> QED
  BY <1>4, <1>5, <1>6

\* A tick of the wait is one of connect, or is spent.
LEMMA TickEnd ==
  ASSUME EndInv, Tick
  PROVE  InTime' /\ Outlived' /\ ThreadGoneFirst'
<1>0. StartInv
  BY DEF EndInv
<1>1. UNCHANGED <<main, thread>>
  BY DEF Tick
<1>2. main \notin Past
  BY DEF Tick, MainWaits, Past
<1>3. Outlived' /\ ThreadGoneFirst'
  BY <1>1, <1>2 DEF Outlived, ThreadGoneFirst, Past
<1>4. ASSUME main = "wait", thread \in Running
      PROVE  thread # "enabled" /\ Wait <= patience' + took' + Spent'
  <2>1. /\ Wait \in Nat /\ patience \in 0 .. Wait /\ took \in 0 .. Wait /\ left \in 0 .. 2
        /\ Wait <= patience + took + Spent
    BY <1>0, <1>4, Numbers DEF EndInv, InTime
  <2>2. patience > 0 /\ patience' = patience - 1
    BY <1>4 DEF Tick, MainWaits
  <2>3. CASE thread = "connect"
    <3>1. Spent = 0 /\ Spent' = 0
      BY <1>1, <2>3 DEF Spent
    <3>2. took' = IF took < Wait THEN took + 1 ELSE took
      BY <2>3 DEF Tick
    <3>3. patience' \in Nat
      BY <2>1, <2>2
    <3> QED
      BY <2>1, <2>2, <2>3, <3>1, <3>2, <3>3
  <2>4. CASE thread \in {"connected", "select", "pause"} /\ left > 0
    <3>1. left' = left - 1 /\ took' = took
      BY <2>4 DEF Tick
    <3>2. \/ Spent = 2 - left /\ Spent' = 2 - left'
          \/ Spent = 3 - left /\ Spent' = 3 - left'
          \/ Spent = 4 - left /\ Spent' = 4 - left'
      BY <1>1, <2>4 DEF Spent
    <3> QED
      BY <2>1, <2>2, <2>4, <3>1, <3>2
  <2> QED
    BY <1>4, <2>3, <2>4 DEF Tick, ThreadWaits, Running
<1> QED
  BY <1>1, <1>3, <1>4 DEF InTime, Running

LEMMA NextEnd == EndInv /\ [Next]_vars => EndInv'
<1> SUFFICES ASSUME EndInv, [Next]_vars PROVE EndInv'
  OBVIOUS
<1>1. StartInv'
  BY NextStart DEF EndInv
<1>2. CASE UNCHANGED vars
  BY <1>1, <1>2 DEF vars, EndInv, InTime, Outlived, ThreadGoneFirst, SlowConnect, Spent
<1>3. CASE Next
  BY <1>1, <1>3, MainStepEnd, ThreadStepEnd, TickEnd DEF Next, EndInv
<1> QED
  BY <1>2, <1>3

\* When on_quit goes on to delete what the thread uses, the thread is over, or
\* a connect has taken all but two seconds of the wait: for any wait, with
\* nothing assumed of connect.
THEOREM ThreadEndsFirst == Spec => []ThreadGoneFirst
<1>1. EndInv => ThreadGoneFirst
  BY DEF EndInv
<1> QED
  BY <1>1, InitEnd, NextEnd, PTL DEF Spec

\* Without such a connect the thread enters no section that is not ready, at
\* the start or at the end.
THEOREM SectionsAreReady == Spec => []SectionsReadyUnlessSlow
<1>1. EndInv => SectionsReadyUnlessSlow
  <2>1. SUFFICES ASSUME EndInv, thread \in {"lock", "try"}, ~ SlowConnect
                 PROVE  cs = "ready" /\ execute = "ready"
    BY DEF SectionsReadyUnlessSlow, SectionsReady
  <2>2. main \in {"running", "unhook", "wait"}
    BY <2>1 DEF EndInv, StartInv, TypeOK, Phases, ThreadGoneFirst, Running, Starting
  <2> QED
    BY <2>1, <2>2 DEF EndInv, StartInv, Phases
<1> QED
  BY <1>1, InitEnd, NextEnd, PTL DEF Spec
=============================================================================
