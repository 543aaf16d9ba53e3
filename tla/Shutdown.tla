------------------------------- MODULE Shutdown -------------------------------
(***************************************************************************)
(* The start and the end of the plug-in (wdevinitquit.cpp) against the     *)
(* time the network thread needs to end: on_init, each of whose calls may  *)
(* fail, and on_quit, which waits ten seconds for the thread and then      *)
(* deletes the critical sections that the thread uses and stops the        *)
(* sockets.                                                                *)
(*                                                                         *)
(* Time goes in ticks of half a second. Steps take no time; a sleep takes  *)
(* all of its ticks, select as many as it likes up to its limit, and       *)
(* connect, for which the code sets no limit, as many as it likes. A tick  *)
(* passes when neither thread has a step to make, so what is due in the    *)
(* same tick happens in every order. What the thread reads and posts is    *)
(* LircThread and RemoteKey.                                               *)
(***************************************************************************)
EXTENDS Integers

CONSTANT Wait   \* ticks on_quit waits for the thread

ASSUME WaitAssumption == Wait \in Nat

VARIABLES
  main,     \* where the main thread is
  thread,   \* where the network thread is
  left,     \* ticks of the network thread's wait
  took,     \* ticks its last connect has taken, counted up to Wait
  patience, \* ticks of the main thread's wait
  destroy,  \* global_event = COMPONENT_EVENT_DESTROY
  hook,     \* message_hook is set
  cs,       \* what global_cs is
  execute,  \* what global_execute_cs is
  wsa       \* the sockets may be used

sections == <<cs, execute>>
vars == <<main, thread, left, took, patience, destroy, hook, sections, wsa>>

Init ==
  /\ main = "start"
  /\ thread = "none"
  /\ left = 0 /\ took = 0 /\ patience = 0
  /\ destroy = FALSE
  /\ hook = FALSE
  /\ cs = "none" /\ execute = "none"
  /\ wsa = FALSE

-----------------------------------------------------------------------------
(* The main thread.                                                        *)

MainGoes(from, to) == main = from /\ main' = to

\* WSAStartup, whose failure on_init does not look at.
init ==
  /\ MainGoes("start", "sections")
  /\ wsa' \in BOOLEAN
  /\ UNCHANGED <<thread, left, took, patience, destroy, hook, sections>>

InitializesCs ==
  /\ MainGoes("sections", "execute")
  /\ cs' = "ready"
  /\ UNCHANGED <<thread, left, took, patience, destroy, hook, execute, wsa>>

InitializesExecute ==
  /\ MainGoes("execute", "create")
  /\ execute' = "ready"
  /\ UNCHANGED <<thread, left, took, patience, destroy, hook, cs, wsa>>

\* Faulty variant: CREATE_SUSPENDED is forgotten.
CreatesRunning ==
  /\ \/ MainGoes("create", "hook") /\ thread' = "enabled"
     \/ MainGoes("create", "running") /\ UNCHANGED thread
  /\ UNCHANGED <<left, took, patience, destroy, hook, sections, wsa>>

\* CREATE_SUSPENDED; without a thread the start is over.
CreatesThread ==
  /\ \/ MainGoes("create", "hook") /\ thread' = "suspended"
     \/ MainGoes("create", "running") /\ UNCHANGED thread
  /\ UNCHANGED <<left, took, patience, destroy, hook, sections, wsa>>

\* Without a hook the start is over and the thread stays suspended.
SetsHook ==
  /\ \/ MainGoes("hook", "resume") /\ hook' = TRUE
     \/ MainGoes("hook", "running") /\ UNCHANGED hook
  /\ UNCHANGED <<thread, left, took, patience, destroy, sections, wsa>>

ResumesThread ==
  /\ MainGoes("resume", "running")
  /\ thread' = "enabled"
  /\ UNCHANGED <<left, took, patience, destroy, hook, sections, wsa>>

wdevlirc_init ==
  InitializesCs \/ InitializesExecute \/ CreatesThread \/ SetsHook \/ ResumesThread

on_quit ==
  /\ MainGoes("running", "unhook")
  /\ destroy' = TRUE
  /\ UNCHANGED <<thread, left, took, patience, hook, sections, wsa>>

\* Faulty variant: a section goes with the hook that took it.
UnhooksAndDeletes ==
  /\ MainGoes("unhook", "wait")
  /\ hook' = FALSE /\ execute' = "deleted"
  /\ patience' = Wait
  /\ UNCHANGED <<thread, left, took, destroy, cs, wsa>>

Unhooks ==
  /\ MainGoes("unhook", "wait")
  /\ hook' = FALSE
  /\ patience' = Wait
  /\ UNCHANGED <<thread, left, took, destroy, sections, wsa>>

\* Faulty variant: on_quit does not wait.
WaitsNot ==
  /\ MainGoes("wait", "delete execute")
  /\ patience' = 0
  /\ UNCHANGED <<thread, left, took, destroy, hook, sections, wsa>>

\* Faulty variant: on_quit waits as long as it takes.
WaitsInfinitely ==
  /\ thread \in {"none", "exited"}
  /\ MainGoes("wait", "delete execute")
  /\ patience' = 0
  /\ UNCHANGED <<thread, left, took, destroy, hook, sections, wsa>>

\* A wait for no thread fails at once.
Waits ==
  /\ thread \in {"none", "exited"} \/ patience = 0
  /\ MainGoes("wait", "delete execute")
  /\ patience' = 0
  /\ UNCHANGED <<thread, left, took, destroy, hook, sections, wsa>>

DeletesExecute ==
  /\ MainGoes("delete execute", "delete cs")
  /\ execute' = "deleted"
  /\ UNCHANGED <<thread, left, took, patience, destroy, hook, cs, wsa>>

DeletesCs ==
  /\ MainGoes("delete cs", "term")
  /\ cs' = "deleted"
  /\ UNCHANGED <<thread, left, took, patience, destroy, hook, execute, wsa>>

term ==
  /\ MainGoes("term", "ended")
  /\ wsa' = FALSE
  /\ UNCHANGED <<thread, left, took, patience, destroy, hook, sections>>

MainStep ==
  \/ init \/ wdevlirc_init \/ on_quit \/ Unhooks \/ Waits \/ DeletesExecute \/ DeletesCs \/ term

-----------------------------------------------------------------------------
(* The network thread.                                                     *)

mainVars == <<main, patience, destroy, hook, sections, wsa>>

Goes(from, to, ticks) == thread = from /\ thread' = to /\ left' = ticks

\* global_enabled may be anything.
ChecksEnabled ==
  /\ \/ Goes("enabled", "out", 0) /\ UNCHANGED took
     \/ Goes("enabled", "connect", 0) /\ took' = 0
  /\ UNCHANGED mainVars

\* After WSACleanup connect fails.
Connects ==
  /\ wsa
  /\ Goes("connect", "connected", 2)
  /\ UNCHANGED <<took, mainVars>>

ConnectFails ==
  /\ Goes("connect", "out", 0)
  /\ UNCHANGED <<took, mainVars>>

WakesConnected ==
  /\ left = 0
  /\ Goes("connected", "check", 0)
  /\ UNCHANGED <<took, mainVars>>

ChecksEnabledAgain ==
  /\ \/ Goes("check", "out", 0)
     \/ Goes("check", "select", 1)
  /\ UNCHANGED <<took, mainVars>>

\* The time is over, or the socket failed or was closed.
SelectsNothing ==
  /\ \/ Goes("select", "while", 0) /\ wsa
     \/ Goes("select", "out", 0)
  /\ UNCHANGED <<took, mainVars>>

\* A line was read.
ReadnReturns ==
  /\ wsa
  /\ Goes("select", "lock", 0)
  /\ UNCHANGED <<took, mainVars>>

EntersCs ==
  /\ \/ Goes("lock", "try", 0)
     \/ Goes("lock", "while", 0)
  /\ UNCHANGED <<took, mainVars>>

TriesExecute ==
  /\ Goes("try", "while", 0)
  /\ UNCHANGED <<took, mainVars>>

\* Faulty variant: the event ends the outer loop only.
LoopsOn ==
  /\ Goes("while", "check", 0)
  /\ UNCHANGED <<took, mainVars>>

\* The state is still Connected here: only the event ends the loop.
Loops ==
  /\ Goes("while", IF destroy THEN "out" ELSE "check", 0)
  /\ UNCHANGED <<took, mainVars>>

Out ==
  /\ Goes("out", "pause", 1)
  /\ UNCHANGED <<took, mainVars>>

Pauses ==
  /\ left = 0
  /\ Goes("pause", IF destroy THEN "exited" ELSE "enabled", 0)
  /\ UNCHANGED <<took, mainVars>>

ThreadStep ==
  \/ ChecksEnabled \/ Connects \/ ConnectFails \/ WakesConnected
  \/ ChecksEnabledAgain \/ SelectsNothing \/ ReadnReturns
  \/ EntersCs \/ TriesExecute \/ Loops \/ Out \/ Pauses

-----------------------------------------------------------------------------
(* Time.                                                                   *)

\* The thread waits for the clock or for the peer, or does not run.
ThreadWaits ==
  \/ thread \in {"none", "suspended", "exited", "connect"}
  \/ thread \in {"connected", "select", "pause"} /\ left > 0

MainWaits ==
  \/ main = "running"
  \/ main = "wait" /\ thread \notin {"none", "exited"} /\ patience > 0

Tick ==
  /\ ThreadWaits /\ MainWaits
  /\ left' = IF left > 0 THEN left - 1 ELSE 0
  /\ took' = IF thread = "connect" /\ took < Wait THEN took + 1 ELSE took
  /\ patience' = IF patience > 0 THEN patience - 1 ELSE 0
  /\ UNCHANGED <<main, thread, destroy, hook, sections, wsa>>

Next == MainStep \/ ThreadStep \/ Tick

Spec == Init /\ [][Next]_vars

\* The threads are scheduled, connect returns in the end, however late, and the
\* clock goes; when the user ends the player is the user's choice.
FairSpec ==
  /\ Spec
  /\ WF_vars(Unhooks \/ Waits \/ DeletesExecute \/ DeletesCs \/ term)
  /\ WF_vars(ThreadStep)
  /\ WF_vars(Tick)

-----------------------------------------------------------------------------
(* Properties.                                                             *)

Running ==
  {"enabled", "connect", "connected", "check", "select", "lock", "try",
   "while", "out", "pause"}

TypeOK ==
  /\ main \in {"start", "sections", "execute", "create", "hook", "resume", "running",
               "unhook", "wait", "delete execute", "delete cs", "term", "ended"}
  /\ thread \in Running \cup {"none", "suspended", "exited"}
  /\ left \in 0 .. 2
  /\ took \in 0 .. Wait
  /\ patience \in 0 .. Wait
  /\ destroy \in BOOLEAN /\ hook \in BOOLEAN /\ wsa \in BOOLEAN
  /\ cs \in {"none", "ready", "deleted"}
  /\ execute \in {"none", "ready", "deleted"}

\* A connect that leaves less of the wait than the thread's sleeps and its
\* select need after it: a second, half a second and half a second.
SlowConnect == took >= Wait - 4

\* The thread outlives the wait of on_quit only when a connect took almost all
\* of it: all else that it may be doing then, in either loop, ends in time.
ThreadGoneFirst ==
  main \in {"delete execute", "delete cs", "term", "ended"} /\ thread \in Running
    => SlowConnect

\* The thread enters no critical section before it is initialised or after it
\* was deleted: the code does not keep this (README, section 7).
SectionsReady ==
  /\ thread = "lock" => cs = "ready"
  /\ thread = "try" => execute = "ready"

\* It is a slow connect, and nothing else at the start or at the end, that lets
\* the thread enter a section that is not there.
SectionsReadyUnlessSlow == ~ SlowConnect => SectionsReady

\* The thread runs, and posts keys to the main window, only while the hook is
\* there to take them, from the first call of the start to on_quit, whichever
\* call fails.
RunsHooked ==
  thread \in Running /\ main \notin {"wait", "delete execute", "delete cs", "term", "ended"}
    => hook

\* The player ends, also when the start failed halfway and the thread is still
\* suspended.
QuitEnds == main = "unhook" ~> main = "ended"
=============================================================================
