------------------------------ MODULE RemoteKey ------------------------------
(***************************************************************************)
(* The way of a key press through the plug-in (wdevfoo_lirc.cpp,           *)
(* wdevinitquit.cpp, wdevinitconfig.cpp): the network thread puts what it  *)
(* received into the one global lirc_info and posts WM_REMOTE_KEY with a   *)
(* pointer to it; the main thread reads it when it handles the message, to *)
(* run the assigned action or to show the pair in the configuration        *)
(* dialog, and changes the assignments when the dialog's buttons are       *)
(* pressed.                                                                *)
(*                                                                         *)
(* A step is what one thread does between two accesses to what the other   *)
(* one uses; entering a critical section is one step with the access after *)
(* it, leaving with the access before it. A received line is known by its  *)
(* number: lirc, the variables of the hook and the fields of the dialog    *)
(* hold the number of the line that each of their two names came from.     *)
(*                                                                         *)
(* The connection is left out (see LircThread), the list of assignments is *)
(* the map that ActionMap implements, one dialog is open at a time, and a  *)
(* command takes no message from the queue of the main thread.             *)
(***************************************************************************)
EXTENDS Naturals, Sequences

CONSTANTS
  Keys,        \* button names a line can hold
  Remotes,     \* remote control names a line can hold
  Actions,     \* indexes of act_table
  NoAction,    \* the value of a pair no action is assigned to
  MaxLines,    \* bound: lines received
  MaxThrows    \* bound: commands that end in an exception

ASSUME NoActionAssumption == NoAction \notin Actions
ASSUME BoundsAssumption == MaxLines \in Nat /\ MaxThrows \in Nat

Pairs == Keys \X Remotes

VARIABLES
  received,   \* the pairs received so far, in order
  net,        \* where the network thread is
  lirc,       \* the global lirc_info: the line of its kn and of its rn
  cs,         \* thread in global_cs, or "none"
  exec,       \* global_execute_cs: its owner and how often it has entered it
  config,     \* g_hWndConfig # NULL
  queue,      \* posted messages: the window and the line they are for. A line is
              \* posted once at most, so the numbers give the order of the queue
  main,       \* where the main thread is
  job,        \* lines the main thread handles: for (posted), kn and rn (read)
  action,     \* what the hook found assigned to the pair it read
  fields,     \* lines shown in the dialog's two edit boxes, 0 when empty
  bind,       \* what each pair is assigned to
  raced,      \* bind changed during the network thread's lookup
  thrown,     \* commands that ended in an exception
  crashed     \* the lookup followed a pointer to a deleted object

netVars  == <<received, net>>
mainVars == <<main, job, action>>
uiVars   == <<config, fields, bind>>
faults   == <<raced, thrown, crashed>>
vars == <<received, net, lirc, cs, exec, config, queue, main, job, action,
          fields, bind, raced, thrown, crashed>>

Line == Len(received)   \* the line the network thread is at

\* The pair in a lirc_info: each name comes from the line it was stored for.
PairOf(info) == <<received[info.kn][1], received[info.rn][2]>>

NoLine == [kn |-> 0, rn |-> 0]
Free == [owner |-> "none", count |-> 0]

Init ==
  /\ received = <<>>
  /\ net = "recv"
  /\ lirc = NoLine
  /\ cs = "none"
  /\ exec = Free
  /\ config = FALSE
  /\ queue = {}
  /\ main = "idle"
  /\ job = [for |-> 0, kn |-> 0, rn |-> 0]
  /\ action = NoAction
  /\ fields = NoLine
  /\ bind \in [Pairs -> Actions \cup {NoAction}]
  /\ raced = FALSE
  /\ thrown = 0
  /\ crashed = FALSE

-----------------------------------------------------------------------------
(* The network thread.                                                     *)

NetGoes(from, to) == net = from /\ net' = to

\* A line arrives and is parsed into kn and rn.
ReceiveLine ==
  /\ Line < MaxLines
  /\ NetGoes("recv", "store")
  /\ \E p \in Pairs : received' = Append(received, p)
  /\ UNCHANGED <<lirc, cs, exec, queue, mainVars, uiVars, faults>>

\* Faulty variant: a busy global_cs is not waited for.
NetSkipsWhenBusy ==
  /\ \/ /\ cs = "none" /\ cs' = "net"
        /\ NetGoes("store", "store rn")
        /\ lirc' = [lirc EXCEPT !.kn = Line]
     \/ /\ cs # "none" /\ UNCHANGED <<cs, lirc>>
        /\ NetGoes("store", "check")
  /\ UNCHANGED <<received, exec, queue, mainVars, uiVars, faults>>

NetStoresKn ==
  /\ NetGoes("store", "store rn")
  /\ cs = "none" /\ cs' = "net"
  /\ lirc' = [lirc EXCEPT !.kn = Line]
  /\ UNCHANGED <<received, exec, queue, mainVars, uiVars, faults>>

NetStoresRn ==
  /\ NetGoes("store rn", "check")
  /\ lirc' = [lirc EXCEPT !.rn = Line]
  /\ cs' = "none"
  /\ UNCHANGED <<received, exec, queue, mainVars, uiVars, faults>>

\* if ( g_hWndConfig == NULL )
NetChecksDialog ==
  /\ NetGoes("check", IF config THEN "dialog" ELSE "lookup")
  /\ UNCHANGED <<received, lirc, cs, exec, queue, mainVars, uiVars, faults>>

NetLooksUp ==
  /\ ~raced
  /\ NetGoes("lookup", IF bind[received[Line]] = NoAction THEN "recv" ELSE "try")
  /\ UNCHANGED <<received, lirc, cs, exec, queue, mainVars, uiVars, faults>>

\* get_lactionbyremotekey takes no lock: when the main thread changed the
\* list during the walk, it finds anything, or follows a pointer to a deleted
\* object, which may end the process.
NetLookupRaces ==
  /\ raced
  /\ raced' = FALSE
  /\ \/ \E to \in {"recv", "try"} : NetGoes("lookup", to) /\ UNCHANGED crashed
     \/ NetGoes("lookup", "recv") /\ crashed' = TRUE
  /\ UNCHANGED <<received, lirc, cs, exec, queue, mainVars, thrown, uiVars>>

\* Faulty variant: the result of TryEnterCriticalSection is not looked at.
NetPostsAnyway ==
  /\ NetGoes("try", "post")
  /\ exec' = IF exec = Free THEN [owner |-> "net", count |-> 1] ELSE exec
  /\ UNCHANGED <<received, lirc, cs, queue, mainVars, uiVars, faults>>

\* Faulty variant: EnterCriticalSection.
NetWaitsForExecute ==
  /\ exec = Free
  /\ NetGoes("try", "post")
  /\ exec' = [owner |-> "net", count |-> 1]
  /\ UNCHANGED <<received, lirc, cs, queue, mainVars, uiVars, faults>>

\* A key is dropped when the main thread is in a command.
NetTriesExecute ==
  /\ \/ /\ exec = Free
        /\ NetGoes("try", "post")
        /\ exec' = [owner |-> "net", count |-> 1]
     \/ /\ exec # Free
        /\ NetGoes("try", "recv")
        /\ UNCHANGED exec
  /\ UNCHANGED <<received, lirc, cs, queue, mainVars, uiVars, faults>>

NetPostsToMain ==
  /\ NetGoes("post", "release")
  /\ queue' = queue \cup {[to |-> "main", line |-> Line]}
  /\ UNCHANGED <<received, lirc, cs, exec, mainVars, uiVars, faults>>

NetReleasesExecute ==
  /\ NetGoes("release", "recv")
  /\ exec' = Free
  /\ UNCHANGED <<received, lirc, cs, queue, mainVars, uiVars, faults>>

\* g_hWndConfig is read again: a message to no window is lost.
NetPostsToDialog ==
  /\ NetGoes("dialog", "recv")
  /\ queue' = queue \cup (IF config THEN {[to |-> "config", line |-> Line]} ELSE {})
  /\ UNCHANGED <<received, lirc, cs, exec, mainVars, uiVars, faults>>

NetStep ==
  \/ NetStoresKn \/ NetStoresRn \/ NetChecksDialog
  \/ NetLooksUp \/ NetLookupRaces \/ NetTriesExecute \/ NetPostsToMain \/ NetReleasesExecute
  \/ NetPostsToDialog
-----------------------------------------------------------------------------
(* The main thread takes a message: the hook handles those for the main    *)
(* window, OnRemoteKey those for the dialog.                               *)

MainGoes(from, to) == main = from /\ main' = to

GetMessage ==
  /\ \E m \in queue :
       /\ \A other \in queue : m.line <= other.line
       /\ MainGoes("idle", IF m.to = "main" THEN "hook" ELSE "remotekey")
       /\ job' = [job EXCEPT !.for = m.line]
       /\ queue' = queue \ {m}
  /\ UNCHANGED <<netVars, lirc, cs, exec, action, uiVars, faults>>

\* Faulty variant: the hook reads without global_cs.
HookReadsUnlocked ==
  /\ MainGoes("hook", "hook rn")
  /\ job' = [job EXCEPT !.kn = lirc.kn]
  /\ UNCHANGED <<netVars, lirc, cs, exec, queue, action, uiVars, faults>>

HookCopiesKn ==
  /\ MainGoes("hook", "hook rn")
  /\ cs = "none" /\ cs' = "main"
  /\ job' = [job EXCEPT !.kn = lirc.kn]
  /\ UNCHANGED <<netVars, lirc, exec, queue, action, uiVars, faults>>

HookCopiesRn ==
  /\ MainGoes("hook rn", "find")
  /\ job' = [job EXCEPT !.rn = lirc.rn]
  /\ cs' = "none"
  /\ UNCHANGED <<netVars, lirc, exec, queue, action, uiVars, faults>>

\* Faulty variant: what the pair of the posted line was assigned to.
HookFindsPosted ==
  /\ MainGoes("find", IF bind[received[job.for]] = NoAction THEN "idle" ELSE "try")
  /\ action' = bind[received[job.for]]
  /\ UNCHANGED <<netVars, lirc, cs, exec, queue, job, uiVars, faults>>

\* No action may be assigned any more, or lirc may hold a later line.
HookFinds ==
  /\ MainGoes("find", IF bind[PairOf(job)] = NoAction THEN "idle" ELSE "try")
  /\ action' = bind[PairOf(job)]
  /\ UNCHANGED <<netVars, lirc, cs, exec, queue, job, uiVars, faults>>

-----------------------------------------------------------------------------
(* wdevwinlirclauncher_commandexec. The main thread can enter again the    *)
(* global_execute_cs it did not leave.                                     *)

CommandTries ==
  /\ \/ /\ exec.owner # "net"
        /\ MainGoes("try", "command")
        /\ exec' = [owner |-> "main", count |-> exec.count + 1]
     \/ /\ exec.owner = "net"
        /\ MainGoes("try", "idle")
        /\ UNCHANGED exec
  /\ UNCHANGED <<netVars, lirc, cs, queue, job, action, uiVars, faults>>

\* Faulty variant: a finished command does not leave global_execute_cs.
CommandKeepsExecute ==
  /\ MainGoes("command", "idle")
  /\ UNCHANGED <<netVars, lirc, cs, exec, queue, job, action, uiVars, faults>>

\* The thread only waits in the pause after the command.
CommandReturns ==
  /\ MainGoes("command", "idle")
  /\ exec' = IF exec.count = 1 THEN Free ELSE [exec EXCEPT !.count = @ - 1]
  /\ UNCHANGED <<netVars, lirc, cs, queue, job, action, uiVars, faults>>

\* The exception is caught outside of the block that leaves global_execute_cs.
CommandThrows ==
  /\ thrown < MaxThrows
  /\ MainGoes("command", "idle")
  /\ thrown' = thrown + 1
  /\ UNCHANGED <<netVars, lirc, cs, exec, queue, job, action, raced, crashed, uiVars>>

-----------------------------------------------------------------------------
(* OnRemoteKey shows the pair in the dialog.                               *)

RemoteKeyShowsKn ==
  /\ MainGoes("remotekey", "remotekey rn")
  /\ cs = "none" /\ cs' = "main"
  /\ fields' = [fields EXCEPT !.kn = lirc.kn]
  /\ UNCHANGED <<netVars, lirc, exec, config, queue, job, action, bind, faults>>

RemoteKeyShowsRn ==
  /\ MainGoes("remotekey rn", "idle")
  /\ fields' = [fields EXCEPT !.rn = lirc.rn]
  /\ cs' = "none"
  /\ UNCHANGED <<netVars, lirc, exec, config, queue, job, action, bind, faults>>

MainStep ==
  \/ GetMessage
  \/ HookCopiesKn \/ HookCopiesRn \/ HookFinds
  \/ CommandTries \/ CommandReturns \/ CommandThrows
  \/ RemoteKeyShowsKn \/ RemoteKeyShowsRn
-----------------------------------------------------------------------------
(* The user, between two messages.                                         *)

OpenDialog ==
  /\ main = "idle" /\ ~config
  /\ config' = TRUE
  /\ fields' = NoLine
  /\ UNCHANGED <<netVars, lirc, cs, exec, queue, mainVars, bind, faults>>

\* Faulty variant: the whole queue goes with the dialog.
CloseFlushesQueue ==
  /\ main = "idle" /\ config
  /\ config' = FALSE
  /\ fields' = NoLine
  /\ queue' = {}
  /\ UNCHANGED <<netVars, lirc, cs, exec, mainVars, bind, faults>>

\* The messages of a destroyed window go with it.
CloseDialog ==
  /\ main = "idle" /\ config
  /\ config' = FALSE
  /\ fields' = NoLine
  /\ queue' = {m \in queue : m.to = "main"}
  /\ UNCHANGED <<netVars, lirc, cs, exec, mainVars, bind, faults>>

Edit(newBind) ==
  /\ main = "idle" /\ config
  /\ bind' = newBind
  /\ raced' = (net = "lookup")
  /\ UNCHANGED <<netVars, lirc, cs, exec, config, queue, mainVars, fields, thrown, crashed>>

OnBnClickedBAdd ==
  /\ fields.kn # 0 /\ fields.rn # 0
  /\ \E a \in Actions : Edit([bind EXCEPT ![PairOf(fields)] = a])

OnBnClickedBRemove ==
  \E p \in Pairs : bind[p] # NoAction /\ Edit([bind EXCEPT ![p] = NoAction])

OnBnClickedBReset ==
  /\ \E p \in Pairs : bind[p] # NoAction
  /\ Edit([p \in Pairs |-> NoAction])

UserStep ==
  OpenDialog \/ CloseDialog \/ OnBnClickedBAdd \/ OnBnClickedBRemove \/ OnBnClickedBReset

-----------------------------------------------------------------------------
\* The process is gone.
Crashed == crashed /\ UNCHANGED vars

Next == \/ ~crashed /\ (ReceiveLine \/ NetStep \/ MainStep \/ UserStep)
        \/ Crashed

\* Both threads run, and a waiting thread gets the section when it is free.
\* The daemon and the user do what they like.
Fairness == WF_vars(~crashed /\ NetStep) /\ WF_vars(~crashed /\ MainStep)

Spec == Init /\ [][Next]_vars

FairSpec == Spec /\ Fairness
-----------------------------------------------------------------------------
(* Properties.                                                             *)

Infos == [kn : 0 .. MaxLines, rn : 0 .. MaxLines]

Messages == [to : {"main", "config"}, line : 1 .. MaxLines]

TypeOK ==
  /\ received \in Seq(Pairs) /\ Line <= MaxLines
  /\ net \in {"recv", "store", "store rn", "check", "lookup", "try", "post",
              "release", "dialog"}
  /\ lirc \in Infos
  /\ cs \in {"none", "net", "main"}
  /\ exec \in [owner : {"none", "net", "main"}, count : 0 .. MaxThrows + 1]
  /\ config \in BOOLEAN
  /\ queue \subseteq Messages
  /\ main \in {"idle", "hook", "hook rn", "find", "try", "command", "remotekey",
               "remotekey rn"}
  /\ job \in [for : 0 .. MaxLines, kn : 0 .. MaxLines, rn : 0 .. MaxLines]
  /\ action \in Actions \cup {NoAction}
  /\ fields \in Infos
  /\ bind \in [Pairs -> Actions \cup {NoAction}]
  /\ raced \in BOOLEAN
  /\ thrown \in 0 .. MaxThrows
  /\ crashed \in BOOLEAN

\* The button and the remote control that the hook looks up, and those the
\* dialog would assign, were received in one line: the two stores and the two
\* reads of lirc are not interleaved.
NoTornPair ==
  /\ main \in {"find", "try", "command"} => job.kn = job.rn
  /\ main = "idle" => fields.kn = fields.rn

\* A message is handled with the line it was posted for, or with a later one
\* (the pointer it carries is to the one global lirc_info): never with an
\* earlier one, and never with none.
NeverStale ==
  /\ main \in {"find", "try", "command"} => job.for <= job.kn
  /\ main = "remotekey rn" => job.for <= fields.kn

\* A command is the one its button is assigned to when it runs, though the
\* assignments may have changed since the network thread looked it up.
RunsAssigned ==
  main \in {"try", "command"} => action \in Actions /\ action = bind[PairOf(job)]

\* global_execute_cs is held by the network thread only while it posts, and
\* by the main thread only in a command or once a command has thrown: then it
\* is never free again.
ExecuteOwned ==
  /\ exec.owner = "net" <=> net \in {"post", "release"}
  /\ exec.owner = "main" <=> main = "command" \/ thrown > 0

KeysWaiting == {m \in queue : m.to = "main"}

\* The keys pressed while a command runs are dropped, not queued behind it; those
\* that were queued before it began stay.
NoKeyBehindCommand == [][main = "command" => KeysWaiting' \subseteq KeysWaiting]_vars

\* Neither thread waits for ever: each comes back to where it waits for input.
ThreadsReturn ==
  /\ net # "recv" ~> (net = "recv" \/ crashed)
  /\ main # "idle" ~> (main = "idle" \/ crashed)

\* A key posted to the main window is read there, or a later one is instead,
\* whatever happens to the dialog meanwhile.
KeyHandled ==
  \A i \in 1 .. MaxLines :
    [to |-> "main", line |-> i] \in queue ~> (job.kn >= i \/ crashed)
=============================================================================
