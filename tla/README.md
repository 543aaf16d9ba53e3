# Verification of foo_lirc

foo_lirc is a plug-in of the foobar2000 player that lets the user operate it
with a remote control. It connects to a LIRC daemon over TCP, receives a line
for every key press (key code, repeat count, button `kn`, remote control `rn`),
and runs the player command the user has assigned to the pair (kn, rn). This
directory holds TLA+ models of the plug-in's own code
(`src/foobar2000/foo_lirc/`), the TLC runs that check them on small instances,
and TLAPS proofs for every value of the constants.

Contents:
[Parts](#1-the-parts-of-the-system) ·
[What is hard](#2-what-is-hard) ·
[Modules](#3-the-modules-and-the-code) ·
[Runs](#4-the-runs) ·
[Fairness](#5-fairness) ·
[Proofs](#6-the-proofs) ·
[Disagreements](#7-where-code-and-text-disagree) ·
[Limits](#8-what-is-not-modelled) ·
[What is left](#9-what-is-left)

To repeat the checks: `tlc -config RemoteKey.cfg MCRemoteKey` (each run is
listed with its module and cfg in `PROJECT.json`), and
`tlapm RemoteKeyProofs.tla`.

## 1. The parts of the system

Two threads matter: the player's main thread (start and end of the plug-in,
dialog, message hook, commands) and the network thread
(`wdevlircthread_callback`). They share globals without an owner, two critical
sections (`global_cs`, `global_execute_cs`) and the main thread's message queue.

| Part | State | Operations | Correct when |
|---|---|---|---|
| Assignments, `cfg_actions` (wdevfoo_lirc.cpp 180-402) | `lactions`, a `pfc::ptr_list_t` of `lirc_action*`; its bytes in the configuration file | assign, remove by action, clear, three lookups, `set_data_raw`/`get_data_raw` | it is a map from pairs to actions; listed objects are alive and complete |
| Connection loop (wdevfoo_lirc.cpp 40-178) | socket `s`, `global_state`; reads `global_enabled/addr/port/event` | connect, select, `readn`, leave through `out:`, start again | every socket is closed; Connected is shown while there is one; it reconnects, follows the settings, disconnects and stops |
| Key path (wdevfoo_lirc.cpp 138-159, wdevinitquit.cpp 38-65, wdevinitconfig.cpp 134-158 and 663-683) | `lirc` (one global `lirc_info`), `global_cs`, `global_execute_cs`, the queue, the fields of the dialog | store, look up, post, take a message, read, look up, run | the pair is from one line, the command is the assigned one, no key is posted while a command runs |
| Lines and names (wdevnetlib.cpp `readn`, wdevfoo_lirc.cpp 109-138) | the buffer and what has arrived | `recv` until there is no more, `sscanf_s` on what was got | `readn` stays in its buffer; a key that is read is one that was sent |
| Configuration dialog (wdevinitconfig.cpp 99-514) | four global window handles, list view, list box, fields, status line | open, close, choose, select, Assign, Remove, Clear All, timer | what it shows is what there is; the globals name open windows |
| Settings (wdevinitconfig.cpp 116-208, 385-398; wdevfoo_lirc.cpp 23-36) | `global_enabled/port/addr`, `g_config_enabled/port/addr`, the fields | check box, address, port, Apply, start, save | what runs is what a regular end and the next start bring back |
| Configuration file (SDK/cfg_var.cpp, `get_data_raw`, `set_data_raw`) | blocks of GUID, size, data | `config_write_file`, `config_read_file` | what was stored is read back; a damaged file makes nothing up |
| Start and end (wdevinitquit.cpp) | thread handle, hook, `global_event`, both sections, the sockets | `on_init`, `on_quit` | the hook is there before the thread runs; nothing uses what `on_quit` destroys, and it ends |
| Command executor (wdevinitconfig.cpp 535-683) | the player; `global_execute_cs` | `DoCommand` for a row of `act_table` | the section is left; volume and position stay in range |
| Main menu command (wdevmain.cpp, `g_execute`) | none | opens the dialog | - |
| SDK and client library (except the configuration file), pfc, wtl, ATLHelpers, helpers, shared | - | third-party code | used, not modelled |

How they interact:

    daemon --TCP--> network thread --lirc (global_cs), PostMessage--> main thread
                        |  reads g_hWndConfig, g_config_actions            |
                        |  tries global_execute_cs                         |
                        +<-- global_enabled, port, addr, event ------ dialog, on_quit
                                                                           |
    configuration file <--set_data_raw / get_data_raw-- cfg_actions <------+

A message carries a pointer to the one global `lirc`, not the pair: what the
main thread reads may be a later line than the one the message was posted for.

## 2. What is hard

`PROJECT.json` lists each hazard with its line. In groups:

* **Interleaving.** `lirc` is written as two strings and read as two strings.
  The network thread walks the list of assignments with no lock while the dialog
  may change it. `g_hWndConfig` is read twice, and the dialog opens or closes in
  between. Address and port are read at different times.
* **Locks.** `global_execute_cs` is taken with `TryEnter` by both threads. A
  command that throws does not leave it, and the main thread can enter it again
  although the network thread cannot.
* **Partial failure.** `set_data_raw` empties the list and then reads, and a
  read may throw. `readn` may fail with lines already in its buffer. Each way out
  of the inner loop must close the socket.
* **Liveness.** The thread must stop, disconnect and reconnect from any point
  of its two nested loops, whatever the daemon and the user do meanwhile.
* **Ownership.** `ptr_list_t` deletes the objects it takes out; so does its user.
* **Time.** `connect` may block for longer than `on_quit` waits; then it deletes
  the critical sections and stops the sockets under a running thread.
* **Boundaries of data.** TCP cuts lines anywhere, and the thread takes the front
  of what it got for a line. The count of the stored list is written with the
  width of a `size_t` and read with that of an `int`. A port has 16 bits.
* **Sequences of legal steps.** A second dialog over the first; an address typed,
  left, and applied from another dialog; a start that fails halfway and then ends.

## 3. The modules and the code

Each definition is mapped to its lines in `PROJECT.json` ("map").

### KeyMap, ActionMap (MCActionMap)

`KeyMap` is the promise of the assignments: a partial map from pairs to actions
(`bind`) and its saved copy (`saved`), with Assign, Remove, Forget, Save and
Restore. Restore brings back a part of what was saved.

`ActionMap` is the list of objects. `lactions` is a sequence of heap blocks,
`heap` what each block holds (an entry, a blank object, or nothing), `file` the
stored entries. The actions have the names of the methods:
`assignaction_to_remotekey` overwrites the first hit or appends a new object,
`delete_lactionbyindex` takes the first entry with the action, `delete_all`,
`get_data_raw`, `set_data_raw`, and `set_data_raw_throws` for a read that ends
at the count or inside an entry. `Exit` ends the process at any point between
two operations, with or without a save. A double delete is
recorded in `doubleDelete`; the heap manager then either goes on or ends the
process. The refinement `Map` sees the list through its lookups: the first match
of a pair.

### RemoteKey (MCRemoteKey)

The key path between the two threads. `received` numbers the lines. `lirc`, the
hook's copies (`job`) and the two edit boxes (`fields`) hold, for each of the two
names, the number of the line it came from: torn pairs and stale reads are then
statements about numbers. `net` and `main` are the program counters. One step
is what a thread does between two accesses to what the other uses; storing `kn`
and storing `rn` are two steps, with `global_cs` held between them, and so are
the two reads on each of the two reading sides. `exec` is `global_execute_cs`
with its owner and recursion count. `queue` is a set of [window, line] messages,
taken in the order of their lines: a line is posted at most once, and in order.

The race on the list is kept as undefined behaviour: an edit while the network
thread is in its lookup sets `raced`, and the lookup may then find a match, find
none, or end the process (`crashed`).

Where the dialog is open the key goes to its window (`OnRemoteKey`), otherwise
to the hook. The main thread handles messages and the user's buttons one at a
time; `OpenDialog`, `CloseDialog`, `OnBnClickedBAdd`, `OnBnClickedBRemove` and
`OnBnClickedBReset` are its other steps. `OnBnClickedBRemove` may take any
assigned pair: that the code takes the first entry with the action is in
`ActionMap`.

### LircThread (MCLircThread)

The two nested loops of `wdevlircthread_callback`. `pc` names the places:
`top`, `address`, `port`, `connect`, `connected`, then the inner loop `check`,
`select`, `readn`, `full`, `while`, and `out`, `pause`, `exited`. `s` may be
`"garbage"`: `goto out` jumps over its initialisation. `readn` is its loop over
`recv`: `c` counts what it got, and it returns 0 when the peer has closed
(even with data in the buffer), -1 when the connection was reset, and otherwise
what arrived. A full buffer switches the component off. Data is counted in lines.

The environment is whoever listens on one of `Hosts` (sends, closes, stops,
starts), the network (resets), socket calls that fail, the user (port, address,
Apply) and `on_quit`. `connect` succeeds at any host of `listening`: the one the
settings name, the one older settings named, or one that is named between two
changes. `dest` is the peer then, and the thread stays with it whatever the
settings become.

### ConfigDialog (MCConfigDialog)

The dialog as a user sees it. `list` is the sequence of assignments, `g` the
dialog whose windows the globals `g_hWndConfig`, `g_hWndListView`,
`g_hWndActionListBox` and `g_hWndStatus` name, `open` the dialogs on the screen.
Each dialog has its `rows`, selected row (`sel`), selected action (`choice`),
`fields` and `status`. The dialog is modal to the main window only, and its menu
command can be run by a shortcut, so that a second one may open over the first.
A step is a handler, with the `update_bindings` at its end, which fills the list
view of the dialog that `g` names, not of the one whose button was pressed.

### Settings (MCSettings)

Three settings on three ways: the check box waits for Apply, a port is used while
it is typed, an address is stored while it is typed and used with Apply.
`config` are the three configuration variables, `file` what is stored of them,
`check`, `shown` and `apply` what the dialog shows. `on_init` copies the variables
to the globals; `Exit` stores them, `ProcessGone` does not; `Disables` is the
overflow, which changes the global only. `htons` cuts a port to 16 bits.

### Shutdown (MCShutdown)

`on_init` call by call (WSAStartup, the two sections, CreateThread with
CREATE_SUSPENDED, SetWindowsHookEx, ResumeThread), each of which that can fail may,
and `on_quit` step by step: event, hook, wait, the two sections, the sockets; against the network thread reduced to
where it waits and what it uses. Time is counted in ticks of half a second, the
unit of all its sleeps and timeouts. Steps take no time; `left` and `patience`
are what remains of a wait; `Tick` passes when neither thread has a step to make
(all that is due in one tick happens in any order). `connect`, for which the code
sets no timeout, may succeed or fail at any tick, however late; `took` counts the
ticks of the last one, up to `Wait`.

### CfgStore (MCCfgStore)

The file of the plug-in's variables (`cells`), cell by cell: `config_write_file`
puts the assignments and then an integer (`g_config_port`, which stands for the
three; `Written` is what get_data_raw has put after each entry); `Starts` begins
a `config_read_file`, whose steps are its loop: a GUID and a size, a variable
that is known or skipped, `set_data_raw` of the list (count, entries, the read
that throws), that of the integer, and the skip to the end of the block. `Tears`
leaves a front of the file. `size_t` is the width of the count that is written.
The names (`StoreInit`, `StoreNext`, `StoreSpec`, ...) differ from those of Settings
so that ConfigurationProofs can extend both.

### LineStream (MCLineStream)

`stream` is what the daemon sent, character by character; `arrived`, `pos` and
`start` are how much of it has arrived, was received by `readn`, and was done
with before. `Parses` applies `sscanf` to what readn got: a translation of
`"%I64x %x %s %[^\n]"` with its skipping and its early end. `cuts` tells whether
the network may end a piece inside a line.

### Plugin (MCPlugin)

LircThread (as `Loop`) and RemoteKey (as `Path`) composed, with the lines
themselves in `inbox` and `buf` where LircThread only counts them. The network
thread is one: it makes steps of the loop while it has no line to pass on
(`Looping`), `ReadnReturns` hands the first line of the buffer to the key path,
and `PassesOn` is the key path until the line is dealt with. The main thread is
one too: the settings are changed between two messages with the dialog open, and
once `on_quit` has begun nothing else is handled. Only `Receives`, `ReadnReturns`
and `DaemonSends` are written anew; every other step is one of the two modules.

### The proof modules

`ActionMapProofs`, `RemoteKeyProofs`, `LircThreadProofs`, `ConfigDialogProofs`,
`ShutdownProofs`, `PluginProofs` and `LineStreamProofs` extend the module they are
about, `ConfigurationProofs` both Settings and CfgStore; see section 6.

## 4. The runs

| Run | Checks | Bounds, and why they are enough |
|---|---|---|
| action_map | `TypeOK`, `Ownership`, `BindingsUnique`, `ImplementsKeyMap` | 2 keys x 2 remote controls (a lookup can differ in one name only), 2 actions (an action on two pairs), 3 blocks: the list holds up to 3 entries, so an entry can be removed from the start, the middle and the end, and a read can stop between any two; the heap can be full. Blocks are symmetric |
| remote_key | `NoTornPair`, `NeverStale`, `RunsAssigned`, `ExecuteOwned`, `NoKeyBehindCommand`, `ThreadsReturn`, `KeyHandled` | `MaxLines` 3: a line being stored, one being read and one in the queue at once; `MaxThrows` 1: a section that stays taken, entered again by a second command; 2 keys and 2 actions: an assignment that changes under a key. Torn pairs are told by line numbers, so that one remote control is enough. No symmetry, because of the liveness properties |
| lirc_thread | `TypeOK`, `SocketClosed`, `ConnectedHasSocket`, `DisableCloses`, `ThreadStops`, `CloseNoticed`, `Reconnects`, `FollowsSettings` | 2 addresses, 2 ports, and a daemon on one port of each address: settings that name the one, the other or neither, and a change from neither to the one that goes through the other. `BUF_SIZ` 2 and `MaxSends` 3: no data, some, exactly full, and more than full. `MaxFaults` 2: a second loss or failed call after a first one. `MaxEdits` 3: an address, a port and Apply, in any order |
| config_dialog | `GlobalsNameOpen`, `RowsMatchList`, `RemovesFirstRow`, `ChoiceSelects` | 2 dialogs: one over the other, either closed first; 2 pairs and 2 actions: two rows with one action, or with two. One state: only the drawing of it is modelled, and no property is about it. Dialogs and pairs are symmetric |
| settings | `ConfigHolds`, `GreyIsApplied` | 2 addresses, 2 ports of which one has more than 16 bits and is the other modulo 65536 |
| shutdown | `ThreadGoneFirst`, `SectionsReadyUnlessSlow`, `RunsHooked`, `QuitEnds` | the real ten seconds (20 ticks); `took` need not be counted further than the wait, as nothing is said of a longer connect |
| cfg_store | `StoreTypeOK`, `ReadBack32`, `TornIsPrefix`, `NextBlockFound` | lists of 0 to 2 of 3 entries with names of 1 and 2 letters (entries of unequal length), ports of 1 and 2 bytes, with and without a foreign block, both widths of `size_t`; a file is cut at every cell |
| line_stream | `ExactUnlessCut`, `FrontsOfLines`, `KeyPerRead` | 3 lines of 10 to 12 characters; a button that is a hexadecimal number and one that is not; a remote control with a space in its name, which is the other's name and more. `BUF_SIZ` 24: two lines fill it exactly, or nearly |
| plugin | `LateLine`, `ImplementsPath`, `ImplementsLoop`, `QuitEnds` | 1 pair, 1 action, 1 address; 2 lines and `BUF_SIZ` 2: an overflow, or a line received while one is passed on; 1 throw, 1 fault, 2 edits. What a larger choice of data shows is in the runs of the two modules |
| action_map_delete, lirc_thread_reset, shutdown_slow | one statement each that the code contradicts (section 7) | those of action_map and shutdown; for lirc_thread the smallest at which the case happens |

Every bound is a guard of an environment action (`ReceiveLine`, `CommandThrows`,
`DaemonSends`, the faults, the edits); none limits the threads' own steps. In
ActionMap the heap is the bound: `assignaction_to_remotekey` needs a free block.
ConfigDialog, Settings, Shutdown and CfgStore are finite without a bound.

What they show:

* *ImplementsKeyMap*: an assignment changes one pair, a removal takes one pair
  away, and a restart brings back only saved assignments, whichever reads fail.
  *BindingsUnique* is what this rests on: were a pair listed twice, removing it
  would uncover an older action. *Ownership*: no listed object is dead,
  half-read or listed twice, and no assigned object is leaked.
* *NoTornPair*: the dialog and the hook never pair a button with the remote
  control of another line. *NeverStale*: a handler reads its own line or a later
  one. *RunsAssigned*: although the network thread's answer is out of date when
  the hook runs, the command is the one assigned then. *ExecuteOwned* states
  exactly who can own the execution lock, with commands that threw;
  *NoKeyBehindCommand* is what the lock is for: no key
  is posted while a command runs (those that were in the queue before it do wait). *ThreadsReturn*: no deadlock
  follows from the section a throwing command keeps. *KeyHandled*: a key for the
  main window is read there, or a later one is, whatever happens to the dialog.
* *SocketClosed* and *ConnectedHasSocket*: however a turn of the loop ends, its
  socket is closed, and "Connected" is never shown for a turn that has opened none.
  That the connection of the socket still stands is more: *CloseNoticed* says so of
  one that the daemon closed, and of one that was reset it is false (section 7).
  *DisableCloses*, *ThreadStops*: from any point of the loops. *Reconnects*: the
  thread ends up connected when a host that the settings name keeps listening, but
  perhaps still to the host that older or half-changed settings named.
  *FollowsSettings*: once that connection is left, the next one is to the host that
  the settings name. Both exclude a connection that was reset.
* *GlobalsNameOpen*: nobody writes or posts to a closed window through the
  globals. *RowsMatchList*: the list view they name shows the assignments,
  whichever of two dialogs changed them. *RemovesFirstRow* and *ChoiceSelects*:
  what remains of "Remove takes the selected row" (section 7): it does when the
  row is the first of its action, and choosing an action selects such a row.
* *ConfigHolds*: no port is in use that a regular end would not store, and no
  component is on that the next start would leave off; a lost process brings back
  what was stored before. *GreyIsApplied*: a grey Apply means that
  nothing waits for it.
* *ThreadGoneFirst*: `on_quit` at any tick of any wait of the thread finds it over in
  time, unless a connect has taken all but two seconds of the ten (`SlowConnect`; with
  half a second less it is violated). *SectionsReadyUnlessSlow*: nothing else, at the
  start or at the end, lets the thread enter a section that is not there; that a slow
  connect does is the run shutdown_slow. *RunsHooked*: through the calls of the start,
  and after one of them failed, no thread runs that posts to nobody. *QuitEnds*: nor does it keep the player from
  ending.
* *ReadBack32*, *TornIsPrefix*: what comes out of a file was put in, also when the
  file ends anywhere. *NextBlockFound*: a block that is misread does not spoil the
  next.
* *ExactUnlessCut*: a whole line gives its names, whatever stood before it and
  after it in the stream. *FrontsOfLines*: a line that was cut gives a front of
  itself, never a mixture of two, unless a name could be taken for a number
  (section 8). *KeyPerRead*: lines that arrive as wholes
  are lost only behind another one of the same read.
* *ImplementsPath*, *ImplementsLoop*: what holds of the two modules holds of the
  plug-in: the composition takes no step they do not have. *LateLine*: after the
  component was switched off, or the end has begun, at most one more line is
  passed on. *QuitEnds*: the thread stops, now with the locks of the key path,
  which neither module has together with the loop.

The types of RemoteKey, ConfigDialog, Settings, Shutdown and LineStream are proved
(section 6) and left out of their runs; those of Plugin follow from its two refinements.

Each property of a passing run has a mutant in `PROJECT.json`: a definition of
the module marked `Faulty variant`, with a mistake that could be made in that
code, under which TLC finds the property violated.

Deadlock is checked in every run but shutdown and shutdown_slow; `Exited`, `Crashed` and `Over` are
the self-loops of the places where the system does stop. In Shutdown the end of
the player is a state without a step.

## 5. Fairness

* `RemoteKey!Fairness`: weak fairness of each thread's steps once there is
  something to do. Windows schedules both threads; a thread waiting for
  `global_cs` gets it once it is free (weak fairness suffices, as the other
  thread leaves the section in one step and cannot come back without the first
  one's handing on: the number of lines is finite). Receiving a line and the
  user's actions are not fair.
* `LircThread!FairSpec`: weak fairness of the network thread's step. Its sleeps
  end, `select` has a timeout, and `connect` and `recv` return. `SelectFails`, the
  daemons, the network and the user are not fair: *Reconnects* and *FollowsSettings*
  assume that the settings and the host they name stay as they are from some time on.
* `Shutdown!FairSpec`: weak fairness of the steps of `on_quit` once it has begun, of
  the thread's steps (a connect returns in the end, after any time), and of the
  clock. When the player ends is the user's choice, so the steps of `on_init` and
  `on_quit` itself are not fair; nothing is promised before.
* `Plugin!FairSpec`: weak fairness of the network thread and of the main thread's
  handling of a message, as in the two modules it is made of.

## 6. The proofs

All proofs hold for every value of the constants under the named assumptions:
in ActionMap `NumActions` is a positive natural and `Free` is no object; in
RemoteKey `NoAction` is no action and the bounds are naturals; in LircThread the
hosts are at possible addresses and ports, `BUF_SIZ` is positive, and the bounds are
naturals; in ConfigDialog `None` is no dialog and no pair; in Settings ports are
naturals and the defaults are possible values; in Shutdown the wait is a
natural; in Plugin `MaxLines` is a natural and `BUF_SIZ` a positive one; in
LineStream so are they, and names are not empty, buttons have no space, and names
of remote controls have no end of line and do not begin with a space; in CfgStore
`size_t` has 4 or 8 bytes, the integers are those of an `unsigned int`, lists have no
more entries than an `int` can count, names are any bytes but 0, actions those of an
`int` from 0 on (they are rows of the table of actions), and with a list its
fronts are lists (a read that ends early leaves one).

* **ActionMapProofs**: `TypeCorrect`, `ListOwnsObjects`, `PairsAssignedOnce`. The
  inductive invariant is the conjunction of the three properties: the types
  alone are not inductive, as a save writes listed objects (complete only because
  of `Ownership`) and a restart gives blocks to what was saved (`BindingsUnique`
  of the file).
  And `ListImplementsMap`, that is `Spec => Map!Spec`.
  `ActionOfEntry` says that the action of a pair depends on which entries are
  listed, not on their order; with it each method maps to one step of `KeyMap`,
  a truncated read to Restore of the pairs that were read, an end of the process
  to Forget.
* **RemoteKeyProofs**: `TypeCorrect`, `PairNotTorn`, `LineNotStale`,
  `AssignedCommandRuns`, `ExecuteOwnership`, `NoKeyQueuedBehindCommand`. The
  properties speak of what was read; the invariant adds what makes the reads
  right: who is in `global_cs` (`Sections`), that `lirc` holds one line while
  nobody is (`Stored`), that no message is newer than `lirc` (`Posted`), what the
  handlers have read so far (`Handled`, `Shown`), and that the recursion count of
  `global_execute_cs` is the number of commands that threw (`Executes`).
* **LircThreadProofs**: `TypeCorrect`, `SocketsAreClosed`, `ConnectedIsOpen`. The
  invariant adds that the inner loop always has an open socket (`HasSocket`), and
  that what waits to be read was sent (`ReadLess`).
* **ConfigDialogProofs**: `TypeCorrect`, `GlobalsAreOpen`, `RowsAreAssignments`,
  for any number of dialogs; the invariant is their conjunction, since the
  selected row is a row of the list view only because the rows are filled again
  from the list. From it the two action properties `RemoveTakesFirstRow` and
  `ChoiceSelectsRow`; `ActionsOfRemoved` is what they rest on: taking an
  assignment out of the list and its row out of the view come to the same.
* **ConfigurationProofs**, Settings: `SettingsTypes`, `ConfigurationHolds`,
  `NothingWaitsForGrey`. The invariant adds that a dialog is open only in a running
  process.
* **ConfigurationProofs**, CfgStore: `StoredTypes`, `ListComesBack`,
  `FrontComesBack`, `PortComesBack`, for lists of any length with names of any
  length. None of these is inductive: they speak of the end of a read, and the
  invariant `StoreInv` of every cell on the way. It has three parts. `Encodes`: in
  the data of a list each entry starts where the one before ends (`off`), with its
  bytes in order. `Stored` (with `IsFile`): what is on the disk is a front of a file
  of such data and the integer, behind a block of another version or not, and the
  whole file unless it was torn. `Reading`: at each place of `config_read_file`,
  where the reader is and what it has read: behind the first k entries, with the
  first k in the list. Lemmas go from bytes to files: the bytes of a number make up the
  number (`LendianWord`, `NumberIs`); `Written` grows by one entry at a time, so that
  its last value encodes the list (`WrittenGrows`, `DataLayout`); the first two
  zeros from an entry's names on are the ends of its two strings, so that the
  entry that is read is the one that was stored, or none if the file ends inside
  it (`EntryAtIs`). With 8 bytes nothing is said of the entries, and
  `PortComesBack` rests on the end of the block alone.
* **ShutdownProofs**: `TypeCorrect`, `HookedFirst`, `ThreadEndsFirst` and
  `SectionsAreReady`, for any wait and with nothing assumed of connect. For the start
  the invariant (`Phases`) says what the calls made so far have left: no thread before
  CreateThread, a suspended one until ResumeThread, which is reached with a hook
  only. For the end (`InTime`) it accounts for the time: while `on_quit` waits, what
  has gone of the wait is at most what the last connect took and what the thread has
  `Spent` of the four ticks behind it, the sleep after connecting (2), the wait of
  select and the pause. The theorems follow at the moment the wait is over.
* **PluginProofs**: `PathImplemented` and `LoopImplemented`, the two refinements,
  so that every theorem about RemoteKey and LircThread holds of the composition.
  Most steps are steps of the one module and stutters of the other. What has to be
  shown is that a line the daemon sent is in one place only (`Lines`: received,
  in `inbox`, or in the buffer while it is being read), by which the lines of the
  key path are bounded, and that `Receives` moves as many lines as LircThread
  counts (`Moved`). `OneLateLine` rests on where the thread can be after a late
  line (`OnItsWay`).

* **LineStreamProofs**: `TypeCorrect`, `WholeLinesExact`, `NeverMixed`,
  `FirstUnreadKey`, for names of any length. The invariant (`StreamInv`): the stream
  is the lines that were sent, one after the other, each with one end of line, at
  its end (`Layout`); a read starts where the one before it ended; its names are what
  `sscanf_s` makes of the characters between; and where the network does not cut,
  reads begin and end with lines. `After` and `Until`, the two loops of `sscanf_s`, stop at
  the first character of their kind (`AfterIs`, `UntilIs`). From this follows what is read of a buffer that
  begins with a line and has all of it (`WholeLine`), and of any piece of the
  stream (`CutLine`, `FrontOfOne`).

Where an argument goes by induction (over the entries of a list, the lines of the
stream, the characters of a name), it takes the least element of the set of
exceptions (`Upwards` in ConfigurationProofs and similar steps elsewhere): the
induction theorems of the library take an operator as a parameter, which the
installed provers cannot instantiate. The one recursive function, `Written`, is
used through what one step of it adds (`WrittenIs`).

Every invariant and action property that the runs check is proved. Only
model-checked are the liveness properties (`ThreadsReturn`, `KeyHandled`,
`DisableCloses`, `ThreadStops`, `CloseNoticed`, `Reconnects`, `FollowsSettings`, and `QuitEnds` of Shutdown and of
Plugin), which are out of reach of the prover.

## 7. Where code and text disagree

Three runs of kind "violation" show what the code does against what it says:

1. `delete_lactionbyindex` and `delete_all` delete each object, and then the
   list deletes it again (`action_map_delete`).
2. When `readn` returns -1 no branch of the thread applies: it loops over the
   dead socket for ever and "Connected" stays on display (`lirc_thread_reset`).
3. `on_quit` deletes the critical sections after ten seconds without looking whether
   its wait succeeded (wdevinitquit.cpp:93), and `connect` has no timeout
   (wdevnetlib.cpp:138): a thread whose connect succeeds after nine seconds of the
   wait, where a peer that does not answer takes 21, enters a deleted section
   (`shutdown_slow`).

The following were met as well. Each is a definition of its module, listed in no
run; put into the module's cfg as an invariant or property it is violated:

4. `ThrowingReadKeepsList` (ActionMap): `set_data_raw` has the comment "alter member
   data only on success" (wdevfoo_lirc.cpp:206), but it empties the list first.
5. `AssignedPairKept` (ActionMap): assigning a taken pair replaces its action; the
   message of wdevinitconfig.cpp:415, that it is taken, can never be shown.
6. `ShownPeer` (LircThread): the status line prints the settings as the peer
   (wdevinitconfig.cpp:235), also after they were changed under a connection that
   goes on with the old peer.
7. `ShownPort` (Settings): a port above 65535 is accepted, shown and stored; `htons`
   connects to another.
8. `AppliesShown` (Settings): an address that was typed into a dialog and left
   there without Apply is what Apply of the next dialog puts into use, while that
   dialog shows the old one.
9. `NullMeansNoDialog` (ConfigDialog): the network thread takes `g_hWndConfig == NULL`
   for "no dialog" (wdevfoo_lirc.cpp:149), but closing one of two dialogs resets it
   for both.
10. `RemovesSelected` (ConfigDialog): Remove takes the first assignment with the
    action of the selected row.
11. `ReadBack` (CfgStore): in a 64-bit build (foo_lirc.vcxproj has the configurations,
    foo_lirc.sln lists Win32 only) the count of the stored list takes eight bytes
    (wdevfoo_lirc.cpp:187) and four are read (205-206): every entry is read four bytes
    early, and what that gives is in the list before an exception comes, if one does,
    where the comment says "this will throw an exception when something isn't right".
    `ReadBack32` is what holds of a 32-bit build, `NextBlockFound` of both.

## 8. What is not modelled

* The heap after a second delete that went unnoticed, and what a racing lookup
  reads: undefined behaviour, kept as a choice of outcomes.
* In ActionMap the stored list is its entries, as in a 32-bit build; its bytes are
  in CfgStore. The key code and repeat count are stored, never decided on.
* In Settings there is one dialog, and `IPN_FIELDCHANGED` is sent by the user's typing
  only (not by the setting of the field in OnInitDialog). In ConfigDialog two dialogs
  close in any order. That the status line goes on following the state is not
  checked: `OnTimer` is in the model, but without symmetry the instance with two
  dialogs is too large for a liveness run.
* LineStream has three hexadecimal digits. A line that was cut may give the name of
  another remote control when that name is a front of it; *FrontsOfLines* allows
  this. It may give a remote control from the next line when a word of a name begins
  with such a digit. And when the name of a remote control ends in one and is cut
  before it, the next read takes that digit for its key code and the code of the
  next line for its count, so that the button is that line's count. *FrontsOfLines*
  excludes both (`IsPlainLine`).
* Time outside of Shutdown: sleeps and timeouts are steps that may take any time.
* Message loops the player runs inside a command (also the one under
  `action_appclose`, which may call `on_quit` before the command returns), and
  messages that are peeked at without being removed: neither is in this repository.
* What each command does: calls of the player. The limits of volume and position
  are one comparison each, in floating point. Names, descriptions and layout.
* `create_tcp_server`, `sendn` and `assignaction_to_remotekey` by name, which
  have no caller.
* Nearly all of the repository's 103,000 lines of implementation are vendored
  libraries (wtl, pfc, the SDK, helpers). The plug-in itself is some 1,700 lines, most
  of which the modules cover, with the parts of the SDK its configuration goes
  through.

## 9. What is left

Each part of the plug-in that keeps state has a module, and the two threads are
composed. What would add something:

1. RemoteKey with the sequence of assignments of ActionMap in the place of its map
   `bind`, so that which entry Remove takes interleaves with a lookup.
2. Settings in ConfigDialog: two dialogs with their own Apply buttons over one set of
   configuration variables.
