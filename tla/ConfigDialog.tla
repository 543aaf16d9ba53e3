----------------------------- MODULE ConfigDialog -----------------------------
(***************************************************************************)
(* The configuration dialog (wdevinitconfig.cpp): the list view of the     *)
(* assigned buttons, the list box of the actions, the fields of the key    *)
(* that was pressed last, the status line, and the four global window      *)
(* handles, which are set and reset together.                              *)
(*                                                                         *)
(* The dialog is modal to the player's main window only, and its command   *)
(* can be run by a shortcut: a second one can open over the first. All     *)
(* handlers run on the main thread and none waits, so a step is a handler. *)
(* The list of assignments is the sequence of entries that ActionMap       *)
(* describes; how a key reaches the dialog is RemoteKey, what the settings *)
(* do is Settings.                                                         *)
(***************************************************************************)
EXTENDS Integers, SequencesExt

CONSTANTS
  Dialogs,      \* dialogs there can be at once
  Pairs,        \* (button, remote control) pairs, each a model value
  NumActions,   \* rows of act_table before its closing empty row
  States,       \* values of global_state
  None          \* no window, no pair

ASSUME NumActionsAssumption == NumActions \in Nat \ {0}
ASSUME NoneAssumption == None \notin Dialogs \cup Pairs

ActionIndex == 0 .. NumActions - 1

Entries == [p : Pairs, a : ActionIndex]

VARIABLES
  list,    \* lactions of g_config_actions
  g,       \* the dialog whose windows the globals g_hWnd... name
  open,    \* dialogs on the screen
  rows,    \* the action in each row of the list view of each dialog
  sel,     \* its selected row, 0 when none is
  choice,  \* the action selected in the list box, -1 when none is
  fields,  \* the pair in the fields IDC_E_KEY and IDC_E_REMOTE
  state,   \* global_state, which the network thread changes
  status   \* the state that the status line shows

views == <<rows, sel>>
vars == <<list, g, open, rows, sel, choice, fields, state, status>>

Init ==
  /\ list = <<>>
  /\ g = None
  /\ open = {}
  /\ rows = [d \in Dialogs |-> <<>>]
  /\ sel = [d \in Dialogs |-> 0]
  /\ choice = [d \in Dialogs |-> -1]
  /\ fields = [d \in Dialogs |-> None]
  /\ state \in States
  /\ status = [d \in Dialogs |-> None]

-----------------------------------------------------------------------------
(* The list and the list view.                                             *)

Actions(l) == [i \in DOMAIN l |-> l[i].a]

\* The rows whose action is n.
RowsOf(r, n) == {i \in DOMAIN r : r[i] = n}

\* The row that is selected after the list view was filled with r: the last
\* with the action n, or else the first.
ActiveRow(r, n) ==
  IF RowsOf(r, n) # {} THEN Max(RowsOf(r, n)) ELSE IF r # <<>> THEN 1 ELSE 0

\* The list view that the global names is filled from the list l.
update_bindings(l, n) ==
  IF g = None
  THEN UNCHANGED views
  ELSE /\ rows' = [rows EXCEPT ![g] = Actions(l)]
       /\ sel' = [sel EXCEPT ![g] = ActiveRow(Actions(l), n)]

-----------------------------------------------------------------------------
(* The handlers of a dialog d.                                             *)

OnInitDialog(d) ==
  /\ d \notin open
  /\ open' = open \cup {d}
  /\ g' = d
  /\ rows' = [rows EXCEPT ![d] = Actions(list)]
  /\ sel' = [sel EXCEPT ![d] = ActiveRow(Actions(list), 0)]
  /\ UNCHANGED <<list, choice, fields, state, status>>

\* The windows of a closed dialog go with what they show.
ClearWindows(d) ==
  /\ rows' = [rows EXCEPT ![d] = <<>>]
  /\ sel' = [sel EXCEPT ![d] = 0]
  /\ choice' = [choice EXCEPT ![d] = -1]
  /\ fields' = [fields EXCEPT ![d] = None]
  /\ status' = [status EXCEPT ![d] = None]

\* Faulty variant: the globals go on naming the closed dialog.
CloseKeepsGlobals(d) ==
  /\ d \in open
  /\ open' = open \ {d}
  /\ ClearWindows(d)
  /\ UNCHANGED <<list, g, state>>

\* The globals are reset, whichever dialog they name.
OnClose(d) ==
  /\ d \in open
  /\ open' = open \ {d}
  /\ g' = None
  /\ ClearWindows(d)
  /\ UNCHANGED <<list, state>>

\* Faulty variant: the first row of the action is not looked for.
ChoiceKeepsRow(d, n) ==
  /\ d \in open
  /\ choice' = [choice EXCEPT ![d] = n]
  /\ UNCHANGED <<list, g, open, rows, sel, fields, state, status>>

\* An action is chosen in the list box: its first row is selected.
OnLbnSelchangeLbActions(d, n) ==
  LET hits == RowsOf(rows[d], n)
  IN  /\ d \in open
      /\ choice' = [choice EXCEPT ![d] = n]
      /\ sel' = IF hits = {} THEN sel ELSE [sel EXCEPT ![d] = Min(hits)]
      /\ UNCHANGED <<list, g, open, rows, fields, state, status>>

\* The user clicks a row, or below the last row.
SelectRow(d, i) ==
  /\ d \in open
  /\ i \in 0 .. Len(rows[d])
  /\ sel' = [sel EXCEPT ![d] = i]
  /\ UNCHANGED <<list, g, open, rows, choice, fields, state, status>>

\* A key arrives in the dialog that g_hWndConfig names.
OnRemoteKey(p) ==
  /\ g # None
  /\ fields' = [fields EXCEPT ![g] = p]
  /\ UNCHANGED <<list, g, open, views, choice, state, status>>

\* What assignaction_to_remotekey makes of the list.
Assigned(l, p, n) ==
  LET hits == {i \in DOMAIN l : l[i].p = p}
  IN  IF hits # {} THEN [l EXCEPT ![Min(hits)].a = n]
      ELSE Append(l, [p |-> p, a |-> n])

OnBnClickedBAdd(d) ==
  /\ d \in open
  /\ choice[d] >= 0 /\ fields[d] # None
  /\ list' = Assigned(list, fields[d], choice[d])
  /\ update_bindings(list', choice[d])
  /\ UNCHANGED <<g, open, choice, fields, state, status>>

\* Faulty variant: the last assignment of the action goes.
DeletedLast(l, n) ==
  LET hits == RowsOf(Actions(l), n)
  IN  IF hits = {} THEN l ELSE RemoveAt(l, Max(hits))

\* What delete_lactionbyindex makes of the list.
Deleted(l, n) ==
  LET hits == RowsOf(Actions(l), n)
  IN  IF hits = {} THEN l ELSE RemoveAt(l, Min(hits))

\* Faulty variant: the list view is not filled again.
RemoveKeepsRows(d) ==
  /\ d \in open
  /\ sel[d] # 0
  /\ list' = Deleted(list, rows[d][sel[d]])
  /\ UNCHANGED <<g, open, views, choice, fields, state, status>>

\* The first assignment with the action of the selected row goes.
OnBnClickedBRemove(d) ==
  /\ d \in open
  /\ sel[d] # 0
  /\ list' = Deleted(list, rows[d][sel[d]])
  /\ update_bindings(list', 0)
  /\ UNCHANGED <<g, open, choice, fields, state, status>>

OnBnClickedBReset(d) ==
  /\ d \in open
  /\ list' = <<>>
  /\ update_bindings(list', 0)
  /\ UNCHANGED <<g, open, choice, fields, state, status>>

\* The timer of d draws the status line that the global names.
OnTimer(d) ==
  /\ d \in open
  /\ status' = IF g # None THEN [status EXCEPT ![g] = state] ELSE status
  /\ UNCHANGED <<list, g, open, views, choice, fields, state>>

\* The network thread, and the end of the connection.
StateChanges(s) ==
  /\ state' = s
  /\ UNCHANGED <<list, g, open, views, choice, fields, status>>

-----------------------------------------------------------------------------
Next ==
  \/ \E d \in Dialogs :
       \/ OnInitDialog(d) \/ OnClose(d) \/ OnTimer(d)
       \/ OnBnClickedBAdd(d) \/ OnBnClickedBRemove(d) \/ OnBnClickedBReset(d)
       \/ \E n \in ActionIndex : OnLbnSelchangeLbActions(d, n)
       \/ \E i \in 0 .. Len(rows[d]) : SelectRow(d, i)
  \/ \E p \in Pairs : OnRemoteKey(p)
  \/ \E s \in States : StateChanges(s)

Spec == Init /\ [][Next]_vars

-----------------------------------------------------------------------------
(* Properties.                                                             *)

TypeOK ==
  /\ list \in Seq(Entries)
  /\ g \in Dialogs \cup {None}
  /\ open \subseteq Dialogs
  /\ rows \in [Dialogs -> Seq(ActionIndex)]
  /\ sel \in [Dialogs -> Nat]
  /\ \A d \in Dialogs : sel[d] <= Len(rows[d])
  /\ choice \in [Dialogs -> ActionIndex \cup {-1}]
  /\ fields \in [Dialogs -> Pairs \cup {None}]
  /\ state \in States
  /\ status \in [Dialogs -> States \cup {None}]

\* The globals, to which the network thread posts and the handlers write, never
\* name a window that was closed.
GlobalsNameOpen == g # None => g \in open

\* The rows of the dialog that the globals name are the assignments, in their
\* order, whichever dialog changed them.
RowsMatchList == g # None => rows[g] = Actions(list)

\* Remove takes the assignment of the selected row, when that row is the first
\* with its action, as it is once the action was chosen in the list box.
RemovesFirstRow ==
  [][\A d \in Dialogs :
       OnBnClickedBRemove(d) /\ d = g /\ sel[d] = Min(RowsOf(rows[d], rows[d][sel[d]]))
         => list' = RemoveAt(list, sel[d]) /\ rows'[d] = RemoveAt(rows[d], sel[d])]_vars

\* Choosing an action that is assigned and pressing Remove takes away an
\* assignment of that action: the choice selects one of its rows.
ChoiceSelects ==
  [][\A d \in Dialogs, n \in ActionIndex :
       choice[d] # n /\ choice'[d] = n /\ d = g /\ n \in Range(Actions(list))
         => sel'[d] # 0 /\ list[sel'[d]].a = n]_vars

-----------------------------------------------------------------------------
(* Statements the code does not keep. No run lists them; TLC violates each  *)
(* when its name is put into ConfigDialog.cfg (README, section 7).          *)

\* g_hWndConfig = NULL, which the network thread takes for "no dialog", means
\* that there is none.
NullMeansNoDialog == g = None => open = {}

\* Remove takes the selected row, whichever row that is.
RemovesSelected ==
  [][\A d \in Dialogs :
       OnBnClickedBRemove(d) /\ d = g => list' = RemoveAt(list, sel[d])]_vars
=============================================================================
