------------------------------- MODULE KeyMap -------------------------------
(***************************************************************************)
(* What the assigned buttons promise to the rest of the plug-in, without   *)
(* the list, the heap objects and the configuration stream they are made   *)
(* of: a partial map from (button, remote control) pairs to actions, and   *)
(* the copy of it that the last saved configuration holds.                 *)
(*                                                                         *)
(* ActionMap is shown to implement this specification.                     *)
(***************************************************************************)
CONSTANTS
  Pairs,     \* (button name, remote control name) pairs
  Actions,   \* indexes of act_table
  NoAction   \* the value of a pair no action is assigned to

VARIABLES
  bind,      \* what each pair is assigned to in the running process
  saved      \* what each pair was assigned to when the configuration was saved

vars == <<bind, saved>>

Assignments == [Pairs -> Actions \cup {NoAction}]

Nothing == [p \in Pairs |-> NoAction]

Init == bind = Nothing /\ saved = Nothing

\* A pair has one action: assigning it again replaces the action.
Assign(p, a) ==
  /\ bind' = [bind EXCEPT ![p] = a]
  /\ UNCHANGED saved

\* Removing an action takes it from one of the pairs it is assigned to.
Remove(p) ==
  /\ bind[p] # NoAction
  /\ bind' = [bind EXCEPT ![p] = NoAction]
  /\ UNCHANGED saved

\* "Clear All", and the end of the process.
Forget ==
  /\ bind' = Nothing
  /\ UNCHANGED saved

Save ==
  /\ saved' = bind
  /\ UNCHANGED bind

\* A start of the process brings back saved assignments and no other: all of
\* them, or those the configuration could be read up to.
Restore(S) ==
  /\ bind = Nothing
  /\ bind' = [p \in Pairs |-> IF p \in S THEN saved[p] ELSE NoAction]
  /\ UNCHANGED saved

Next ==
  \/ \E p \in Pairs, a \in Actions : Assign(p, a)
  \/ \E p \in Pairs : Remove(p)
  \/ Forget
  \/ Save
  \/ \E S \in SUBSET Pairs : Restore(S)

Spec == Init /\ [][Next]_vars
=============================================================================
