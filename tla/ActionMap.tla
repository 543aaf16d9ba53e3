------------------------------ MODULE ActionMap ------------------------------
(***************************************************************************)
(* cfg_actions, the list of assigned buttons (wdevfoo_lirc.h and .cpp): a  *)
(* pfc::ptr_list_t of pointers to lirc_action objects, read from and       *)
(* written to the configuration file of the player.                        *)
(*                                                                         *)
(* Objects live in blocks of the heap, and lactions holds the blocks in    *)
(* list order, so that ownership (who deletes what, and how often) can be  *)
(* stated. The key code and repeat count of a lirc_action are left out:    *)
(* they are stored but no decision reads them. One step is one public      *)
(* method: all of them run on the main thread and none of them waits.      *)
(*                                                                         *)
(* A process of the player starts, reads its configuration, is used, and   *)
(* ends; running tells whether there is one. The stored form is the 32-bit *)
(* build's, where the count is written and read with the same width. What  *)
(* a heap does later that ignored a second delete is left out.             *)
(***************************************************************************)
EXTENDS SequencesExt

CONSTANTS
  Keys,         \* button names (kn), never the empty string
  Remotes,      \* remote control names (rn), never the empty string
  NumActions,   \* rows of act_table before its closing empty row
  Blocks,       \* heap blocks a lirc_action can be allocated in
  Free          \* content of a block that holds no object

ASSUME NumActionsAssumption == NumActions \in Nat \ {0}

ActionIndex == 0 .. NumActions - 1

Entries == [kn : Keys, rn : Remotes, naction : ActionIndex]

\* What the constructor of lirc_action leaves: no names and naction = -1.
Blank == [kn |-> "", rn |-> "", naction |-> -1]

ASSUME FreeAssumption == Free \notin Entries \cup {Blank}

VARIABLES
  running,       \* the process of the player exists
  lactions,      \* the list, a sequence of blocks
  heap,          \* what each block holds
  file,          \* the entries the saved configuration holds
  doubleDelete   \* delete was applied to an object that was already deleted

vars == <<running, lactions, heap, file, doubleDelete>>

EmptyHeap == [b \in Blocks |-> Free]

Init ==
  /\ running = FALSE
  /\ lactions = <<>>
  /\ heap = EmptyHeap
  /\ file = <<>>
  /\ doubleDelete = FALSE

-----------------------------------------------------------------------------
(* Lookups. Each walks the list in order and returns the first match.      *)

get_lactionbyactionindex(naction) ==
  {i \in DOMAIN lactions : heap[lactions[i]].naction = naction}

get_lactionbykey(kn) ==
  {i \in DOMAIN lactions : heap[lactions[i]].kn = kn}

\* Faulty variant: only the first entry of the key is looked at.
FirstOfKeyOnly(kn, rn) ==
  LET hits == get_lactionbykey(kn)
  IN  {i \in hits : i = Min(hits) /\ heap[lactions[i]].rn = rn}

\* Faulty variant: the remote control is not compared.
AnyRemote(kn, rn) == get_lactionbykey(kn)

get_lactionbyremotekey(kn, rn) ==
  {i \in get_lactionbykey(kn) : heap[lactions[i]].rn = rn}

-----------------------------------------------------------------------------
(* The process ends: its memory goes, the configuration file stays.        *)
ProcessGone ==
  /\ running' = FALSE
  /\ lactions' = <<>>
  /\ heap' = EmptyHeap
  /\ UNCHANGED file

Exit ==
  /\ running
  /\ ProcessGone
  /\ UNCHANGED doubleDelete

\* The pair keeps its place in the list when it is assigned already, and
\* goes to the end of the list in a new object when it is not.
assignaction_to_remotekey(naction, kn, rn) ==
  LET hits  == get_lactionbyremotekey(kn, rn)
      entry == [kn |-> kn, rn |-> rn, naction |-> naction]
  IN  /\ running
      /\ \/ /\ hits # {}
            /\ heap' = [heap EXCEPT ![lactions[Min(hits)]] = entry]
            /\ UNCHANGED lactions
         \/ /\ hits = {}
            /\ \E b \in Blocks :
                 /\ heap[b] = Free
                 /\ heap' = [heap EXCEPT ![b] = entry]
                 /\ lactions' = Append(lactions, b)
      /\ UNCHANGED <<running, file, doubleDelete>>

\* delete action_ptr, then delete_by_idx, which deletes the object again
\* before it takes the pointer out. The heap manager may notice the second
\* delete and end the process, or ignore it.
delete_lactionbyindex(naction) ==
  LET hits == get_lactionbyactionindex(naction)
      i    == Min(hits)
  IN  /\ running
      /\ hits # {}
      /\ doubleDelete' = TRUE
      /\ \/ /\ heap' = [heap EXCEPT ![lactions[i]] = Free]
            /\ lactions' = RemoveAt(lactions, i)
            /\ UNCHANGED <<running, file>>
         \/ ProcessGone

\* As above, for every object of the list.
delete_all ==
  /\ running
  /\ lactions # <<>>
  /\ doubleDelete' = TRUE
  /\ \/ /\ heap' = [b \in Blocks |-> IF b \in Range(lactions) THEN Free ELSE heap[b]]
        /\ lactions' = <<>>
        /\ UNCHANGED <<running, file>>
     \/ ProcessGone

-----------------------------------------------------------------------------
(* The configuration.                                                      *)

\* Faulty variant: the loop runs one past the last entry.
WritesOnePast ==
  /\ running
  /\ file' = Append([i \in DOMAIN lactions |-> heap[lactions[i]]], Blank)
  /\ UNCHANGED <<running, lactions, heap, doubleDelete>>

get_data_raw ==
  /\ running
  /\ file' = [i \in DOMAIN lactions |-> heap[lactions[i]]]
  /\ UNCHANGED <<running, lactions, heap, doubleDelete>>

\* Faulty variant: an object is added to the list before it is read.
AddsBeforeReading(n, unlisted) ==
  \E loaded \in Injection(1 .. n, Blocks \ unlisted) :
    /\ running' = TRUE
    /\ lactions' = loaded \o SetToSeq(unlisted)
    /\ heap' = [b \in Blocks |->
                  IF b \in unlisted THEN Blank
                  ELSE IF b \in Range(loaded)
                       THEN file[CHOOSE i \in 1 .. n : loaded[i] = b]
                       ELSE Free]
    /\ UNCHANGED <<file, doubleDelete>>

\* A new object for each of the first n entries of the file, and an object
\* that was allocated and never added for each block of unlisted. The list
\* is empty when the configuration is read, so delete_all has no effect.
ReadEntries(n, unlisted) ==
  \E loaded \in Injection(1 .. n, Blocks \ unlisted) :
    /\ running' = TRUE
    /\ lactions' = loaded
    /\ heap' = [b \in Blocks |->
                  IF b \in unlisted THEN Blank
                  ELSE IF b \in Range(loaded)
                       THEN file[CHOOSE i \in 1 .. n : loaded[i] = b]
                       ELSE Free]
    /\ UNCHANGED <<file, doubleDelete>>

\* The process starts and the whole list can be read.
set_data_raw ==
  /\ ~running
  /\ ReadEntries(Len(file), {})

\* The process starts and a read past the end of the data throws: reading
\* the count, or reading a field of the entry after the n-th. Entries are
\* added as they are read, and the object being read is not deleted. The
\* reader of the configuration file catches the exception and goes on.
set_data_raw_throws ==
  /\ ~running
  /\ \/ ReadEntries(0, {})
     \/ \E n \in 0 .. Len(file) - 1, b \in Blocks : ReadEntries(n, {b})

-----------------------------------------------------------------------------
Next ==
  \/ set_data_raw
  \/ set_data_raw_throws
  \/ \E naction \in ActionIndex, kn \in Keys, rn \in Remotes :
       assignaction_to_remotekey(naction, kn, rn)
  \/ \E naction \in ActionIndex : delete_lactionbyindex(naction)
  \/ delete_all
  \/ get_data_raw
  \/ Exit

Spec == Init /\ [][Next]_vars
-----------------------------------------------------------------------------
(* Properties.                                                             *)

TypeOK ==
  /\ running \in BOOLEAN
  /\ lactions \in Seq(Blocks)
  /\ heap \in [Blocks -> Entries \cup {Blank, Free}]
  /\ file \in Seq(Entries)
  /\ doubleDelete \in BOOLEAN

PairsDistinct(entries) ==
  \A i, j \in DOMAIN entries :
    entries[i].kn = entries[j].kn /\ entries[i].rn = entries[j].rn => i = j

Contents == [i \in DOMAIN lactions |-> heap[lactions[i]]]

\* Between two operations the list and the heap agree: no object is listed
\* twice, every listed object is alive and complete (its action is a row of
\* act_table, which the hook and the dialog index without a check), and
\* every complete object is listed, so that nothing assigned is leaked.
Ownership ==
  /\ IsInjective(lactions)
  /\ \A b \in Blocks : heap[b] \in Entries <=> b \in Range(lactions)

\* A pair is assigned at most once, in the list and in the saved file:
\* otherwise the first entry would hide the others from every lookup.
BindingsUnique == PairsDistinct(Contents) /\ PairsDistinct(file)

\* The action that a list of entries gives a pair: the first match, or -1.
ActionOf(entries, p) ==
  LET hits == {i \in DOMAIN entries : entries[i].kn = p[1] /\ entries[i].rn = p[2]}
  IN  IF hits = {} THEN -1 ELSE entries[Min(hits)].naction

Bindings(entries) == [p \in Keys \X Remotes |-> ActionOf(entries, p)]

Map == INSTANCE KeyMap WITH
         Pairs    <- Keys \X Remotes,
         Actions  <- ActionIndex,
         NoAction <- -1,
         bind     <- Bindings(Contents),
         saved    <- Bindings(file)

\* Through its lookups, the list is a map from pairs to actions: an
\* assignment changes the pair it names and no other, a removal takes one
\* pair away, and a restart brings back saved assignments only.
ImplementsKeyMap == Map!Spec

-----------------------------------------------------------------------------
(* What the code and the dialog say of themselves, and the code does not   *)
(* keep. One run shows the first; TLC violates the others when their names *)
(* are put into ActionMap.cfg (README, section 7).                         *)

\* delete is applied to an object once. pfc's ptr_list_t deletes the objects
\* that delete_by_idx and delete_all take out; cfg_actions deletes them first.
DeletedOnce == ~doubleDelete

\* "alter member data only on success, this will throw an exception when
\* something isn't right": a set_data_raw that throws leaves the list alone.
ThrowingReadKeepsList == [][set_data_raw_throws => UNCHANGED lactions]_vars

\* "This key from this remote control already assigned...": an assignment
\* does not change the action of a pair that already has one.
AssignedPairKept ==
  [][\A b \in Blocks :
       heap[b] \in Entries /\ heap'[b] \in Entries => heap'[b] = heap[b]]_vars
=============================================================================
