-------------------------- MODULE ConfigDialogProofs --------------------------
(***************************************************************************)
(* Proofs about ConfigDialog, for any number of dialogs, pairs, actions    *)
(* and states.                                                             *)
(***************************************************************************)
EXTENDS ConfigDialog, SequenceTheorems, WellFoundedInduction, TLAPS

-----------------------------------------------------------------------------
(* Operators of the community modules.                                     *)

\* Min of a set of natural numbers is its least element: "the first match"
\* of a lookup is a match.
LEMMA MinIsLeast ==
  ASSUME NEW S \in SUBSET Nat, S # {}
  PROVE  /\ Min(S) \in S
         /\ \A y \in S : Min(S) <= y
<1>1. PICK x \in S : \A y \in S : ~ (<<y, x>> \in OpToRel(<, Nat))
  BY NatLessThanWellFounded, WFMin
<1>2. \A y \in S : x <= y
  <2>1. SUFFICES ASSUME NEW y \in S PROVE x <= y
    OBVIOUS
  <2>2. ~ (y < x)
    BY <1>1 DEF OpToRel
  <2> QED
    BY <2>2
<1> QED
  BY <1>2 DEF Min

\* Max of a set of numbers up to n is its greatest element: "the last match".
LEMMA MaxIsGreatest ==
  ASSUME NEW n \in Nat, NEW S \in SUBSET (0 .. n), S # {}
  PROVE  /\ Max(S) \in S
         /\ \A y \in S : y <= Max(S)
<1> DEFINE T == {n - x : x \in S}
<1>1. T \in SUBSET Nat /\ T # {}
  <2>1. \A x \in S : n - x \in Nat
    OBVIOUS
  <2>2. PICK x \in S : TRUE
    OBVIOUS
  <2>3. n - x \in T
    OBVIOUS
  <2> QED
    BY <2>1, <2>3
<1>2. Min(T) \in T /\ \A y \in T : Min(T) <= y
  BY <1>1, MinIsLeast
<1>3. PICK x \in S : Min(T) = n - x
  BY <1>2
<1>4. \A y \in S : y <= x
  <2>1. SUFFICES ASSUME NEW y \in S PROVE y <= x
    OBVIOUS
  <2>2. n - x <= n - y
    BY <1>2, <1>3
  <2> QED
    BY <2>2
<1>5. \A y \in S : x >= y
  BY <1>4
<1> QED
  BY <1>5 DEF Max

\* RemoveAt takes one element out and keeps the order of the others.
LEMMA RemoveAtProperties ==
  ASSUME NEW S, NEW s \in Seq(S), NEW i \in 1 .. Len(s)
  PROVE  /\ RemoveAt(s, i) \in Seq(S)
         /\ Len(RemoveAt(s, i)) = Len(s) - 1
         /\ \A j \in 1 .. Len(s) - 1 :
              RemoveAt(s, i)[j] = IF j < i THEN s[j] ELSE s[j + 1]
<1> DEFINE front == SubSeq(s, 1, i - 1)
           back  == SubSeq(s, i + 1, Len(s))
<1>1. /\ front \in Seq(S)
      /\ Len(front) = i - 1
      /\ \A j \in 1 .. i - 1 : front[j] = s[j]
  BY SubSeqProperties
<1>2. /\ back \in Seq(S)
      /\ Len(back) = Len(s) - i
      /\ \A j \in 1 .. Len(s) - i : back[j] = s[i + j]
  BY SubSeqProperties
<1>3. RemoveAt(s, i) = front \o back
  BY DEF RemoveAt
<1> HIDE DEF front, back
<1>4. /\ front \o back \in Seq(S)
      /\ Len(front \o back) = Len(front) + Len(back)
      /\ \A j \in 1 .. Len(front) + Len(back) :
           (front \o back)[j] = IF j <= Len(front) THEN front[j]
                                ELSE back[j - Len(front)]
  BY <1>1, <1>2, ConcatProperties
<1>5. Len(front) = i - 1 /\ Len(back) = Len(s) - i /\ Len(s) \in Nat
  BY <1>1, <1>2
<1>6. ASSUME NEW j \in 1 .. Len(s) - 1
      PROVE  (front \o back)[j] = IF j < i THEN s[j] ELSE s[j + 1]
  <2>1. CASE j < i
    BY <1>1, <1>4, <1>5, <2>1
  <2>2. CASE ~ (j < i)
    <3>1. j - (i - 1) \in 1 .. Len(s) - i /\ i + (j - (i - 1)) = j + 1
      BY <1>5, <2>2
    <3>2. (front \o back)[j] = back[j - (i - 1)]
      BY <1>4, <1>5, <2>2
    <3> QED
      BY <1>2, <2>2, <3>1, <3>2
  <2> QED
    BY <2>1, <2>2
<1>7. Len(front \o back) = Len(s) - 1
  BY <1>4, <1>5
<1> QED
  BY <1>3, <1>4, <1>6, <1>7


(***************************************************************************)
(* Lemmas on the list and its rows.                                        *)
(***************************************************************************)

\* The actions of a list are a sequence of the same length.
LEMMA ActionsOfList ==
  ASSUME NEW l \in Seq(Entries)
  PROVE  /\ Actions(l) \in Seq(ActionIndex)
         /\ Len(Actions(l)) = Len(l)
         /\ DOMAIN Actions(l) = 1 .. Len(l)
         /\ \A i \in 1 .. Len(l) : Actions(l)[i] = l[i].a
<1>1. Len(l) \in Nat /\ DOMAIN l = 1 .. Len(l) /\ \A i \in 1 .. Len(l) : l[i] \in Entries
  BY LenProperties
<1>2. \A i \in 1 .. Len(l) : l[i].a \in ActionIndex
  BY <1>1 DEF Entries
<1>3. Actions(l) = [i \in 1 .. Len(l) |-> l[i].a]
  BY <1>1 DEF Actions
<1> QED
  BY <1>1, <1>2, <1>3

\* The row that is selected is a row.
LEMMA ActiveRowIsRow ==
  ASSUME NEW r \in Seq(ActionIndex), NEW n
  PROVE  ActiveRow(r, n) \in 0 .. Len(r)
<1> DEFINE hits == RowsOf(r, n)
<1>1. Len(r) \in Nat /\ hits \in SUBSET (0 .. Len(r)) /\ hits \subseteq 1 .. Len(r)
  BY LenProperties DEF RowsOf
<1>2. CASE hits # {}
  <2>1. Max(hits) \in hits
    BY <1>1, <1>2, MaxIsGreatest
  <2> QED
    BY <1>1, <1>2, <2>1 DEF ActiveRow
<1>3. CASE hits = {} /\ r # <<>>
  <2>1. Len(r) # 0
    BY <1>3, EmptySeq
  <2> QED
    BY <1>1, <1>3, <2>1 DEF ActiveRow
<1>4. CASE hits = {} /\ r = <<>>
  BY <1>1, <1>4 DEF ActiveRow
<1> QED
  BY <1>2, <1>3, <1>4

\* The first row of an action is a row of it.
LEMMA FirstRow ==
  ASSUME NEW S, NEW r \in Seq(S), NEW n, RowsOf(r, n) # {}
  PROVE  /\ Min(RowsOf(r, n)) \in 1 .. Len(r)
         /\ r[Min(RowsOf(r, n))] = n
<1>1. RowsOf(r, n) \in SUBSET Nat /\ DOMAIN r = 1 .. Len(r)
  BY LenProperties DEF RowsOf
<1>2. Min(RowsOf(r, n)) \in RowsOf(r, n)
  BY <1>1, MinIsLeast
<1> QED
  BY <1>1, <1>2 DEF RowsOf

\* Assigning keeps the list one of assignments.
LEMMA AssignedIsList ==
  ASSUME NEW l \in Seq(Entries), NEW p \in Pairs, NEW n \in ActionIndex
  PROVE  Assigned(l, p, n) \in Seq(Entries)
<1> DEFINE hits == {i \in DOMAIN l : l[i].p = p}
<1>1. CASE hits # {}
  <2>1. hits \in SUBSET Nat /\ DOMAIN l = 1 .. Len(l)
    BY LenProperties
  <2>2. Min(hits) \in 1 .. Len(l)
    BY <1>1, <2>1, MinIsLeast
  <2> DEFINE m == Min(hits)
             e == [l[m] EXCEPT !.a = n]
  <2>3. Assigned(l, p, n) = [l EXCEPT ![m] = e]
    BY <1>1 DEF Assigned
  <2>4. l[m] \in Entries
    BY <2>2, ElementOfSeq
  <2>5. e \in Entries
    BY <2>4 DEF Entries
  <2> HIDE DEF m, e
  <2>6. m \in 1 .. Len(l)
    BY <2>2 DEF m
  <2> QED
    BY <2>3, <2>5, <2>6, ExceptSeq
<1>2. CASE hits = {}
  <2>1. Assigned(l, p, n) = Append(l, [p |-> p, a |-> n])
    BY <1>2 DEF Assigned
  <2> QED
    BY <2>1 DEF Entries
<1> QED
  BY <1>1, <1>2

\* Removing keeps the list one of assignments.
LEMMA DeletedIsList ==
  ASSUME NEW l \in Seq(Entries), NEW n
  PROVE  Deleted(l, n) \in Seq(Entries)
<1>1. CASE RowsOf(Actions(l), n) # {}
  <2>1. Min(RowsOf(Actions(l), n)) \in 1 .. Len(l)
    BY <1>1, ActionsOfList, FirstRow
  <2>2. Deleted(l, n) = RemoveAt(l, Min(RowsOf(Actions(l), n)))
    BY <1>1 DEF Deleted
  <2> QED
    BY <2>1, <2>2, RemoveAtProperties
<1>2. CASE RowsOf(Actions(l), n) = {}
  BY <1>2 DEF Deleted
<1> QED
  BY <1>1, <1>2

\* Removing an assignment removes its row.
LEMMA ActionsOfRemoved ==
  ASSUME NEW l \in Seq(Entries), NEW i \in 1 .. Len(l)
  PROVE  Actions(RemoveAt(l, i)) = RemoveAt(Actions(l), i)
<1> DEFINE m == RemoveAt(l, i)
           r == RemoveAt(Actions(l), i)
           n == Len(l) - 1
<1>1. /\ m \in Seq(Entries)
      /\ Len(m) = n
      /\ \A j \in 1 .. n : m[j] = IF j < i THEN l[j] ELSE l[j + 1]
  BY RemoveAtProperties
<1>2. /\ Actions(l) \in Seq(ActionIndex)
      /\ Len(Actions(l)) = Len(l)
      /\ \A j \in 1 .. Len(l) : Actions(l)[j] = l[j].a
  BY ActionsOfList
<1>3. /\ r \in Seq(ActionIndex)
      /\ Len(r) = n
      /\ \A j \in 1 .. n : r[j] = IF j < i THEN Actions(l)[j] ELSE Actions(l)[j + 1]
  BY <1>2, RemoveAtProperties
<1> HIDE DEF m, r
<1>4. /\ Actions(m) \in Seq(ActionIndex)
      /\ Len(Actions(m)) = n
      /\ \A j \in 1 .. n : Actions(m)[j] = m[j].a
  BY <1>1, ActionsOfList
<1>5. Len(l) \in Nat
  BY LenProperties
<1>6. ASSUME NEW j \in 1 .. n PROVE Actions(m)[j] = r[j]
  <2>1. j \in 1 .. Len(l) /\ j + 1 \in 1 .. Len(l)
    BY <1>5
  <2>2. Actions(m)[j] = m[j].a
    BY <1>4
  <2>3. CASE j < i
    BY <1>1, <1>2, <1>3, <2>1, <2>2, <2>3
  <2>4. CASE ~ (j < i)
    BY <1>1, <1>2, <1>3, <2>1, <2>2, <2>4
  <2> QED
    BY <2>3, <2>4
<1>7. Actions(m) = r
  BY <1>3, <1>4, <1>6, SeqEqual
<1> QED
  BY <1>7 DEF m, r

\* Filling a list view keeps the views well typed and shows the list that it
\* was filled from.
LEMMA BindingsStep ==
  ASSUME TypeOK, NEW l \in Seq(Entries), NEW n, update_bindings(l, n)
  PROVE  /\ rows' \in [Dialogs -> Seq(ActionIndex)]
         /\ sel' \in [Dialogs -> Nat]
         /\ \A d \in Dialogs : sel'[d] <= Len(rows'[d])
         /\ g # None => rows'[g] = Actions(l)
<1>1. /\ rows \in [Dialogs -> Seq(ActionIndex)]
      /\ sel \in [Dialogs -> Nat]
      /\ \A d \in Dialogs : sel[d] <= Len(rows[d])
      /\ g \in Dialogs \cup {None}
  BY DEF TypeOK
<1>2. CASE g = None
  BY <1>1, <1>2 DEF update_bindings, views
<1>3. CASE g # None
  <2> DEFINE r == Actions(l)
             a == ActiveRow(r, n)
  <2>1. r \in Seq(ActionIndex)
    BY ActionsOfList
  <2>2. a \in 0 .. Len(r) /\ Len(r) \in Nat
    BY <2>1, ActiveRowIsRow, LenProperties
  <2>3. rows' = [rows EXCEPT ![g] = r] /\ sel' = [sel EXCEPT ![g] = a]
    BY <1>3 DEF update_bindings
  <2> HIDE DEF r, a
  <2>4. a \in Nat /\ a <= Len(r)
    BY <2>2
  <2>5. rows'[g] = r
    BY <1>1, <1>3, <2>3
  <2> QED
    BY <1>1, <1>3, <2>1, <2>3, <2>4, <2>5 DEF r
<1> QED
  BY <1>2, <1>3

-----------------------------------------------------------------------------
(***************************************************************************)
(* The invariant. Its parts hold together: the rows match the list because *)
(* every handler that changes the list fills the one list view that the    *)
(* globals name, whichever dialog the handler belongs to.                  *)
(***************************************************************************)
IInv == TypeOK /\ GlobalsNameOpen /\ RowsMatchList

LEMMA InitInv == Init => IInv
<1> SUFFICES ASSUME Init PROVE IInv
  OBVIOUS
<1>1. /\ <<>> \in Seq(Entries) /\ <<>> \in Seq(ActionIndex)
      /\ Len(<<>>) = 0
  BY EmptySeq
<1>2. TypeOK
  BY <1>1 DEF Init, TypeOK
<1>3. GlobalsNameOpen /\ RowsMatchList
  BY DEF Init, GlobalsNameOpen, RowsMatchList
<1> QED
  BY <1>2, <1>3 DEF IInv

\* A handler that makes l of the list and fills the list view.
LEMMA ListStep ==
  ASSUME IInv, NEW l \in Seq(Entries), NEW n, list' = l, update_bindings(l, n),
         UNCHANGED <<g, open, choice, fields, state, status>>
  PROVE  IInv'
<1>1. /\ rows' \in [Dialogs -> Seq(ActionIndex)]
      /\ sel' \in [Dialogs -> Nat]
      /\ \A d \in Dialogs : sel'[d] <= Len(rows'[d])
      /\ g # None => rows'[g] = Actions(l)
  BY BindingsStep DEF IInv
<1>2. TypeOK'
  BY <1>1 DEF IInv, TypeOK
<1>3. GlobalsNameOpen' /\ RowsMatchList'
  BY <1>1 DEF IInv, GlobalsNameOpen, RowsMatchList
<1> QED
  BY <1>2, <1>3 DEF IInv

\* A handler that changes neither the list, nor the rows, nor which dialogs
\* there are.
LEMMA OtherStep ==
  ASSUME IInv, TypeOK', UNCHANGED <<list, g, open, rows>>
  PROVE  IInv'
BY DEF IInv, GlobalsNameOpen, RowsMatchList

LEMMA InitDialogInv ==
  ASSUME IInv, NEW d \in Dialogs, OnInitDialog(d)
  PROVE  IInv'
<1> DEFINE r == Actions(list)
           a == ActiveRow(r, 0)
<1>1. r \in Seq(ActionIndex)
  BY ActionsOfList DEF IInv, TypeOK
<1>2. a \in 0 .. Len(r) /\ Len(r) \in Nat
  BY <1>1, ActiveRowIsRow, LenProperties
<1>3. rows' = [rows EXCEPT ![d] = r] /\ sel' = [sel EXCEPT ![d] = a] /\ r = Actions(list)
  BY DEF OnInitDialog
<1> HIDE DEF r, a
<1>4. a \in Nat /\ a <= Len(r)
  BY <1>2
<1>5. /\ rows \in [Dialogs -> Seq(ActionIndex)]
      /\ sel \in [Dialogs -> Nat]
      /\ \A e \in Dialogs : sel[e] <= Len(rows[e])
  BY DEF IInv, TypeOK
<1>6. /\ rows' \in [Dialogs -> Seq(ActionIndex)]
      /\ sel' \in [Dialogs -> Nat]
      /\ \A e \in Dialogs : sel'[e] <= Len(rows'[e])
  BY <1>1, <1>3, <1>4, <1>5
<1>7. TypeOK'
  BY <1>6 DEF IInv, TypeOK, OnInitDialog
<1>8. GlobalsNameOpen' /\ RowsMatchList'
  BY <1>3, <1>5 DEF OnInitDialog, GlobalsNameOpen, RowsMatchList
<1> QED
  BY <1>7, <1>8 DEF IInv

LEMMA CloseInv ==
  ASSUME IInv, NEW d \in Dialogs, OnClose(d)
  PROVE  IInv'
<1>1. <<>> \in Seq(ActionIndex) /\ Len(<<>>) = 0
  BY EmptySeq
<1>2. /\ rows \in [Dialogs -> Seq(ActionIndex)]
      /\ sel \in [Dialogs -> Nat]
      /\ \A e \in Dialogs : sel[e] <= Len(rows[e])
  BY DEF IInv, TypeOK
<1>3. rows' = [rows EXCEPT ![d] = <<>>] /\ sel' = [sel EXCEPT ![d] = 0]
  BY DEF OnClose, ClearWindows
<1>4. /\ rows' \in [Dialogs -> Seq(ActionIndex)]
      /\ sel' \in [Dialogs -> Nat]
      /\ \A e \in Dialogs : sel'[e] <= Len(rows'[e])
  BY <1>1, <1>2, <1>3
<1>5. TypeOK'
  BY <1>4 DEF IInv, TypeOK, OnClose, ClearWindows
<1>6. GlobalsNameOpen' /\ RowsMatchList'
  BY DEF OnClose, GlobalsNameOpen, RowsMatchList
<1> QED
  BY <1>5, <1>6 DEF IInv

LEMMA ChoiceInv ==
  ASSUME IInv, NEW d \in Dialogs, NEW n \in ActionIndex, OnLbnSelchangeLbActions(d, n)
  PROVE  IInv'
<1> DEFINE hits == RowsOf(rows[d], n)
<1>1. /\ rows \in [Dialogs -> Seq(ActionIndex)] /\ sel \in [Dialogs -> Nat]
      /\ \A e \in Dialogs : sel[e] <= Len(rows[e]) /\ Len(rows[e]) \in Nat
  BY LenProperties DEF IInv, TypeOK
<1>2. /\ sel' \in [Dialogs -> Nat]
      /\ \A e \in Dialogs : sel'[e] <= Len(rows[e])
  <2>1. CASE hits = {}
    BY <1>1, <2>1 DEF OnLbnSelchangeLbActions
  <2>2. CASE hits # {}
    <3>1. Min(hits) \in 1 .. Len(rows[d])
      BY <1>1, <2>2, FirstRow
    <3> DEFINE m == Min(hits)
    <3>2. sel' = [sel EXCEPT ![d] = m]
      BY <2>2 DEF OnLbnSelchangeLbActions
    <3> HIDE DEF m
    <3>3. m \in Nat /\ m <= Len(rows[d])
      BY <1>1, <3>1 DEF m
    <3> QED
      BY <1>1, <3>2, <3>3
  <2> QED
    BY <2>1, <2>2
<1>3. TypeOK'
  BY <1>2 DEF IInv, TypeOK, OnLbnSelchangeLbActions
<1> QED
  BY <1>3, OtherStep DEF OnLbnSelchangeLbActions

LEMMA SelectInv ==
  ASSUME IInv, NEW d \in Dialogs, NEW i \in 0 .. Len(rows[d]), SelectRow(d, i)
  PROVE  IInv'
<1>1. /\ rows \in [Dialogs -> Seq(ActionIndex)] /\ sel \in [Dialogs -> Nat]
      /\ \A e \in Dialogs : sel[e] <= Len(rows[e]) /\ Len(rows[e]) \in Nat
  BY LenProperties DEF IInv, TypeOK
<1>2. i \in Nat /\ i <= Len(rows[d])
  BY <1>1
<1>3. /\ sel' \in [Dialogs -> Nat]
      /\ \A e \in Dialogs : sel'[e] <= Len(rows[e])
  BY <1>1, <1>2 DEF SelectRow
<1>4. TypeOK'
  BY <1>3 DEF IInv, TypeOK, SelectRow
<1> QED
  BY <1>4, OtherStep DEF SelectRow

LEMMA ShowInv ==
  ASSUME IInv,
         \/ \E p \in Pairs : OnRemoteKey(p)
         \/ \E d \in Dialogs : OnTimer(d)
         \/ \E s \in States : StateChanges(s)
  PROVE  IInv'
<1>1. TypeOK'
  BY DEF IInv, TypeOK, views, OnRemoteKey, OnTimer, StateChanges
<1>2. UNCHANGED <<list, g, open, rows>>
  BY DEF views, OnRemoteKey, OnTimer, StateChanges
<1> QED
  BY <1>1, <1>2, OtherStep

LEMMA ButtonsInv ==
  ASSUME IInv, NEW d \in Dialogs,
         OnBnClickedBAdd(d) \/ OnBnClickedBRemove(d) \/ OnBnClickedBReset(d)
  PROVE  IInv'
<1>0. list \in Seq(Entries)
  BY DEF IInv, TypeOK
<1>1. CASE OnBnClickedBAdd(d)
  <2>1. choice[d] \in ActionIndex /\ fields[d] \in Pairs
    BY <1>1 DEF IInv, TypeOK, OnBnClickedBAdd
  <2>2. Assigned(list, fields[d], choice[d]) \in Seq(Entries)
    BY <1>0, <2>1, AssignedIsList
  <2> QED
    BY <1>1, <2>2, ListStep DEF OnBnClickedBAdd
<1>2. CASE OnBnClickedBRemove(d)
  <2>1. Deleted(list, rows[d][sel[d]]) \in Seq(Entries)
    BY <1>0, DeletedIsList
  <2> QED
    BY <1>2, <2>1, ListStep DEF OnBnClickedBRemove
<1>3. CASE OnBnClickedBReset(d)
  <2>1. <<>> \in Seq(Entries)
    BY EmptySeq
  <2> QED
    BY <1>3, <2>1, ListStep DEF OnBnClickedBReset
<1> QED
  BY <1>1, <1>2, <1>3

LEMMA NextInv == IInv /\ [Next]_vars => IInv'
<1> SUFFICES ASSUME IInv, [Next]_vars PROVE IInv'
  OBVIOUS
<1>1. CASE UNCHANGED vars
  BY <1>1 DEF vars, IInv, TypeOK, GlobalsNameOpen, RowsMatchList
<1>2. ASSUME NEW d \in Dialogs, OnInitDialog(d) PROVE IInv'
  BY <1>2, InitDialogInv
<1>3. ASSUME NEW d \in Dialogs, OnClose(d) PROVE IInv'
  BY <1>3, CloseInv
<1>4. ASSUME NEW d \in Dialogs,
             OnBnClickedBAdd(d) \/ OnBnClickedBRemove(d) \/ OnBnClickedBReset(d)
      PROVE  IInv'
  BY <1>4, ButtonsInv
<1>5. ASSUME NEW d \in Dialogs, NEW n \in ActionIndex, OnLbnSelchangeLbActions(d, n)
      PROVE  IInv'
  BY <1>5, ChoiceInv
<1>6. ASSUME NEW d \in Dialogs, NEW i \in 0 .. Len(rows[d]), SelectRow(d, i) PROVE IInv'
  BY <1>6, SelectInv
<1>7. CASE \/ \E p \in Pairs : OnRemoteKey(p)
           \/ \E d \in Dialogs : OnTimer(d)
           \/ \E s \in States : StateChanges(s)
  BY <1>7, ShowInv
<1> QED
  BY <1>1, <1>2, <1>3, <1>4, <1>5, <1>6, <1>7 DEF Next

LEMMA SpecInv == Spec => []IInv
BY InitInv, NextInv, PTL DEF Spec

\* The views, the list and the globals keep their types, and no list view has
\* a selected row that it does not have.
THEOREM TypeCorrect == Spec => []TypeOK
<1>1. IInv => TypeOK
  BY DEF IInv
<1> QED
  BY <1>1, SpecInv, PTL

\* A window that was closed is never named, with any number of dialogs that
\* open and close in any order.
THEOREM GlobalsAreOpen == Spec => []GlobalsNameOpen
<1>1. IInv => GlobalsNameOpen
  BY DEF IInv
<1> QED
  BY <1>1, SpecInv, PTL

\* The list view of the named dialog shows the list, whichever dialog changes
\* it.
THEOREM RowsAreAssignments == Spec => []RowsMatchList
<1>1. IInv => RowsMatchList
  BY DEF IInv
<1> QED
  BY <1>1, SpecInv, PTL

\* The step of Remove: the first row of its action goes, and its assignment.
LEMMA RemoveStep ==
  ASSUME IInv, NEW d \in Dialogs, OnBnClickedBRemove(d), d = g,
         sel[d] = Min(RowsOf(rows[d], rows[d][sel[d]]))
  PROVE  list' = RemoveAt(list, sel[d]) /\ rows'[d] = RemoveAt(rows[d], sel[d])
<1> DEFINE i == sel[d]
           n == rows[d][i]
<1>1. /\ list \in Seq(Entries) /\ g \in Dialogs /\ rows \in [Dialogs -> Seq(ActionIndex)]
      /\ sel \in [Dialogs -> Nat] /\ i <= Len(rows[d]) /\ i # 0 /\ g # None
  BY NoneAssumption DEF IInv, TypeOK, OnBnClickedBRemove
<1>2. rows[d] = Actions(list) /\ Len(rows[d]) = Len(list) /\ Len(list) \in Nat
  BY <1>1, ActionsOfList, LenProperties DEF IInv, RowsMatchList
<1>3. i \in 1 .. Len(list) /\ i \in DOMAIN rows[d]
  BY <1>1, <1>2, LenProperties
<1>4. i \in RowsOf(Actions(list), n)
  BY <1>2, <1>3 DEF RowsOf
<1>5. Deleted(list, n) = RemoveAt(list, i)
  BY <1>2, <1>4 DEF Deleted
<1>6. list' = RemoveAt(list, i) /\ rows' = [rows EXCEPT ![g] = Actions(list')]
  BY <1>1, <1>5 DEF OnBnClickedBRemove, update_bindings
<1>7. Actions(list') = RemoveAt(rows[d], i)
  BY <1>1, <1>2, <1>3, <1>6, ActionsOfRemoved
<1> QED
  BY <1>1, <1>6, <1>7

\* Remove takes the selected row when it is the first row of its action.
THEOREM RemoveTakesFirstRow == Spec => RemovesFirstRow
<1>1. IInv /\ [Next]_vars =>
        [\A d \in Dialogs :
           OnBnClickedBRemove(d) /\ d = g /\ sel[d] = Min(RowsOf(rows[d], rows[d][sel[d]]))
             => list' = RemoveAt(list, sel[d]) /\ rows'[d] = RemoveAt(rows[d], sel[d])]_vars
  BY RemoveStep
<1> QED
  BY <1>1, SpecInv, PTL DEF Spec, RemovesFirstRow

\* The step in which an action becomes the choice.
LEMMA ChoiceStep ==
  ASSUME IInv, Next, NEW d \in Dialogs, NEW n \in ActionIndex,
         choice[d] # n, choice'[d] = n, d = g, n \in Range(Actions(list))
  PROVE  sel'[d] # 0 /\ list[sel'[d]].a = n
<1>1. /\ list \in Seq(Entries) /\ g # None /\ rows \in [Dialogs -> Seq(ActionIndex)]
      /\ sel \in [Dialogs -> Nat] /\ choice \in [Dialogs -> ActionIndex \cup {-1}]
  BY NoneAssumption DEF IInv, TypeOK
<1>2. rows[d] = Actions(list)
  BY <1>1 DEF IInv, RowsMatchList
<1>3. -1 \notin ActionIndex
  BY NumActionsAssumption DEF ActionIndex
<1>4. choice # choice'
  OBVIOUS
<1>5. PICK e \in Dialogs : OnClose(e) \/ \E k \in ActionIndex : OnLbnSelchangeLbActions(e, k)
  BY <1>4 DEF Next, OnInitDialog, OnTimer, OnBnClickedBAdd, OnBnClickedBRemove,
              OnBnClickedBReset, SelectRow, OnRemoteKey, StateChanges
<1>6. ~ OnClose(e)
  <2>1. SUFFICES ASSUME OnClose(e) PROVE FALSE
    OBVIOUS
  <2>2. choice' = [choice EXCEPT ![e] = -1]
    BY <2>1 DEF OnClose, ClearWindows
  <2> QED
    BY <1>1, <1>3, <2>2
<1>7. PICK k \in ActionIndex : OnLbnSelchangeLbActions(e, k)
  BY <1>5, <1>6
<1>8. e = d /\ k = n
  <2>1. choice' = [choice EXCEPT ![e] = k]
    BY <1>7 DEF OnLbnSelchangeLbActions
  <2> QED
    BY <1>1, <2>1
<1>9. RowsOf(rows[d], n) # {}
  BY <1>2 DEF RowsOf, Range
<1>10. sel' = [sel EXCEPT ![d] = Min(RowsOf(rows[d], n))]
  BY <1>7, <1>8, <1>9 DEF OnLbnSelchangeLbActions
<1>11. /\ Min(RowsOf(rows[d], n)) \in 1 .. Len(rows[d])
       /\ rows[d][Min(RowsOf(rows[d], n))] = n
  BY <1>1, <1>9, FirstRow
<1> DEFINE m == Min(RowsOf(rows[d], n))
<1>12. sel'[d] = m /\ m \in 1 .. Len(rows[d]) /\ Actions(list)[m] = n
  BY <1>1, <1>2, <1>10, <1>11
<1> HIDE DEF m
<1>13. Len(rows[d]) = Len(list) /\ Len(list) \in Nat
  BY <1>1, <1>2, ActionsOfList, LenProperties
<1>14. m # 0 /\ Actions(list)[m] = list[m].a
  BY <1>1, <1>12, <1>13, ActionsOfList
<1> QED
  BY <1>12, <1>14

\* Choosing an action that is assigned selects a row that it is assigned in.
THEOREM ChoiceSelectsRow == Spec => ChoiceSelects
<1>1. IInv /\ [Next]_vars =>
        [\A d \in Dialogs, n \in ActionIndex :
           choice[d] # n /\ choice'[d] = n /\ d = g /\ n \in Range(Actions(list))
             => sel'[d] # 0 /\ list[sel'[d]].a = n]_vars
  BY ChoiceStep
<1> QED
  BY <1>1, SpecInv, PTL DEF Spec, ChoiceSelects
=============================================================================
