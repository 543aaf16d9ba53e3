--------------------------- MODULE ActionMapProofs ---------------------------
(***************************************************************************)
(* Proofs about ActionMap, for every set of keys, remote controls and      *)
(* blocks and every number of actions.                                     *)
(***************************************************************************)
EXTENDS ActionMap, SequenceTheorems, WellFoundedInduction, TLAPS

-----------------------------------------------------------------------------
(* Operators of the community modules.                                     *)

\* Min of a set of natural numbers is its least element: "the first match"
\* of a lookup is a match.
LEMMA MinIsLeast ==
  ASSUME NEW S \in SUBSET Nat, S # {}
  PROVE  /\ Min(S) \in S
         /\ \A y \in S : Min(S) <= y
<1>1. PICK x \in S : \A y \in S : ~ (<<y, x>> \in OpToRel(<, Nat))
  BY NatLessThanWellFounded, WFMin
<1>2. \A y \in S : x <= y
  <2>1. SUFFICES ASSUME NEW y \in S PROVE x <= y
    OBVIOUS
  <2>2. ~ (y < x)
    BY <1>1 DEF OpToRel
  <2> QED
    BY <2>2
<1> QED
  BY <1>2 DEF Min

\* RemoveAt takes one element out and keeps the order of the others.
LEMMA RemoveAtProperties ==
  ASSUME NEW S, NEW s \in Seq(S), NEW i \in 1 .. Len(s)
  PROVE  /\ RemoveAt(s, i) \in Seq(S)
         /\ Len(RemoveAt(s, i)) = Len(s) - 1
         /\ \A j \in 1 .. Len(s) - 1 :
              RemoveAt(s, i)[j] = IF j < i THEN s[j] ELSE s[j + 1]
<1> DEFINE front == SubSeq(s, 1, i - 1)
           back  == SubSeq(s, i + 1, Len(s))
<1>1. /\ front \in Seq(S)
      /\ Len(front) = i - 1
      /\ \A j \in 1 .. i - 1 : front[j] = s[j]
  BY SubSeqProperties
<1>2. /\ back \in Seq(S)
      /\ Len(back) = Len(s) - i
      /\ \A j \in 1 .. Len(s) - i : back[j] = s[i + j]
  BY SubSeqProperties
<1>3. RemoveAt(s, i) = front \o back
  BY DEF RemoveAt
<1> HIDE DEF front, back
<1>4. /\ front \o back \in Seq(S)
      /\ Len(front \o back) = Len(front) + Len(back)
      /\ \A j \in 1 .. Len(front) + Len(back) :
           (front \o back)[j] = IF j <= Len(front) THEN front[j]
                                ELSE back[j - Len(front)]
  BY <1>1, <1>2, ConcatProperties
<1>5. Len(front) = i - 1 /\ Len(back) = Len(s) - i /\ Len(s) \in Nat
  BY <1>1, <1>2
<1>6. ASSUME NEW j \in 1 .. Len(s) - 1
      PROVE  (front \o back)[j] = IF j < i THEN s[j] ELSE s[j + 1]
  <2>1. CASE j < i
    BY <1>1, <1>4, <1>5, <2>1
  <2>2. CASE ~ (j < i)
    <3>1. j - (i - 1) \in 1 .. Len(s) - i /\ i + (j - (i - 1)) = j + 1
      BY <1>5, <2>2
    <3>2. (front \o back)[j] = back[j - (i - 1)]
      BY <1>4, <1>5, <2>2
    <3> QED
      BY <1>2, <2>2, <3>1, <3>2
  <2> QED
    BY <2>1, <2>2
<1>7. Len(front \o back) = Len(s) - 1
  BY <1>4, <1>5
<1> QED
  BY <1>3, <1>4, <1>6, <1>7


(***************************************************************************)
(* The inductive invariant. Neither of its last two parts is inductive     *)
(* alone: that an assignment in place keeps the pairs distinct needs the   *)
(* list to be injective, and that a new object is complete and listed once *)
(* needs the list and the heap to agree.                                   *)
(***************************************************************************)
IInv == TypeOK /\ Ownership /\ BindingsUnique

\* Complete, blank and free blocks are told apart.
LEMMA ContentsDiffer == Blank \notin Entries /\ Free \notin Entries /\ Free # Blank
<1>1. Blank.naction \notin ActionIndex
  BY NumActionsAssumption DEF Blank, ActionIndex
<1>2. Blank \notin Entries
  BY <1>1 DEF Entries
<1> QED
  BY <1>2, FreeAssumption

\* What a position of the list stands for.
LEMMA Listed ==
  ASSUME IInv
  PROVE  /\ DOMAIN lactions = 1 .. Len(lactions)
         /\ Len(lactions) \in Nat
         /\ \A i \in DOMAIN lactions :
              lactions[i] \in Blocks /\ heap[lactions[i]] \in Entries
         /\ Contents \in Seq(Entries)
         /\ DOMAIN Contents = DOMAIN lactions
         /\ Len(Contents) = Len(lactions)
<1> USE DEF IInv, TypeOK
<1>1. DOMAIN lactions = 1 .. Len(lactions) /\ Len(lactions) \in Nat
  OBVIOUS
<1>2. ASSUME NEW i \in DOMAIN lactions
      PROVE  lactions[i] \in Blocks /\ heap[lactions[i]] \in Entries
  <2>1. lactions[i] \in Blocks
    BY <1>1
  <2>2. lactions[i] \in Range(lactions)
    BY DEF Range
  <2> QED
    BY <2>1, <2>2 DEF Ownership
<1>3. Contents \in Seq(Entries) /\ Len(Contents) = Len(lactions)
  BY <1>1, <1>2 DEF Contents
<1> QED
  BY <1>1, <1>2, <1>3 DEF Contents

LEMMA InitIInv == Init => IInv
<1> SUFFICES ASSUME Init PROVE IInv
  OBVIOUS
<1> USE DEF Init, EmptyHeap
<1>1. TypeOK
  BY EmptySeq DEF TypeOK
<1>2. Ownership
  BY ContentsDiffer DEF Ownership, IsInjective, Range
<1>3. BindingsUnique
  BY DEF BindingsUnique, PairsDistinct, Contents
<1> QED
  BY <1>1, <1>2, <1>3 DEF IInv

\* The end of the process leaves the saved entries, which are distinct.
LEMMA ProcessGoneStep ==
  ASSUME IInv, ProcessGone, doubleDelete' \in BOOLEAN
  PROVE  IInv'
<1> USE DEF ProcessGone, EmptyHeap, IInv
<1>1. TypeOK'
  BY EmptySeq DEF TypeOK
<1>2. Ownership'
  BY ContentsDiffer DEF Ownership, IsInjective, Range
<1>3. BindingsUnique'
  BY DEF BindingsUnique, PairsDistinct, Contents
<1> QED
  BY <1>1, <1>2, <1>3

\* A match of a lookup is an entry of the list with that pair.
LEMMA RemoteKeyHits ==
  ASSUME NEW kn, NEW rn
  PROVE  get_lactionbyremotekey(kn, rn) =
           {i \in DOMAIN lactions : Contents[i].kn = kn /\ Contents[i].rn = rn}
BY DEF get_lactionbyremotekey, get_lactionbykey, Contents

LEMMA AssignStep ==
  ASSUME IInv,
         NEW naction \in ActionIndex, NEW kn \in Keys, NEW rn \in Remotes,
         assignaction_to_remotekey(naction, kn, rn)
  PROVE  IInv'
<1> DEFINE hits  == get_lactionbyremotekey(kn, rn)
           entry == [kn |-> kn, rn |-> rn, naction |-> naction]
<1> USE Listed DEF IInv
<1>1. entry \in Entries /\ entry.kn = kn /\ entry.rn = rn
  BY DEF Entries
<1>2. UNCHANGED <<running, file, doubleDelete>>
  BY DEF assignaction_to_remotekey
<1>3. hits = {i \in DOMAIN lactions : Contents[i].kn = kn /\ Contents[i].rn = rn}
  BY RemoteKeyHits
<1>4. CASE hits # {}
  <2> DEFINE m == Min(hits)
  <2>0. hits \in SUBSET Nat /\ hits \subseteq DOMAIN lactions
    BY <1>3
  <2>1. m \in hits /\ m \in DOMAIN lactions
    <3> HIDE DEF hits
    <3> QED
      BY <1>4, <2>0, MinIsLeast
  <2>2. heap' = [heap EXCEPT ![lactions[m]] = entry] /\ lactions' = lactions
    BY <1>4 DEF assignaction_to_remotekey
  <2> HIDE DEF m, hits, entry
  <2>3. TypeOK'
    BY <1>1, <1>2, <2>1, <2>2 DEF TypeOK
  <2>4. Ownership'
    BY <1>1, <2>1, <2>2 DEF Ownership, IsInjective, TypeOK
  <2>5. \A i \in DOMAIN lactions :
          Contents'[i].kn = Contents[i].kn /\ Contents'[i].rn = Contents[i].rn
    BY <1>1, <1>3, <2>1, <2>2 DEF Contents, TypeOK
  <2>6. BindingsUnique'
    BY <1>2, <2>2, <2>5 DEF BindingsUnique, PairsDistinct, Contents
  <2> QED
    BY <2>3, <2>4, <2>6
<1>5. CASE hits = {}
  <2>1. PICK b \in Blocks : /\ heap[b] = Free
                            /\ heap' = [heap EXCEPT ![b] = entry]
                            /\ lactions' = Append(lactions, b)
    BY <1>5 DEF assignaction_to_remotekey
  <2> DEFINE n == Len(lactions)
  <2> HIDE DEF hits, entry
  <2>2. b \notin Range(lactions)
    BY <2>1, ContentsDiffer DEF Ownership
  <2>3. /\ lactions' \in Seq(Blocks)
        /\ DOMAIN lactions' = 1 .. n + 1
        /\ \A i \in 1 .. n : lactions'[i] = lactions[i]
        /\ lactions'[n + 1] = b
    BY <2>1, AppendProperties DEF TypeOK
  <2>4. TypeOK'
    BY <1>1, <1>2, <2>1, <2>3 DEF TypeOK
  <2>5. Range(lactions') = Range(lactions) \cup {b}
    BY <2>3 DEF Range
  <2>6. Ownership'
    <3>1. IsInjective(lactions')
      BY <2>2, <2>3 DEF Ownership, IsInjective, Range
    <3>2. \A c \in Blocks : heap'[c] \in Entries <=> c \in Range(lactions')
      BY <1>1, <2>1, <2>5 DEF Ownership, TypeOK
    <3> QED
      BY <3>1, <3>2 DEF Ownership
  <2>7. /\ \A i \in 1 .. n : Contents'[i] = Contents[i]
        /\ Contents'[n + 1] = entry
        /\ DOMAIN Contents' = 1 .. n + 1
    BY <2>1, <2>2, <2>3 DEF Contents, Range, TypeOK
  <2>8. PairsDistinct(Contents')
    <3>1. SUFFICES ASSUME NEW i \in 1 .. n + 1, NEW j \in 1 .. n + 1,
                          Contents'[i].kn = Contents'[j].kn,
                          Contents'[i].rn = Contents'[j].rn
                   PROVE  i = j
      BY <2>7 DEF PairsDistinct
    <3>2. \A k \in 1 .. n : ~ (Contents[k].kn = kn /\ Contents[k].rn = rn)
      BY <1>3, <1>5
    <3>3. CASE i \in 1 .. n /\ j \in 1 .. n
      BY <2>7, <3>1, <3>3 DEF BindingsUnique, PairsDistinct
    <3>4. CASE i = n + 1 \/ j = n + 1
      BY <1>1, <2>7, <3>1, <3>2, <3>4
    <3> QED
      BY <3>3, <3>4
  <2>9. BindingsUnique'
    BY <1>2, <2>8 DEF BindingsUnique
  <2> QED
    BY <2>4, <2>6, <2>9
<1> QED
  BY <1>4, <1>5

\* The first match of a lookup by action is a position of the list.
LEMMA FirstActionHit ==
  ASSUME IInv, NEW naction, get_lactionbyactionindex(naction) # {}
  PROVE  /\ Min(get_lactionbyactionindex(naction)) \in DOMAIN lactions
         /\ Min(get_lactionbyactionindex(naction)) \in 1 .. Len(lactions)
<1> DEFINE hits == get_lactionbyactionindex(naction)
<1>1. hits \in SUBSET Nat /\ hits \subseteq DOMAIN lactions
  BY Listed DEF get_lactionbyactionindex
<1>2. Min(hits) \in hits
  <2> HIDE DEF hits
  <2> QED
    BY <1>1, MinIsLeast DEF hits
<1> QED
  BY <1>1, <1>2, Listed

LEMMA DeleteStep ==
  ASSUME IInv, NEW naction \in ActionIndex, delete_lactionbyindex(naction)
  PROVE  IInv'
<1> DEFINE m == Min(get_lactionbyactionindex(naction))
           n == Len(lactions)
<1>1. doubleDelete' \in BOOLEAN
  BY DEF delete_lactionbyindex
<1>2. CASE ProcessGone
  BY <1>1, <1>2, ProcessGoneStep
<1>3. CASE /\ heap' = [heap EXCEPT ![lactions[m]] = Free]
           /\ lactions' = RemoveAt(lactions, m)
           /\ UNCHANGED <<running, file>>
  <2>1. m \in 1 .. n /\ n \in Nat
    BY FirstActionHit, Listed DEF delete_lactionbyindex
  <2> HIDE DEF m
  <2> USE DEF IInv
  <2>2. /\ lactions' \in Seq(Blocks)
        /\ DOMAIN lactions' = 1 .. n - 1
        /\ \A j \in 1 .. n - 1 :
             lactions'[j] = IF j < m THEN lactions[j] ELSE lactions[j + 1]
    <3>1. /\ RemoveAt(lactions, m) \in Seq(Blocks)
          /\ Len(RemoveAt(lactions, m)) = n - 1
          /\ \A j \in 1 .. n - 1 : RemoveAt(lactions, m)[j] =
               IF j < m THEN lactions[j] ELSE lactions[j + 1]
      BY <2>1, RemoveAtProperties DEF TypeOK
    <3> QED
      BY <1>3, <3>1
  <2> DEFINE old(j) == IF j < m THEN j ELSE j + 1
  <2>3. \A j \in 1 .. n - 1 : old(j) \in 1 .. n /\ old(j) # m
    BY <2>1
  <2>4. \A j \in 1 .. n - 1 : lactions'[j] = lactions[old(j)]
    BY <2>2
  <2>5. \A i \in 1 .. n : i # m => \E j \in 1 .. n - 1 : old(j) = i
    <3>1. SUFFICES ASSUME NEW i \in 1 .. n, i # m
                   PROVE  \E j \in 1 .. n - 1 : old(j) = i
      OBVIOUS
    <3>2. CASE i < m
      <4>1. i \in 1 .. n - 1 /\ old(i) = i
        BY <2>1, <3>1, <3>2
      <4> QED
        BY <4>1
    <3>3. CASE m < i
      <4>1. i - 1 \in 1 .. n - 1 /\ old(i - 1) = i
        BY <2>1, <3>1, <3>3
      <4> QED
        BY <4>1
    <3> QED
      BY <2>1, <3>1, <3>2, <3>3
  <2>6. \A j, k \in 1 .. n - 1 : old(j) = old(k) => j = k
    BY <2>1
  <2>7. lactions[m] \in Blocks /\ DOMAIN lactions = 1 .. n
    BY <2>1, Listed
  <2>8. TypeOK'
    BY <1>1, <1>3, <2>2, <2>7 DEF TypeOK
  <2> HIDE DEF old
  <2>9. IsInjective(lactions')
    BY <2>2, <2>3, <2>4, <2>6, <2>7 DEF Ownership, IsInjective
  <2>10. Range(lactions') = Range(lactions) \ {lactions[m]}
    <3>1. \A j \in 1 .. n - 1 : lactions'[j] \in Range(lactions) \ {lactions[m]}
      BY <2>1, <2>3, <2>4, <2>7 DEF Ownership, IsInjective, Range
    <3>2. \A i \in 1 .. n : i # m => lactions[i] \in Range(lactions')
      BY <2>2, <2>4, <2>5 DEF Range
    <3> QED
      BY <2>2, <2>7, <3>1, <3>2 DEF Range
  <2>11. Ownership'
    BY <1>3, <2>7, <2>9, <2>10, ContentsDiffer DEF Ownership, TypeOK
  <2>12. \A j \in 1 .. n - 1 : Contents'[j] = Contents[old(j)]
    <3>1. \A j \in 1 .. n - 1 : lactions[old(j)] # lactions[m]
      BY <2>1, <2>3, <2>7 DEF Ownership, IsInjective
    <3>2. \A j \in 1 .. n - 1 : heap'[lactions'[j]] = heap[lactions[old(j)]]
      BY <1>3, <2>3, <2>4, <2>7, <3>1, Listed DEF TypeOK
    <3> QED
      BY <2>2, <2>3, <2>7, <3>2 DEF Contents
  <2>13. DOMAIN Contents' = 1 .. n - 1 /\ DOMAIN Contents = 1 .. n
    BY <2>2, <2>7 DEF Contents
  <2>14. BindingsUnique'
    <3>1. PairsDistinct(Contents')
      BY <2>3, <2>6, <2>12, <2>13 DEF BindingsUnique, PairsDistinct
    <3> QED
      BY <1>3, <3>1 DEF BindingsUnique
  <2> QED
    BY <2>8, <2>11, <2>14
<1> QED
  BY <1>2, <1>3 DEF delete_lactionbyindex

LEMMA DeleteAllStep ==
  ASSUME IInv, delete_all
  PROVE  IInv'
<1>1. doubleDelete' \in BOOLEAN
  BY DEF delete_all
<1>2. CASE ProcessGone
  BY <1>1, <1>2, ProcessGoneStep
<1>3. CASE /\ heap' = [b \in Blocks |->
                         IF b \in Range(lactions) THEN Free ELSE heap[b]]
           /\ lactions' = <<>>
           /\ UNCHANGED <<running, file>>
  <2> USE DEF IInv
  <2>1. TypeOK'
    BY <1>1, <1>3, EmptySeq DEF TypeOK
  <2>2. Ownership'
    BY <1>3, ContentsDiffer DEF Ownership, TypeOK, IsInjective, Range
  <2>3. BindingsUnique'
    BY <1>3 DEF BindingsUnique, PairsDistinct, Contents
  <2> QED
    BY <2>1, <2>2, <2>3
<1> QED
  BY <1>2, <1>3 DEF delete_all

LEMMA SaveStep ==
  ASSUME IInv, get_data_raw
  PROVE  IInv'
<1> USE DEF IInv
<1>1. file' = Contents /\ UNCHANGED <<running, lactions, heap, doubleDelete>>
  BY DEF get_data_raw, Contents
<1>2. TypeOK'
  BY <1>1, Listed DEF TypeOK
<1>3. Ownership'
  BY <1>1 DEF Ownership
<1>4. Contents' = Contents
  BY <1>1 DEF Contents
<1>5. BindingsUnique'
  BY <1>1, <1>4 DEF BindingsUnique
<1> QED
  BY <1>2, <1>3, <1>5

\* What a read of the first n entries leaves, whether it ends there or
\* throws there with an object in unlisted that is not on the list.
LEMMA ReadResult ==
  ASSUME IInv, NEW n \in 0 .. Len(file), NEW unlisted \in SUBSET Blocks,
         ReadEntries(n, unlisted)
  PROVE  /\ lactions' \in Seq(Blocks)
         /\ DOMAIN lactions' = 1 .. n
         /\ IsInjective(lactions')
         /\ Range(lactions') \cap unlisted = {}
         /\ \A i \in 1 .. n : heap'[lactions'[i]] = file[i]
         /\ \A b \in unlisted : heap'[b] = Blank
         /\ \A b \in Blocks \ unlisted : b \notin Range(lactions') => heap'[b] = Free
         /\ heap' \in [Blocks -> Entries \cup {Blank, Free}]
         /\ running' = TRUE
         /\ UNCHANGED <<file, doubleDelete>>
<1> USE DEF IInv, TypeOK
<1>1. PICK loaded \in Injection(1 .. n, Blocks \ unlisted) :
        /\ running' = TRUE
        /\ lactions' = loaded
        /\ heap' = [b \in Blocks |->
                      IF b \in unlisted THEN Blank
                      ELSE IF b \in Range(loaded)
                           THEN file[CHOOSE i \in 1 .. n : loaded[i] = b]
                           ELSE Free]
        /\ UNCHANGED <<file, doubleDelete>>
  BY DEF ReadEntries
<1>2. loaded \in [1 .. n -> Blocks \ unlisted] /\ IsInjective(loaded)
  BY DEF Injection
<1>3. loaded \in Seq(Blocks) /\ DOMAIN loaded = 1 .. n
  <2>1. n \in Nat
    OBVIOUS
  <2>2. loaded \in [1 .. n -> Blocks]
    BY <1>2
  <2> QED
    BY <2>1, <2>2
<1>4. \A i \in 1 .. n : (CHOOSE j \in 1 .. n : loaded[j] = loaded[i]) = i
  BY <1>2, <1>3 DEF IsInjective
<1>5. \A i \in 1 .. n : loaded[i] \in Range(loaded) /\ loaded[i] \in Blocks \ unlisted
  BY <1>2, <1>3 DEF Range
<1>6. \A i \in 1 .. n : heap'[loaded[i]] = file[i]
  BY <1>1, <1>4, <1>5
<1>7. \A b \in Range(loaded) : \E i \in 1 .. n : b = loaded[i]
  BY <1>3 DEF Range
<1>8. \A i \in 1 .. n : file[i] \in Entries
  OBVIOUS
<1>9. \A b \in Blocks : heap'[b] \in Entries \cup {Blank, Free}
  <2>1. SUFFICES ASSUME NEW b \in Blocks PROVE heap'[b] \in Entries \cup {Blank, Free}
    OBVIOUS
  <2>2. CASE b \in unlisted
    BY <1>1, <2>2
  <2>3. CASE b \notin unlisted /\ b \in Range(loaded)
    BY <1>6, <1>7, <1>8, <2>3
  <2>4. CASE b \notin unlisted /\ b \notin Range(loaded)
    BY <1>1, <2>4
  <2> QED
    BY <2>2, <2>3, <2>4
<1>10. heap' \in [Blocks -> Entries \cup {Blank, Free}]
  BY <1>1, <1>9
<1>11. Range(loaded) \cap unlisted = {}
  BY <1>5, <1>7
<1> QED
  BY <1>1, <1>2, <1>3, <1>6, <1>10, <1>11

LEMMA ReadStep ==
  ASSUME IInv, NEW n \in 0 .. Len(file), NEW unlisted \in SUBSET Blocks,
         ReadEntries(n, unlisted)
  PROVE  IInv'
<1> USE ReadResult DEF IInv
<1>1. TypeOK'
  BY DEF TypeOK
<1>2. \A i \in 1 .. n : file[i] \in Entries /\ i \in DOMAIN file
  BY DEF TypeOK
<1>3. \A b \in Range(lactions') : heap'[b] \in Entries
  <2>1. \A b \in Range(lactions') : \E i \in 1 .. n : b = lactions'[i]
    BY DEF Range
  <2>2. \A i \in 1 .. n : heap'[lactions'[i]] \in Entries
    BY <1>2
  <2> QED
    BY <2>1, <2>2
<1>4. \A b \in Blocks : b \notin Range(lactions') => heap'[b] \notin Entries
  BY ContentsDiffer
<1>5. Ownership'
  BY <1>3, <1>4 DEF Ownership
<1>6. DOMAIN Contents' = 1 .. n /\ \A i \in 1 .. n : Contents'[i] = file[i]
  BY DEF Contents
<1>7. PairsDistinct(Contents')
  BY <1>2, <1>6 DEF BindingsUnique, PairsDistinct
<1>8. BindingsUnique'
  BY <1>7 DEF BindingsUnique
<1> QED
  BY <1>1, <1>5, <1>8

\* The guard of a truncated read: it reads n entries, and fewer than all.
LEMMA TruncatedRead ==
  ASSUME IInv, set_data_raw_throws
  PROVE  \E n \in 0 .. Len(file), unlisted \in SUBSET Blocks :
           ReadEntries(n, unlisted)
<1>1. Len(file) \in Nat
  BY DEF IInv, TypeOK
<1>2. CASE ReadEntries(0, {})
  BY <1>1, <1>2
<1>3. CASE \E n \in 0 .. Len(file) - 1, b \in Blocks : ReadEntries(n, {b})
  <2>1. PICK n \in 0 .. Len(file) - 1, b \in Blocks : ReadEntries(n, {b})
    BY <1>3
  <2>2. n \in 0 .. Len(file) /\ {b} \in SUBSET Blocks
    BY <1>1
  <2> QED
    BY <2>1, <2>2
<1> QED
  BY <1>2, <1>3 DEF set_data_raw_throws

LEMMA NextIInv == IInv /\ [Next]_vars => IInv'
<1> SUFFICES ASSUME IInv, [Next]_vars PROVE IInv'
  OBVIOUS
<1>1. CASE set_data_raw
  <2>1. Len(file) \in 0 .. Len(file)
    BY DEF IInv, TypeOK
  <2> QED
    BY <1>1, <2>1, ReadStep DEF set_data_raw
<1>2. CASE set_data_raw_throws
  BY <1>2, TruncatedRead, ReadStep
<1>3. CASE \E naction \in ActionIndex, kn \in Keys, rn \in Remotes :
             assignaction_to_remotekey(naction, kn, rn)
  BY <1>3, AssignStep
<1>4. CASE \E naction \in ActionIndex : delete_lactionbyindex(naction)
  BY <1>4, DeleteStep
<1>5. CASE delete_all
  BY <1>5, DeleteAllStep
<1>6. CASE get_data_raw
  BY <1>6, SaveStep
<1>7. CASE Exit
  <2>1. doubleDelete' \in BOOLEAN
    BY <1>7 DEF Exit, IInv, TypeOK
  <2> QED
    BY <1>7, <2>1, ProcessGoneStep DEF Exit
<1>8. CASE UNCHANGED vars
  <2>1. Contents' = Contents
    BY <1>8 DEF vars, Contents
  <2> QED
    BY <1>8, <2>1 DEF vars, IInv, TypeOK, Ownership, BindingsUnique
<1> QED
  BY <1>1, <1>2, <1>3, <1>4, <1>5, <1>6, <1>7, <1>8 DEF Next

LEMMA SpecIInv == Spec => []IInv
<1>1. Init => IInv
  BY InitIInv
<1>2. IInv /\ [Next]_vars => IInv'
  BY NextIInv
<1> QED
  BY <1>1, <1>2, PTL DEF Spec

(***************************************************************************)
(* Every variable keeps its type in every state of the specification; in   *)
(* particular what is saved is a list of complete entries, whatever reads  *)
(* of a truncated configuration came before.                               *)
(***************************************************************************)
THEOREM TypeCorrect == Spec => []TypeOK
<1>1. IInv => TypeOK
  BY DEF IInv
<1> QED
  BY <1>1, SpecIInv, PTL

(***************************************************************************)
(* The list owns its objects: a pointer the lookups of cfg_actions return  *)
(* is to an object that is alive and complete, and is on the list once.    *)
(***************************************************************************)
THEOREM ListOwnsObjects == Spec => []Ownership
<1>1. IInv => Ownership
  BY DEF IInv
<1> QED
  BY <1>1, SpecIInv, PTL

(***************************************************************************)
(* No pair is assigned twice, in the list and in the saved configuration:  *)
(* no entry is hidden from get_lactionbyremotekey by an earlier one.       *)
(***************************************************************************)
THEOREM PairsAssignedOnce == Spec => []BindingsUnique
<1>1. IInv => BindingsUnique
  BY DEF IInv
<1> QED
  BY <1>1, SpecIInv, PTL

-----------------------------------------------------------------------------
(***************************************************************************)
(* ActionMap implements KeyMap: the list of cfg_actions, seen through its  *)
(* lookups, is a map from pairs to actions. Each step of the list is one   *)
(* step of the map.                                                        *)
(***************************************************************************)

(***************************************************************************)
(* What a list of distinct pairs stands for.                               *)
(***************************************************************************)

\* A listed pair has the action of its entry, whatever its position.
LEMMA ActionOfListed ==
  ASSUME NEW e \in Seq(Entries), PairsDistinct(e), NEW i \in DOMAIN e, NEW p,
         e[i].kn = p[1], e[i].rn = p[2]
  PROVE  ActionOf(e, p) = e[i].naction
<1> DEFINE hits == {j \in DOMAIN e : e[j].kn = p[1] /\ e[j].rn = p[2]}
<1>1. hits = {i}
  BY DEF PairsDistinct
<1>2. Min(hits) = i
  <2>1. {i} \in SUBSET Nat
    OBVIOUS
  <2>2. Min({i}) \in {i}
    BY <2>1, MinIsLeast
  <2> QED
    BY <1>1, <2>2
<1> QED
  BY <1>1, <1>2 DEF ActionOf

\* A pair of no entry has no action.
LEMMA ActionOfUnlisted ==
  ASSUME NEW e, NEW p, \A i \in DOMAIN e : ~ (e[i].kn = p[1] /\ e[i].rn = p[2])
  PROVE  ActionOf(e, p) = -1
BY DEF ActionOf

\* The entry of a pair and an action.
EntryOf(p, a) == [kn |-> p[1], rn |-> p[2], naction |-> a]

\* The bindings of a list depend on the entries in it, not on their order.
LEMMA ActionOfEntry ==
  ASSUME NEW e \in Seq(Entries), PairsDistinct(e), NEW p \in Keys \X Remotes
  PROVE  /\ ActionOf(e, p) \in ActionIndex \cup {-1}
         /\ \A a \in ActionIndex : ActionOf(e, p) = a <=> EntryOf(p, a) \in Range(e)
<1>1. -1 \notin ActionIndex
  BY DEF ActionIndex
<1>2. \A i \in DOMAIN e : e[i] \in Entries /\ e[i].naction \in ActionIndex
  <2>1. \A i \in DOMAIN e : e[i] \in Entries
    OBVIOUS
  <2> QED
    BY <2>1 DEF Entries
<1>3. CASE \E i \in DOMAIN e : e[i].kn = p[1] /\ e[i].rn = p[2]
  <2>1. PICK i \in DOMAIN e : e[i].kn = p[1] /\ e[i].rn = p[2]
    BY <1>3
  <2>2. ActionOf(e, p) = e[i].naction
    BY <2>1, ActionOfListed
  <2>3. e[i] = EntryOf(p, e[i].naction)
    BY <1>2, <2>1 DEF Entries, EntryOf
  <2>4. e[i] \in Range(e)
    BY DEF Range
  <2>5. ASSUME NEW a \in ActionIndex, EntryOf(p, a) \in Range(e)
        PROVE  e[i].naction = a
    <3>1. PICK j \in DOMAIN e : e[j] = EntryOf(p, a)
      BY <2>5 DEF Range
    <3>2. e[j].kn = p[1] /\ e[j].rn = p[2] /\ e[j].naction = a
      BY <3>1 DEF EntryOf
    <3>3. i = j
      BY <2>1, <3>2 DEF PairsDistinct
    <3> QED
      BY <3>2, <3>3
  <2> QED
    BY <1>2, <2>2, <2>3, <2>4, <2>5
<1>4. CASE ~ \E i \in DOMAIN e : e[i].kn = p[1] /\ e[i].rn = p[2]
  <2>1. ActionOf(e, p) = -1
    BY <1>4, ActionOfUnlisted
  <2>2. \A a : EntryOf(p, a) \notin Range(e)
    <3>1. SUFFICES ASSUME NEW a, NEW j \in DOMAIN e, e[j] = EntryOf(p, a)
                   PROVE  FALSE
      BY DEF Range
    <3>2. e[j].kn = p[1] /\ e[j].rn = p[2]
      BY <3>1 DEF EntryOf
    <3> QED
      BY <1>4, <3>2
  <2> QED
    BY <1>1, <2>1, <2>2
<1> QED
  BY <1>3, <1>4

\* Two lists with the same entries for a pair give it the same action.
LEMMA SameEntriesSameAction ==
  ASSUME NEW e \in Seq(Entries), PairsDistinct(e),
         NEW f \in Seq(Entries), PairsDistinct(f),
         NEW p \in Keys \X Remotes,
         \A a \in ActionIndex : EntryOf(p, a) \in Range(e) <=> EntryOf(p, a) \in Range(f)
  PROVE  ActionOf(e, p) = ActionOf(f, p)
<1>1. /\ ActionOf(e, p) \in ActionIndex \cup {-1}
      /\ ActionOf(f, p) \in ActionIndex \cup {-1}
  BY ActionOfEntry
<1>2. \A a \in ActionIndex : ActionOf(e, p) = a <=> ActionOf(f, p) = a
  BY ActionOfEntry
<1> QED
  BY <1>1, <1>2

\* The lists of two adjacent states are lists of distinct, complete entries.
ListedComplete == Contents \in Seq(Entries)

LEMMA ListsOfEntries ==
  IInv /\ IInv' =>
    /\ Contents \in Seq(Entries) /\ PairsDistinct(Contents)
    /\ Contents' \in Seq(Entries) /\ PairsDistinct(Contents')
    /\ file \in Seq(Entries) /\ PairsDistinct(file)
<1>1. IInv => ListedComplete
  BY Listed DEF ListedComplete
<1>2. IInv' => ListedComplete'
  BY <1>1, PTL
<1> QED
  BY <1>1, <1>2 DEF IInv, TypeOK, BindingsUnique, ListedComplete

LEMMA NothingListed == Bindings(<<>>) = Map!Nothing
<1>1. \A p \in Keys \X Remotes : ActionOf(<<>>, p) = -1
  BY ActionOfUnlisted
<1> QED
  BY <1>1 DEF Bindings, Map!Nothing

(***************************************************************************)
(* Outside a process nothing is assigned: a start reads into an empty list.*)
(***************************************************************************)
Idle == ~running => lactions = <<>>

LEMMA SpecIdle == Spec => []Idle
<1>1. Init => Idle
  BY DEF Init, Idle
<1>2. Idle /\ [Next]_vars => Idle'
  <2> SUFFICES ASSUME Idle, [Next]_vars PROVE Idle'
    OBVIOUS
  <2>1. CASE set_data_raw \/ set_data_raw_throws
    BY <2>1 DEF set_data_raw, set_data_raw_throws, ReadEntries, Idle
  <2>2. CASE ProcessGone
    BY <2>2 DEF ProcessGone, Idle
  <2>3. CASE running /\ running' = running
    BY <2>3 DEF Idle
  <2>4. CASE UNCHANGED vars
    BY <2>4 DEF vars, Idle
  <2> QED
    BY <2>1, <2>2, <2>3, <2>4
    DEF Next, assignaction_to_remotekey, delete_lactionbyindex, delete_all,
        get_data_raw, Exit
<1> QED
  BY <1>1, <1>2, PTL DEF Spec

(***************************************************************************)
(* One lemma for each step of the map.                                     *)
(***************************************************************************)

LEMMA InitMaps == Init => Map!Init
<1> SUFFICES ASSUME Init PROVE Map!Init
  OBVIOUS
<1>1. Contents = <<>> /\ file = <<>>
  BY DEF Init, Contents
<1> QED
  BY <1>1, NothingListed DEF Map!Init

LEMMA ForgetMaps ==
  ASSUME lactions' = <<>>, UNCHANGED file
  PROVE  Map!Forget
<1>1. Contents' = <<>>
  BY DEF Contents
<1>2. Bindings(Contents)' = Map!Nothing
  BY <1>1, NothingListed DEF Bindings, ActionOf
<1>3. Bindings(file)' = Bindings(file)
  BY DEF Bindings, ActionOf
<1> QED
  BY <1>2, <1>3 DEF Map!Forget

LEMMA SaveMaps ==
  ASSUME get_data_raw
  PROVE  Map!Save
<1>1. file' = Contents /\ Contents' = Contents
  BY DEF get_data_raw, Contents
<1>2. Bindings(file)' = Bindings(Contents) /\ Bindings(Contents)' = Bindings(Contents)
  BY <1>1 DEF Bindings, ActionOf
<1> QED
  BY <1>2 DEF Map!Save

LEMMA AssignMaps ==
  ASSUME IInv, IInv',
         NEW naction \in ActionIndex, NEW kn \in Keys, NEW rn \in Remotes,
         assignaction_to_remotekey(naction, kn, rn)
  PROVE  Map!Assign(<<kn, rn>>, naction)
<1> DEFINE hits  == get_lactionbyremotekey(kn, rn)
           entry == [kn |-> kn, rn |-> rn, naction |-> naction]
           p0    == <<kn, rn>>
           n     == Len(lactions)
<1>1. UNCHANGED file
  BY DEF assignaction_to_remotekey
<1>2. hits = {i \in DOMAIN lactions : Contents[i].kn = kn /\ Contents[i].rn = rn}
  BY RemoteKeyHits
<1>3. DOMAIN Contents = 1 .. n /\ n \in Nat /\ DOMAIN lactions = 1 .. n
  BY Listed
<1>4. entry = EntryOf(p0, naction)
  BY DEF EntryOf
\* The entry of the pair is there afterwards, and no other entry changed.
<1>5. /\ entry \in Range(Contents')
      /\ \A p \in Keys \X Remotes, a \in ActionIndex :
           p # p0 => (EntryOf(p, a) \in Range(Contents) <=>
                      EntryOf(p, a) \in Range(Contents'))
  <2>1. \A p \in Keys \X Remotes, a \in ActionIndex :
          p # p0 => ~ (EntryOf(p, a).kn = kn /\ EntryOf(p, a).rn = rn)
    BY DEF EntryOf
  <2>2. CASE hits # {}
    <3> DEFINE m == Min(hits)
    <3>1. hits \in SUBSET Nat /\ hits \subseteq DOMAIN lactions
      BY <1>2, <1>3
    <3>2. m \in hits
      <4> HIDE DEF hits
      <4> QED
        BY <2>2, <3>1, MinIsLeast
    <3>3. heap' = [heap EXCEPT ![lactions[m]] = entry] /\ lactions' = lactions
      BY <2>2 DEF assignaction_to_remotekey
    <3>4. m \in 1 .. n /\ Contents[m].kn = kn /\ Contents[m].rn = rn
      BY <1>2, <1>3, <3>2
    <3> HIDE DEF m, hits, entry
    <3>5. /\ DOMAIN Contents' = 1 .. n
          /\ Contents'[m] = entry
          /\ \A i \in 1 .. n : i # m => Contents'[i] = Contents[i]
      BY <1>3, <3>3, <3>4, Listed
      DEF Contents, IInv, TypeOK, Ownership, IsInjective
    <3>6. \A p \in Keys \X Remotes, a \in ActionIndex :
            p # p0 => EntryOf(p, a) # Contents[m] /\ EntryOf(p, a) # entry
      BY <2>1, <3>4 DEF entry
    <3> QED
      BY <1>3, <3>4, <3>5, <3>6 DEF Range
  <2>3. CASE hits = {}
    <3>1. PICK b \in Blocks : /\ heap[b] = Free
                              /\ heap' = [heap EXCEPT ![b] = entry]
                              /\ lactions' = Append(lactions, b)
      BY <2>3 DEF assignaction_to_remotekey
    <3> HIDE DEF hits, entry
    <3>2. b \notin Range(lactions)
      BY <3>1, ContentsDiffer DEF IInv, Ownership
    <3>3. /\ DOMAIN lactions' = 1 .. n + 1
          /\ \A i \in 1 .. n : lactions'[i] = lactions[i]
          /\ lactions'[n + 1] = b
      BY <3>1, AppendProperties DEF IInv, TypeOK
    <3>4. /\ DOMAIN Contents' = 1 .. n + 1
          /\ Contents'[n + 1] = entry
          /\ \A i \in 1 .. n : Contents'[i] = Contents[i]
      BY <1>3, <3>1, <3>2, <3>3, Listed DEF Contents, Range, IInv, TypeOK
    <3>5. \A p \in Keys \X Remotes, a \in ActionIndex :
            p # p0 => EntryOf(p, a) # entry
      BY <2>1 DEF entry
    <3> QED
      BY <1>3, <3>4, <3>5 DEF Range
  <2> QED
    BY <2>2, <2>3
<1> HIDE DEF hits, entry
<1>6. p0 \in Keys \X Remotes
  OBVIOUS
<1>7. ASSUME NEW p \in Keys \X Remotes
      PROVE  ActionOf(Contents', p) = IF p = p0 THEN naction ELSE ActionOf(Contents, p)
  <2>1. CASE p = p0
    BY <1>4, <1>5, <2>1, ListsOfEntries, ActionOfEntry
  <2>2. CASE p # p0
    BY <1>5, <2>2, ListsOfEntries, SameEntriesSameAction
  <2> QED
    BY <2>1, <2>2
<1>8. Bindings(Contents)' = [Bindings(Contents) EXCEPT ![p0] = naction]
  BY <1>6, <1>7 DEF Bindings, ActionOf
<1>9. Bindings(file)' = Bindings(file)
  BY <1>1 DEF Bindings, ActionOf
<1> QED
  BY <1>8, <1>9 DEF Map!Assign

\* Taking out a listed entry takes its pair out of the map.
LEMMA DeleteMaps ==
  ASSUME IInv, IInv', NEW naction \in ActionIndex,
         get_lactionbyactionindex(naction) # {},
         heap' = [heap EXCEPT
                    ![lactions[Min(get_lactionbyactionindex(naction))]] = Free],
         lactions' = RemoveAt(lactions, Min(get_lactionbyactionindex(naction))),
         UNCHANGED file
  PROVE  \E p \in Keys \X Remotes : Map!Remove(p)
<1> DEFINE m  == Min(get_lactionbyactionindex(naction))
           n  == Len(lactions)
           p0 == <<Contents[m].kn, Contents[m].rn>>
<1>1. m \in 1 .. n /\ n \in Nat /\ DOMAIN Contents = 1 .. n /\ DOMAIN lactions = 1 .. n
  BY FirstActionHit, Listed
<1>2. Contents[m] \in Entries
  BY <1>1, ListsOfEntries
<1>3. /\ p0 \in Keys \X Remotes
      /\ Contents[m].naction \in ActionIndex
      /\ Contents[m] = EntryOf(p0, Contents[m].naction)
  BY <1>2 DEF Entries, EntryOf
<1> HIDE DEF m
\* The entries afterwards are those before without the one taken out.
<1>4. Range(Contents') = Range(Contents) \ {Contents[m]}
  <2>1. /\ DOMAIN lactions' = 1 .. n - 1
        /\ \A j \in 1 .. n - 1 :
             lactions'[j] = IF j < m THEN lactions[j] ELSE lactions[j + 1]
    <3>1. /\ RemoveAt(lactions, m) \in Seq(Blocks)
          /\ Len(RemoveAt(lactions, m)) = n - 1
          /\ \A j \in 1 .. n - 1 : RemoveAt(lactions, m)[j] =
               IF j < m THEN lactions[j] ELSE lactions[j + 1]
      BY <1>1, RemoveAtProperties DEF IInv, TypeOK
    <3> QED
      BY <3>1 DEF m
  <2> DEFINE old(j) == IF j < m THEN j ELSE j + 1
  <2>2. \A j \in 1 .. n - 1 : old(j) \in 1 .. n /\ old(j) # m
    BY <1>1
  <2>3. \A i \in 1 .. n : i # m => \E j \in 1 .. n - 1 : old(j) = i
    <3>1. SUFFICES ASSUME NEW i \in 1 .. n, i # m
                   PROVE  \E j \in 1 .. n - 1 : old(j) = i
      OBVIOUS
    <3>2. CASE i < m
      <4>1. i \in 1 .. n - 1 /\ old(i) = i
        BY <1>1, <3>1, <3>2
      <4> QED
        BY <4>1
    <3>3. CASE ~ (i < m)
      <4>1. i - 1 \in 1 .. n - 1 /\ old(i - 1) = i
        BY <1>1, <3>1, <3>3
      <4> QED
        BY <4>1
    <3> QED
      BY <3>2, <3>3
  <2>4. \A j \in 1 .. n - 1 : lactions'[j] = lactions[old(j)]
    BY <2>1
  <2> HIDE DEF old
  <2>5. heap' = [heap EXCEPT ![lactions[m]] = Free]
    BY DEF m
  <2>6. \A j \in 1 .. n - 1 : lactions[old(j)] # lactions[m] /\ lactions[old(j)] \in Blocks
    BY <1>1, <2>2, Listed DEF IInv, Ownership, IsInjective
  <2>7. \A j \in 1 .. n - 1 : Contents'[j] = Contents[old(j)]
    BY <1>1, <2>1, <2>2, <2>4, <2>5, <2>6 DEF Contents, IInv, TypeOK
  <2>8. DOMAIN Contents' = 1 .. n - 1
    BY <2>1 DEF Contents
  <2>9. \A i \in 1 .. n : Contents[i] = Contents[m] => i = m
    BY <1>1, ListsOfEntries DEF PairsDistinct
  <2>10. \A j \in 1 .. n - 1 : Contents'[j] \in Range(Contents) \ {Contents[m]}
    BY <1>1, <2>2, <2>7, <2>9 DEF Range
  <2>11. \A i \in 1 .. n : i # m => Contents[i] \in Range(Contents')
    BY <2>3, <2>7, <2>8 DEF Range
  <2> QED
    BY <1>1, <2>8, <2>10, <2>11 DEF Range
<1> HIDE DEF p0
<1>5. ActionOf(Contents, p0) = Contents[m].naction
  <2>1. Contents[m] \in Range(Contents)
    BY <1>1 DEF Range
  <2> QED
    BY <1>3, <2>1, ListsOfEntries, ActionOfEntry
<1>6. ActionOf(Contents', p0) = -1
  <2>1. SUFFICES ASSUME NEW a \in ActionIndex, EntryOf(p0, a) \in Range(Contents')
                 PROVE  FALSE
    BY <1>3, ListsOfEntries, ActionOfEntry
  <2>2. EntryOf(p0, a) \in Range(Contents) /\ EntryOf(p0, a) # Contents[m]
    BY <1>4, <2>1
  <2>3. a = Contents[m].naction
    BY <1>3, <1>5, <2>2, ListsOfEntries, ActionOfEntry
  <2> QED
    BY <1>3, <2>2, <2>3
<1>7. ASSUME NEW p \in Keys \X Remotes, p # p0
      PROVE  ActionOf(Contents', p) = ActionOf(Contents, p)
  <2>1. \A a \in ActionIndex : EntryOf(p, a) # Contents[m]
    <3>1. p = <<p[1], p[2]>>
      OBVIOUS
    <3> QED
      BY <1>7, <3>1 DEF EntryOf, p0
  <2> QED
    BY <1>4, <2>1, ListsOfEntries, SameEntriesSameAction
<1>8. Bindings(Contents)' = [Bindings(Contents) EXCEPT ![p0] = -1]
  BY <1>3, <1>6, <1>7 DEF Bindings, ActionOf
<1>9. Bindings(file)' = Bindings(file)
  BY DEF Bindings, ActionOf
<1>10. Bindings(Contents)[p0] # -1
  BY <1>3, <1>5 DEF Bindings, ActionIndex
<1>11. Map!Remove(p0)
  BY <1>8, <1>9, <1>10 DEF Map!Remove
<1> QED
  BY <1>3, <1>11

\* What a start brings back is what was saved, for the pairs it could read.
LEMMA ReadMaps ==
  ASSUME IInv, IInv', Idle, ~running,
         NEW n \in 0 .. Len(file), NEW unlisted \in SUBSET Blocks,
         ReadEntries(n, unlisted)
  PROVE  \E S \in SUBSET (Keys \X Remotes) : Map!Restore(S)
<1> DEFINE S == {p \in Keys \X Remotes :
                   \E i \in 1 .. n : file[i].kn = p[1] /\ file[i].rn = p[2]}
<1>1. DOMAIN file = 1 .. Len(file) /\ Len(file) \in Nat /\ 1 .. n \subseteq DOMAIN file
  BY DEF IInv, TypeOK
<1>2. DOMAIN Contents' = 1 .. n /\ \A i \in 1 .. n : Contents'[i] = file[i]
  BY ReadResult DEF Contents
<1>3. ASSUME NEW p \in S
      PROVE  ActionOf(Contents', p) = ActionOf(file, p)
  <2>1. PICK i \in 1 .. n : file[i].kn = p[1] /\ file[i].rn = p[2]
    OBVIOUS
  <2>2. ActionOf(file, p) = file[i].naction
    BY <1>1, <2>1, ListsOfEntries, ActionOfListed
  <2>3. ActionOf(Contents', p) = Contents'[i].naction
    <3>1. i \in DOMAIN Contents' /\ Contents'[i].kn = p[1] /\ Contents'[i].rn = p[2]
      BY <1>2, <2>1
    <3>2. Contents' \in Seq(Entries) /\ PairsDistinct(Contents')
      BY ListsOfEntries
    <3> QED
      BY <3>1, <3>2, ActionOfListed
  <2> QED
    BY <1>2, <2>2, <2>3
<1>4. ASSUME NEW p \in Keys \X Remotes, p \notin S
      PROVE  ActionOf(Contents', p) = -1
  BY <1>2, <1>4, ActionOfUnlisted
<1>5. Contents = <<>>
  BY DEF Idle, Contents
<1>6. Bindings(Contents) = Map!Nothing
  BY <1>5, NothingListed
<1> HIDE DEF S
<1>7. Bindings(Contents)' =
        [p \in Keys \X Remotes |-> IF p \in S THEN Bindings(file)[p] ELSE -1]
  BY <1>3, <1>4 DEF Bindings, ActionOf
<1>8. Bindings(file)' = Bindings(file)
  <2>1. file' = file
    BY ReadResult
  <2> QED
    BY <2>1 DEF Bindings, ActionOf
<1>9. S \in SUBSET (Keys \X Remotes)
  BY DEF S
<1>10. Map!Restore(S)
  BY <1>6, <1>7, <1>8 DEF Map!Restore
<1> QED
  BY <1>9, <1>10

LEMMA NextMaps == IInv /\ IInv' /\ Idle /\ [Next]_vars => [Map!Next]_(Map!vars)
<1> SUFFICES ASSUME IInv, IInv', Idle, [Next]_vars
             PROVE  Map!Next \/ UNCHANGED Map!vars
  OBVIOUS
<1> USE DEF Map!Next
<1>1. CASE set_data_raw
  <2>1. Len(file) \in 0 .. Len(file)
    BY DEF IInv, TypeOK
  <2> QED
    BY <1>1, <2>1, ReadMaps DEF set_data_raw
<1>2. CASE set_data_raw_throws
  BY <1>2, TruncatedRead, ReadMaps DEF set_data_raw_throws
<1>3. CASE \E naction \in ActionIndex, kn \in Keys, rn \in Remotes :
             assignaction_to_remotekey(naction, kn, rn)
  <2>1. PICK naction \in ActionIndex, kn \in Keys, rn \in Remotes :
          assignaction_to_remotekey(naction, kn, rn)
    BY <1>3
  <2>2. <<kn, rn>> \in Keys \X Remotes
    OBVIOUS
  <2> QED
    BY <2>1, <2>2, AssignMaps
<1>4. CASE \E naction \in ActionIndex : delete_lactionbyindex(naction)
  <2>1. CASE ProcessGone
    BY <2>1, ForgetMaps DEF ProcessGone
  <2>2. CASE ~ProcessGone
    BY <1>4, <2>2, DeleteMaps DEF delete_lactionbyindex
  <2> QED
    BY <2>1, <2>2
<1>5. CASE delete_all
  BY <1>5, ForgetMaps DEF delete_all, ProcessGone
<1>6. CASE get_data_raw
  BY <1>6, SaveMaps
<1>7. CASE Exit
  BY <1>7, ForgetMaps DEF Exit, ProcessGone
<1>8. CASE UNCHANGED vars
  <2>1. Contents' = Contents /\ file' = file
    BY <1>8 DEF vars, Contents
  <2> QED
    BY <2>1 DEF Map!vars, Bindings, ActionOf
<1> QED
  BY <1>1, <1>2, <1>3, <1>4, <1>5, <1>6, <1>7, <1>8 DEF Next

(***************************************************************************)
(* The list of cfg_actions implements the map: an assignment changes the   *)
(* action of the pair it names and of no other, a removal takes one pair   *)
(* away, and a start brings back saved assignments only, whole or not.     *)
(***************************************************************************)
THEOREM ListImplementsMap == Spec => ImplementsKeyMap
<1>1. Init => Map!Init
  BY InitMaps
<1>2. IInv /\ IInv' /\ Idle /\ [Next]_vars => [Map!Next]_(Map!vars)
  BY NextMaps
<1> QED
  BY <1>1, <1>2, SpecIInv, SpecIdle, PTL DEF ImplementsKeyMap, Map!Spec, Spec
=============================================================================
