--------------------------- MODULE LineStreamProofs ---------------------------
(***************************************************************************)
(* What a read of the stream gives, for every set of names, every buffer,  *)
(* any number of lines and any cuts of the network.                        *)
(***************************************************************************)
EXTENDS LineStream, SequenceTheorems, FiniteSetTheorems, WellFoundedInduction, TLAPS

Names == [kn : Buttons, rn : Remotes]

\* The characters of lines (the provers do not know that "0" is a string).
Chars == STRING \cup {"0", "1", Blank, Newline}

\* The characters that matter are different.
LEMMA Distinct == Blank # Newline /\ Blank \notin Hex /\ Newline \notin {"0", "1"} \cup Hex
  BY Zenon DEF Blank, Newline, Hex

-----------------------------------------------------------------------------
(* Skipping and reading in a buffer.                                       *)

\* Min of a set of natural numbers is its least element.
LEMMA MinIsLeast ==
  ASSUME NEW S \in SUBSET Nat, S # {}
  PROVE  /\ Min(S) \in S
         /\ \A y \in S : Min(S) <= y
<1>1. PICK x \in S : \A y \in S : ~ (<<y, x>> \in OpToRel(<, Nat))
  BY NatLessThanWellFounded, WFMin
<1>2. \A y \in S : x <= y
  <2>1. SUFFICES ASSUME NEW y \in S PROVE x <= y
    OBVIOUS
  <2>2. ~ (y < x)
    BY <1>1 DEF OpToRel
  <2> QED
    BY <2>2
<1> QED
  BY <1>2 DEF Min

\* After stops at the first place that does not hold one of chars.
LEMMA AfterStops ==
  ASSUME NEW buf \in Seq(Chars), NEW i \in 1 .. Len(buf) + 1, NEW chars
  PROVE  /\ After(buf, i, chars) \in i .. Len(buf) + 1
         /\ After(buf, i, chars) > Len(buf) \/ buf[After(buf, i, chars)] \notin chars
         /\ \A j \in i .. After(buf, i, chars) - 1 : buf[j] \in chars
<1> DEFINE S == {j \in i .. Len(buf) + 1 : j > Len(buf) \/ buf[j] \notin chars}
<1>1. Len(buf) \in Nat /\ i \in Nat
  OBVIOUS
<1>2. S \in SUBSET Nat /\ Len(buf) + 1 \in S
  BY <1>1
<1>3. Min(S) \in S /\ \A y \in S : Min(S) <= y
  BY <1>2, MinIsLeast
<1>4. After(buf, i, chars) = Min(S)
  BY DEF After
<1>5. ASSUME NEW j \in i .. Min(S) - 1
      PROVE  buf[j] \in chars
  BY <1>1, <1>3
<1> HIDE DEF S
<1>6. Min(S) \in i .. Len(buf) + 1 /\ (Min(S) > Len(buf) \/ buf[Min(S)] \notin chars)
  BY <1>3 DEF S
<1> QED
  BY <1>4, <1>5, <1>6

\* Until stops at the first place that holds one of chars.
LEMMA UntilStops ==
  ASSUME NEW buf \in Seq(Chars), NEW i \in 1 .. Len(buf) + 1, NEW chars
  PROVE  /\ Until(buf, i, chars) \in i .. Len(buf) + 1
         /\ Until(buf, i, chars) > Len(buf) \/ buf[Until(buf, i, chars)] \in chars
         /\ \A j \in i .. Until(buf, i, chars) - 1 : buf[j] \notin chars
<1> DEFINE S == {j \in i .. Len(buf) + 1 : j > Len(buf) \/ buf[j] \in chars}
<1>1. Len(buf) \in Nat /\ i \in Nat
  OBVIOUS
<1>2. S \in SUBSET Nat /\ Len(buf) + 1 \in S
  BY <1>1
<1>3. Min(S) \in S /\ \A y \in S : Min(S) <= y
  BY <1>2, MinIsLeast
<1>4. Until(buf, i, chars) = Min(S)
  BY DEF Until
<1>5. ASSUME NEW j \in i .. Min(S) - 1
      PROVE  buf[j] \notin chars
  BY <1>1, <1>3
<1> HIDE DEF S
<1>6. Min(S) \in i .. Len(buf) + 1 /\ (Min(S) > Len(buf) \/ buf[Min(S)] \in chars)
  BY <1>3 DEF S
<1> QED
  BY <1>4, <1>5, <1>6

\* A place that is where After has to stop is where it does.
LEMMA AfterIs ==
  ASSUME NEW buf \in Seq(Chars), NEW i \in 1 .. Len(buf) + 1, NEW chars,
         NEW a \in i .. Len(buf) + 1,
         a > Len(buf) \/ buf[a] \notin chars,
         \A j \in i .. a - 1 : buf[j] \in chars
  PROVE  After(buf, i, chars) = a
<1>1. Len(buf) \in Nat /\ i \in Nat /\ a \in Nat
  OBVIOUS
<1> DEFINE b == After(buf, i, chars)
<1>2. /\ b \in i .. Len(buf) + 1
      /\ b > Len(buf) \/ buf[b] \notin chars
      /\ \A j \in i .. b - 1 : buf[j] \in chars
  BY AfterStops
<1> HIDE DEF b
<1>3. ~ b < a
  BY <1>1, <1>2
<1>4. ~ a < b
  BY <1>1, <1>2
<1>5. b = a
  BY <1>1, <1>2, <1>3, <1>4
<1> QED
  BY <1>5 DEF b

\* The same of Until.
LEMMA UntilIs ==
  ASSUME NEW buf \in Seq(Chars), NEW i \in 1 .. Len(buf) + 1, NEW chars,
         NEW a \in i .. Len(buf) + 1,
         a > Len(buf) \/ buf[a] \in chars,
         \A j \in i .. a - 1 : buf[j] \notin chars
  PROVE  Until(buf, i, chars) = a
<1>1. Len(buf) \in Nat /\ i \in Nat /\ a \in Nat
  OBVIOUS
<1> DEFINE b == Until(buf, i, chars)
<1>2. /\ b \in i .. Len(buf) + 1
      /\ b > Len(buf) \/ buf[b] \in chars
      /\ \A j \in i .. b - 1 : buf[j] \notin chars
  BY UntilStops
<1> HIDE DEF b
<1>3. ~ b < a
  BY <1>1, <1>2
<1>4. ~ a < b
  BY <1>1, <1>2
<1>5. b = a
  BY <1>1, <1>2, <1>3, <1>4
<1> QED
  BY <1>5 DEF b

-----------------------------------------------------------------------------
(* The shape of a line.                                                    *)

\* Where the characters of a concatenation are.
LEMMA Joined ==
  ASSUME NEW s1 \in Seq(Chars), NEW s2 \in Seq(Chars)
  PROVE  /\ s1 \o s2 \in Seq(Chars)
         /\ Len(s1 \o s2) = Len(s1) + Len(s2)
         /\ \A i \in 1 .. Len(s1) : (s1 \o s2)[i] = s1[i]
         /\ \A i \in 1 .. Len(s2) : (s1 \o s2)[Len(s1) + i] = s2[i]
<1>1. /\ s1 \o s2 \in Seq(Chars)
      /\ Len(s1 \o s2) = Len(s1) + Len(s2)
      /\ \A i \in 1 .. Len(s1) + Len(s2) :
           (s1 \o s2)[i] = IF i <= Len(s1) THEN s1[i] ELSE s2[i - Len(s1)]
  BY ConcatProperties
<1>2. Len(s1) \in Nat /\ Len(s2) \in Nat
  OBVIOUS
<1> DEFINE d == s1 \o s2
           m == Len(s1)
           n == Len(s2)
<1>3. m \in Nat /\ n \in Nat
  BY <1>2
<1>4. \A i \in 1 .. m + n : d[i] = IF i <= m THEN s1[i] ELSE s2[i - m]
  BY <1>1
<1> SUFFICES (\A i \in 1 .. m : d[i] = s1[i]) /\ \A i \in 1 .. n : d[m + i] = s2[i]
  BY <1>1
<1> HIDE DEF d, m, n
<1>5. ASSUME NEW i \in 1 .. m PROVE d[i] = s1[i]
  <2>1. i \in 1 .. m + n /\ i <= m
    BY <1>3
  <2> QED
    BY <1>4, <2>1
<1>6. ASSUME NEW i \in 1 .. n PROVE d[m + i] = s2[i]
  <2> DEFINE j == m + i
  <2>1. j \in 1 .. m + n /\ ~ (j <= m) /\ j - m = i
    BY <1>3
  <2> HIDE DEF j
  <2>2. d[j] = s2[i]
    BY <1>4, <2>1
  <2> QED
    BY <2>2 DEF j
<1> QED
  BY <1>5, <1>6

\* Where the parts of a line are.
LEMMA LineShape ==
  ASSUME NEW names \in Names
  PROVE  LET line == LineOf(names)
             lk == Len(names.kn)
             lr == Len(names.rn)
         IN
         /\ lk \in Nat \ {0} /\ lr \in Nat \ {0}
         /\ line \in Seq(Chars) /\ Len(line) = 7 + lk + lr
         /\ line[1] = "0" /\ line[2] = "1" /\ line[3] = Blank
         /\ line[4] = "0" /\ line[5] = Blank
         /\ \A k \in 1 .. lk : line[5 + k] = names.kn[k]
         /\ line[6 + lk] = Blank
         /\ \A k \in 1 .. lr : line[6 + lk + k] = names.rn[k]
         /\ line[7 + lk + lr] = Newline
<1> DEFINE line == LineOf(names)
           lk == Len(names.kn)
           lr == Len(names.rn)
           h == <<"0", "1", Blank, "0", Blank>>
           sp == <<Blank>>
           nl == <<Newline>>
<1>1. PICK kn \in Seq(Chars), rn \in Seq(Chars) : kn = names.kn /\ rn = names.rn
  <2>1. names.kn \in Seq(STRING) /\ names.rn \in Seq(STRING)
    BY NamesAssumption DEF Names
  <2> QED
    BY <2>1, SeqMonotonic DEF Chars
<1>2. lk = Len(kn) /\ lr = Len(rn) /\ lk \in Nat \ {0} /\ lr \in Nat \ {0}
  <2>1. names.kn # <<>> /\ names.rn # <<>>
    BY NamesAssumption DEF Names
  <2> QED
    BY <1>1, <2>1, EmptySeq
<1>3. /\ h \in Seq(Chars) /\ Len(h) = 5
      /\ h[1] = "0" /\ h[2] = "1" /\ h[3] = Blank /\ h[4] = "0" /\ h[5] = Blank
      /\ sp \in Seq(Chars) /\ Len(sp) = 1 /\ sp[1] = Blank
      /\ nl \in Seq(Chars) /\ Len(nl) = 1 /\ nl[1] = Newline
  <2>1. {"0", "1", Blank, Newline} \subseteq Chars
    BY DEF Chars
  <2> QED
    BY <2>1
<1> DEFINE a == h \o kn
           b == a \o sp
           c == b \o rn
           d == c \o nl
<1>8. line = d
  BY <1>1 DEF LineOf
<1> SUFFICES
      /\ lk \in Nat \ {0} /\ lr \in Nat \ {0}
      /\ line \in Seq(Chars) /\ Len(line) = 7 + lk + lr
      /\ line[1] = "0" /\ line[2] = "1" /\ line[3] = Blank
      /\ line[4] = "0" /\ line[5] = Blank
      /\ \A k \in 1 .. lk : line[5 + k] = names.kn[k]
      /\ line[6 + lk] = Blank
      /\ \A k \in 1 .. lr : line[6 + lk + k] = names.rn[k]
      /\ line[7 + lk + lr] = Newline
  OBVIOUS
<1> HIDE DEF h, sp, nl, line, lk, lr
<1>4. /\ a \in Seq(Chars) /\ Len(a) = 5 + lk
      /\ \A k \in 1 .. 5 : a[k] = h[k]
      /\ \A k \in 1 .. lk : a[5 + k] = kn[k]
  <2>1. /\ h \o kn \in Seq(Chars)
        /\ Len(h \o kn) = Len(h) + Len(kn)
        /\ \A i \in 1 .. Len(h) : (h \o kn)[i] = h[i]
        /\ \A i \in 1 .. Len(kn) : (h \o kn)[Len(h) + i] = kn[i]
    BY <1>2, <1>3, Joined
  <2> HIDE DEF a
  <2>2. /\ a \in Seq(Chars)
        /\ Len(a) = Len(h) + Len(kn)
        /\ \A i \in 1 .. Len(h) : a[i] = h[i]
        /\ \A i \in 1 .. Len(kn) : a[Len(h) + i] = kn[i]
    BY <2>1 DEF a
  <2> QED
    BY <1>2, <1>3, <2>2
<1> HIDE DEF a
<1>5. /\ b \in Seq(Chars) /\ Len(b) = 6 + lk
      /\ \A k \in 1 .. 5 + lk : b[k] = a[k]
      /\ \A k \in 1 .. 1 : b[5 + lk + k] = sp[k]
  <2>1. /\ a \o sp \in Seq(Chars)
        /\ Len(a \o sp) = Len(a) + Len(sp)
        /\ \A i \in 1 .. Len(a) : (a \o sp)[i] = a[i]
        /\ \A i \in 1 .. Len(sp) : (a \o sp)[Len(a) + i] = sp[i]
    BY <1>2, <1>3, <1>4, Joined
  <2> HIDE DEF b
  <2>2. /\ b \in Seq(Chars)
        /\ Len(b) = Len(a) + Len(sp)
        /\ \A i \in 1 .. Len(a) : b[i] = a[i]
        /\ \A i \in 1 .. Len(sp) : b[Len(a) + i] = sp[i]
    BY <2>1 DEF b
  <2> QED
    BY <1>2, <1>3, <1>4, <2>2
<1> HIDE DEF b
<1>6. /\ c \in Seq(Chars) /\ Len(c) = 6 + lk + lr
      /\ \A k \in 1 .. 6 + lk : c[k] = b[k]
      /\ \A k \in 1 .. lr : c[6 + lk + k] = rn[k]
  <2>1. /\ b \o rn \in Seq(Chars)
        /\ Len(b \o rn) = Len(b) + Len(rn)
        /\ \A i \in 1 .. Len(b) : (b \o rn)[i] = b[i]
        /\ \A i \in 1 .. Len(rn) : (b \o rn)[Len(b) + i] = rn[i]
    BY <1>2, <1>5, Joined
  <2> HIDE DEF c
  <2>2. /\ c \in Seq(Chars)
        /\ Len(c) = Len(b) + Len(rn)
        /\ \A i \in 1 .. Len(b) : c[i] = b[i]
        /\ \A i \in 1 .. Len(rn) : c[Len(b) + i] = rn[i]
    BY <2>1 DEF c
  <2> QED
    BY <1>2, <1>5, <2>2
<1> HIDE DEF c
<1>7. /\ d \in Seq(Chars) /\ Len(d) = 7 + lk + lr
      /\ \A k \in 1 .. 6 + lk + lr : d[k] = c[k]
      /\ \A k \in 1 .. 1 : d[6 + lk + lr + k] = nl[k]
  <2>1. /\ c \o nl \in Seq(Chars)
        /\ Len(c \o nl) = Len(c) + Len(nl)
        /\ \A i \in 1 .. Len(c) : (c \o nl)[i] = c[i]
        /\ \A i \in 1 .. Len(nl) : (c \o nl)[Len(c) + i] = nl[i]
    BY <1>2, <1>3, <1>6, Joined
  <2> HIDE DEF d
  <2>2. /\ d \in Seq(Chars)
        /\ Len(d) = Len(c) + Len(nl)
        /\ \A i \in 1 .. Len(c) : d[i] = c[i]
        /\ \A i \in 1 .. Len(nl) : d[Len(c) + i] = nl[i]
    BY <2>1 DEF d
  <2> QED
    BY <1>2, <1>3, <1>6, <2>2
<1> HIDE DEF d
<1>9. \A k \in 1 .. 5 : d[k] = h[k]
  BY <1>2, <1>4, <1>5, <1>6, <1>7
<1>10. ASSUME NEW k \in 1 .. lk PROVE d[5 + k] = kn[k]
  <2>1. 5 + k \in 1 .. 5 + lk /\ 5 + k \in 1 .. 6 + lk /\ 5 + k \in 1 .. 6 + lk + lr
    BY <1>2
  <2>2. d[5 + k] = c[5 + k]
    BY <1>7, <2>1
  <2>3. c[5 + k] = b[5 + k]
    BY <1>6, <2>1
  <2>4. b[5 + k] = a[5 + k]
    BY <1>5, <2>1
  <2>5. a[5 + k] = kn[k]
    BY <1>4
  <2> QED
    BY <2>2, <2>3, <2>4, <2>5
<1>11. d[6 + lk] = Blank /\ d[7 + lk + lr] = Newline
  <2>1. b[5 + lk + 1] = Blank /\ d[6 + lk + lr + 1] = Newline
    BY <1>3, <1>5, <1>7
  <2>2. 5 + lk + 1 = 6 + lk /\ 6 + lk + lr + 1 = 7 + lk + lr
        /\ 6 + lk \in 1 .. 6 + lk /\ 6 + lk \in 1 .. 6 + lk + lr
    BY <1>2
  <2> QED
    BY <1>6, <1>7, <2>1, <2>2
<1>12. \A k \in 1 .. lr : d[6 + lk + k] = rn[k]
  BY <1>2, <1>6, <1>7
<1>13. d[1] = "0" /\ d[2] = "1" /\ d[3] = Blank /\ d[4] = "0" /\ d[5] = Blank
  BY <1>3, <1>9
<1>14. Len(d) = 7 + lk + lr
  BY <1>2, <1>7
<1> QED
  BY <1>1, <1>2, <1>7, <1>8, <1>10, <1>11, <1>12, <1>13, <1>14

\* Only its last character ends a line.
LEMMA OneNewline ==
  ASSUME NEW names \in Names, NEW k \in 1 .. Len(LineOf(names)) - 1
  PROVE  LineOf(names)[k] # Newline
<1> DEFINE line == LineOf(names)
           lk == Len(names.kn)
           lr == Len(names.rn)
<1>1. /\ lk \in Nat \ {0} /\ lr \in Nat \ {0} /\ Len(line) = 7 + lk + lr
      /\ line[1] = "0" /\ line[2] = "1" /\ line[3] = Blank
      /\ line[4] = "0" /\ line[5] = Blank
      /\ \A j \in 1 .. lk : line[5 + j] = names.kn[j]
      /\ line[6 + lk] = Blank
      /\ \A j \in 1 .. lr : line[6 + lk + j] = names.rn[j]
  BY LineShape
<1>2. /\ \A j \in 1 .. lk : names.kn[j] # Newline
      /\ \A j \in 1 .. lr : names.rn[j] # Newline
  <2>1. /\ names.kn \in Seq(STRING) /\ \A i \in DOMAIN names.kn : names.kn[i] \notin Space
        /\ names.rn \in Seq(STRING) /\ \A i \in DOMAIN names.rn : names.rn[i] # Newline
    BY NamesAssumption DEF Names
  <2> QED
    BY <2>1 DEF Space
<1>3. k \in 1 .. 6 + lk + lr
  <2>1. Len(LineOf(names)) = 7 + lk + lr /\ lk \in Nat /\ lr \in Nat
    BY <1>1
  <2> HIDE DEF lk, lr
  <2> QED
    BY <2>1
<1> SUFFICES line[k] # Newline
  OBVIOUS
<1> HIDE DEF line, lk, lr
<1>4. CASE k \in 1 .. 5 \/ k = 6 + lk
  <2>1. k = 1 \/ k = 2 \/ k = 3 \/ k = 4 \/ k = 5 \/ k = 6 + lk
    BY <1>4
  <2>2. "0" # Newline /\ "1" # Newline /\ Blank # Newline
    BY Distinct
  <2> QED
    BY <1>1, <2>1, <2>2
<1>5. CASE k \in 6 .. 5 + lk
  <2>1. k - 5 \in 1 .. lk /\ 5 + (k - 5) = k
    BY <1>1, <1>5
  <2> QED
    BY <1>1, <1>2, <2>1
<1>6. CASE k \in 7 + lk .. 6 + lk + lr
  <2>1. k - (6 + lk) \in 1 .. lr /\ 6 + lk + (k - (6 + lk)) = k
    BY <1>1, <1>6
  <2> QED
    BY <1>1, <1>2, <2>1
<1> QED
  BY <1>1, <1>3, <1>4, <1>5, <1>6

\* The characters of names.
LEMMA NamesShape ==
  ASSUME NEW names \in Names
  PROVE  LET kn == names.kn
             rn == names.rn
         IN  /\ kn \in Seq(Chars) /\ Len(kn) \in Nat \ {0}
             /\ rn \in Seq(Chars) /\ Len(rn) \in Nat \ {0}
             /\ \A k \in 1 .. Len(kn) : kn[k] \notin Space
             /\ rn[1] \notin Space
             /\ \A k \in 1 .. Len(rn) : rn[k] # Newline
<1> DEFINE kn == names.kn
           rn == names.rn
<1>1. /\ kn \in Seq(STRING) /\ kn # <<>> /\ \A i \in DOMAIN kn : kn[i] \notin Space
      /\ rn \in Seq(STRING) /\ rn # <<>> /\ rn[1] # Blank
      /\ \A i \in DOMAIN rn : rn[i] # Newline
  BY NamesAssumption DEF Names
<1> SUFFICES /\ kn \in Seq(Chars) /\ Len(kn) \in Nat \ {0}
             /\ rn \in Seq(Chars) /\ Len(rn) \in Nat \ {0}
             /\ \A k \in 1 .. Len(kn) : kn[k] \notin Space
             /\ rn[1] \notin Space
             /\ \A k \in 1 .. Len(rn) : rn[k] # Newline
  OBVIOUS
<1> HIDE DEF kn, rn
<1>2. kn \in Seq(Chars) /\ rn \in Seq(Chars)
  BY <1>1, SeqMonotonic DEF Chars
<1>3. Len(kn) \in Nat \ {0} /\ Len(rn) \in Nat \ {0}
  BY <1>1, EmptySeq
<1>4. DOMAIN kn = 1 .. Len(kn) /\ DOMAIN rn = 1 .. Len(rn)
  BY <1>2
<1>5. rn[1] \notin Space
  BY <1>1, <1>3, <1>4 DEF Space
<1> QED
  BY <1>1, <1>2, <1>3, <1>4, <1>5

\* What is read of a name as far as the buffer goes.
LEMMA PartOfName ==
  ASSUME NEW buf \in Seq(Chars), NEW name \in Seq(Chars),
         NEW i \in Nat \ {0}, NEW j \in Nat, i <= j, j <= Len(buf) + 1, j - i <= Len(name),
         \A k \in 1 .. j - i : buf[i - 1 + k] = name[k]
  PROVE  /\ IsPrefix(SubSeq(buf, i, j - 1), name)
         /\ j - i = Len(name) => SubSeq(buf, i, j - 1) = name
<1> DEFINE part == SubSeq(buf, i, j - 1)
           front == SubSeq(name, 1, j - i)
<1>1. /\ part \in Seq(Chars) /\ Len(part) = j - i
      /\ \A k \in 1 .. j - i : part[k] = buf[i - 1 + k]
  <2>1. \A k \in i .. j - 1 : buf[k] \in Chars
    BY ElementOfSeq
  <2>2. /\ SubSeq(buf, i, j - 1) \in Seq(Chars)
        /\ Len(SubSeq(buf, i, j - 1)) = IF i <= j - 1 THEN j - 1 - i + 1 ELSE 0
        /\ \A k \in 1 .. j - 1 - i + 1 : SubSeq(buf, i, j - 1)[k] = buf[i + k - 1]
    BY <2>1, SubSeqProperties
  <2> HIDE DEF part
  <2>3. /\ part \in Seq(Chars)
        /\ Len(part) = IF i <= j - 1 THEN j - 1 - i + 1 ELSE 0
        /\ \A k \in 1 .. j - 1 - i + 1 : part[k] = buf[i + k - 1]
    BY <2>2 DEF part
  <2>4. \A k \in Nat : i + k - 1 = i - 1 + k
    OBVIOUS
  <2> QED
    BY <2>3, <2>4
<1>2. /\ front \in Seq(Chars) /\ Len(front) = j - i
      /\ \A k \in 1 .. j - i : front[k] = name[k]
  <2>1. \A k \in 1 .. j - i : name[k] \in Chars
    BY ElementOfSeq
  <2>2. /\ SubSeq(name, 1, j - i) \in Seq(Chars)
        /\ Len(SubSeq(name, 1, j - i)) = IF 1 <= j - i THEN j - i - 1 + 1 ELSE 0
        /\ \A k \in 1 .. j - i - 1 + 1 : SubSeq(name, 1, j - i)[k] = name[1 + k - 1]
    BY <2>1, SubSeqProperties
  <2> HIDE DEF front
  <2>3. /\ front \in Seq(Chars)
        /\ Len(front) = IF 1 <= j - i THEN j - i - 1 + 1 ELSE 0
        /\ \A k \in 1 .. j - i - 1 + 1 : front[k] = name[1 + k - 1]
    BY <2>2 DEF front
  <2> QED
    BY <2>3
<1> HIDE DEF part, front
<1>3. part = front
  <2>1. Len(part) = Len(front) /\ \A k \in 1 .. Len(part) : part[k] = front[k]
    BY <1>1, <1>2
  <2> QED
    BY <1>1, <1>2, <2>1, SeqEqual
<1>4. SubSeq(part, 1, Len(part)) = part
  BY <1>1, SubSeqFull
<1>5. IsPrefix(part, name)
  BY <1>1, <1>3, <1>4 DEF IsPrefix, front
<1>6. ASSUME j - i = Len(name) PROVE part = name
  <2>1. Len(part) = Len(name) /\ \A k \in 1 .. Len(part) : part[k] = name[k]
    BY <1>1, <1>6
  <2> QED
    BY <1>1, <2>1, SeqEqual
<1> QED
  BY <1>5, <1>6 DEF part

\* Nothing is a front of every name.
LEMMA NothingIsPrefix ==
  ASSUME NEW name \in Seq(Chars)
  PROVE  IsPrefix(<<>>, name)
<1>1. Len(<<>>) = 0 /\ Len(name) \in Nat
  OBVIOUS
<1>2. SubSeq(<<>>, 1, 0) = <<>> /\ SubSeq(name, 1, 0) = <<>>
  BY SubSeqEmpty
<1> QED
  BY <1>1, <1>2 DEF IsPrefix

-----------------------------------------------------------------------------
(* What sscanf_s makes of a buffer.                                        *)

\* Without two numbers nothing is read.
LEMMA NoNumbers ==
  ASSUME NEW buf \in Seq(Chars),
         LET code == After(buf, 1, Space)
             count == After(buf, After(buf, code, Hex), Space)
         IN  \/ code > Len(buf) \/ buf[code] \notin Hex
             \/ count > Len(buf) \/ buf[count] \notin Hex
  PROVE  sscanf(buf) = NoNames
<1> DEFINE code == After(buf, 1, Space)
           count == After(buf, After(buf, code, Hex), Space)
<1>1. /\ code \in 1 .. Len(buf) + 1
      /\ After(buf, code, Hex) \in code .. Len(buf) + 1
      /\ count \in After(buf, code, Hex) .. Len(buf) + 1
  <2>1. Len(buf) \in Nat /\ 1 \in 1 .. Len(buf) + 1
    OBVIOUS
  <2>2. code \in 1 .. Len(buf) + 1
    BY <2>1, AfterStops
  <2>3. After(buf, code, Hex) \in code .. Len(buf) + 1
    BY <2>2, AfterStops
  <2>4. After(buf, code, Hex) \in 1 .. Len(buf) + 1
    BY <2>2, <2>3
  <2>5. count \in After(buf, code, Hex) .. Len(buf) + 1
    BY <2>4, AfterStops
  <2> QED
    BY <2>2, <2>3, <2>5
<1>2. ~ (code <= Len(buf) /\ buf[code] \in Hex /\ count <= Len(buf) /\ buf[count] \in Hex)
  <2> HIDE DEF code, count
  <2>1. code \in Int /\ count \in Int /\ Len(buf) \in Int
    BY <1>1
  <2>2. code > Len(buf) \/ buf[code] \notin Hex \/ count > Len(buf) \/ buf[count] \notin Hex
    BY DEF code, count
  <2> QED
    BY <2>1, <2>2
<1> QED
  BY <1>2 DEF sscanf

\* At the end of the buffer there is nothing to skip or to read.
LEMMA AtTheEnd ==
  ASSUME NEW buf \in Seq(Chars), NEW chars
  PROVE  /\ After(buf, Len(buf) + 1, chars) = Len(buf) + 1
         /\ Until(buf, Len(buf) + 1, chars) = Len(buf) + 1
<1>1. Len(buf) \in Nat /\ Len(buf) + 1 \in 1 .. Len(buf) + 1
  OBVIOUS
<1>2. /\ After(buf, Len(buf) + 1, chars) \in Len(buf) + 1 .. Len(buf) + 1
      /\ Until(buf, Len(buf) + 1, chars) \in Len(buf) + 1 .. Len(buf) + 1
  BY <1>1, AfterStops, UntilStops
<1> QED
  BY <1>1, <1>2

\* A buffer that holds a line from its start, perhaps behind the end of the one
\* before it (x = 1) or without its first digit (x = -1), gives a front of the
\* line, and all of it if all of it is there.
LEMMA FrontIsRead ==
  ASSUME NEW names \in Names, NEW buf \in Seq(Chars), NEW x \in {-1, 0, 1},
         \A k \in 1 .. Len(LineOf(names)) :
           x + k \in 1 .. Len(buf) => buf[x + k] = LineOf(names)[k],
         x = 1 /\ Len(buf) >= 1 => buf[1] = Newline
  PROVE  /\ IsFrontOf(sscanf(buf), names)
         /\ Len(buf) >= x + Len(LineOf(names)) => sscanf(buf) = names
<1> DEFINE line == LineOf(names)
           kn == names.kn
           rn == names.rn
           lk == Len(names.kn)
           lr == Len(names.rn)
           n == Len(buf)
<1>1. /\ lk \in Nat \ {0} /\ lr \in Nat \ {0} /\ Len(line) = 7 + lk + lr
      /\ line[1] = "0" /\ line[2] = "1" /\ line[3] = Blank
      /\ line[4] = "0" /\ line[5] = Blank
      /\ \A j \in 1 .. lk : line[5 + j] = kn[j]
      /\ line[6 + lk] = Blank
      /\ \A j \in 1 .. lr : line[6 + lk + j] = rn[j]
      /\ line[7 + lk + lr] = Newline
  BY LineShape
<1>2. /\ kn \in Seq(Chars) /\ rn \in Seq(Chars)
      /\ \A k \in 1 .. lk : kn[k] \notin Space
      /\ rn[1] \notin Space
      /\ \A k \in 1 .. lr : rn[k] # Newline
  BY NamesShape
<1>3. n \in Nat /\ x \in Int /\ lk = Len(kn) /\ lr = Len(rn)
  OBVIOUS
<1>4. /\ \A k \in 1 .. Len(line) : x + k \in 1 .. n => buf[x + k] = line[k]
      /\ x = 1 /\ n >= 1 => buf[1] = Newline
  OBVIOUS
<1>5. /\ kn = names.kn /\ rn = names.rn /\ names = [kn |-> kn, rn |-> rn]
      /\ Len(LineOf(names)) = 7 + lk + lr
  BY <1>1 DEF Names
<1> HIDE DEF line, kn, rn, lk, lr, n
<1>6. /\ x + 1 \in 1 .. n => buf[x + 1] = "0"
      /\ x + 2 \in 1 .. n => buf[x + 2] = "1"
      /\ x + 3 \in 1 .. n => buf[x + 3] = Blank
      /\ x + 4 \in 1 .. n => buf[x + 4] = "0"
      /\ x + 5 \in 1 .. n => buf[x + 5] = Blank
      /\ x + 6 + lk \in 1 .. n => buf[x + 6 + lk] = Blank
      /\ x + 7 + lk + lr \in 1 .. n => buf[x + 7 + lk + lr] = Newline
  <2>1. /\ 1 \in 1 .. Len(line) /\ 2 \in 1 .. Len(line) /\ 3 \in 1 .. Len(line)
        /\ 4 \in 1 .. Len(line) /\ 5 \in 1 .. Len(line)
        /\ 6 + lk \in 1 .. Len(line) /\ 7 + lk + lr \in 1 .. Len(line)
    BY <1>1
  <2>2. x + 6 + lk = x + (6 + lk) /\ x + 7 + lk + lr = x + (7 + lk + lr)
    BY <1>1, <1>3
  <2> QED
    BY <1>1, <1>4, <2>1, <2>2
<1>7. ASSUME NEW k \in 1 .. lk, x + 5 + k <= n
      PROVE  buf[x + 5 + k] = kn[k]
  <2>1. 5 + k \in 1 .. Len(line) /\ x + 5 + k = x + (5 + k) /\ x + (5 + k) \in 1 .. n
    BY <1>1, <1>3, <1>7
  <2>2. buf[x + (5 + k)] = line[5 + k]
    BY <1>4, <2>1
  <2> QED
    BY <1>1, <2>1, <2>2
<1>8. ASSUME NEW k \in 1 .. lr, x + 6 + lk + k <= n
      PROVE  buf[x + 6 + lk + k] = rn[k]
  <2>1. /\ 6 + lk + k \in 1 .. Len(line)
        /\ x + 6 + lk + k = x + (6 + lk + k) /\ x + (6 + lk + k) \in 1 .. n
    BY <1>1, <1>3, <1>8
  <2>2. buf[x + (6 + lk + k)] = line[6 + lk + k]
    BY <1>4, <2>1
  <2> QED
    BY <1>1, <2>1, <2>2
<1>9. /\ "0" \in Hex /\ "1" \in Hex /\ "0" \notin Space /\ "1" \notin Space
      /\ Blank \in Space /\ Newline \in Space /\ Blank \notin Hex /\ Newline \notin Hex
  BY Distinct DEF Space, Hex
<1>10. IsFrontOf(NoNames, names)
  BY <1>2, <1>5, NothingIsPrefix DEF IsFrontOf, NoNames
<1> DEFINE first == IF x = 1 THEN 2 ELSE 1
\* There is no first number.
<1>11. CASE n < first
  <2>1. After(buf, 1, Space) = n + 1
    <3>1. 1 \in 1 .. n + 1 /\ n + 1 \in 1 .. n + 1 /\ n + 1 > n
      BY <1>3
    <3>2. \A j \in 1 .. (n + 1) - 1 : buf[j] \in Space
      <4>1. ASSUME NEW j \in 1 .. (n + 1) - 1 PROVE buf[j] \in Space
        <5>1. j = 1 /\ x = 1 /\ n >= 1
          BY <1>3, <1>11
        <5> QED
          BY <1>4, <1>9, <5>1
      <4> QED
        BY <4>1
    <3> DEFINE a == n + 1
    <3>3. a \in 1 .. n + 1 /\ a > n /\ \A j \in 1 .. a - 1 : buf[j] \in Space
      BY <3>1, <3>2
    <3> HIDE DEF a
    <3>4. After(buf, 1, Space) = a
      BY <3>1, <3>3, AfterIs DEF n
    <3> QED
      BY <3>4 DEF a
  <2>2. sscanf(buf) = NoNames
    BY <1>3, <2>1, NoNumbers DEF n
  <2>3. ~ (n >= x + (7 + lk + lr))
    BY <1>1, <1>3, <1>11
  <2> QED
    BY <1>5, <1>10, <2>2, <2>3 DEF n
<1>12. ASSUME n >= first
       PROVE  After(buf, 1, Space) = first /\ first \in 1 .. n /\ buf[first] \in Hex
  <2>1. first \in 1 .. n + 1 /\ 1 \in 1 .. n + 1 /\ first \in 1 .. n
    BY <1>3, <1>12
  <2>2. buf[first] \in Hex /\ buf[first] \notin Space
    <3>1. first = x + 1 \/ first = x + 2
      BY <1>3
    <3> QED
      BY <1>6, <1>9, <2>1, <3>1
  <2>3. \A j \in 1 .. first - 1 : buf[j] \in Space
    <3>1. ASSUME NEW j \in 1 .. first - 1 PROVE buf[j] \in Space
      <4>1. j = 1 /\ x = 1 /\ n >= 1
        BY <1>3, <1>12
      <4> QED
        BY <1>4, <1>9, <4>1
    <3> QED
      BY <3>1
  <2> HIDE DEF first
  <2> QED
    BY <2>1, <2>2, <2>3, AfterIs DEF n
\* There is no second number.
<1>13. CASE n >= first /\ n <= x + 3
  <2> DEFINE m == IF n = x + 3 THEN x + 3 ELSE n + 1
  <2>1. After(buf, first, Hex) = m /\ m \in 1 .. n + 1
    <3>1. first \in 1 .. n + 1 /\ m \in first .. n + 1 /\ m \in 1 .. n + 1
      BY <1>3, <1>13
    <3>2. m > n \/ buf[m] \notin Hex
      <4>1. CASE n = x + 3
        <5>1. x + 3 \in 1 .. n
          BY <1>3, <1>13, <4>1
        <5> QED
          BY <1>6, <1>9, <4>1, <5>1
      <4>2. CASE n # x + 3
        BY <1>3, <4>2
      <4> QED
        BY <4>1, <4>2
    <3>3. \A j \in first .. m - 1 : buf[j] \in Hex
      <4>1. ASSUME NEW j \in first .. m - 1 PROVE buf[j] \in Hex
        <5>1. j \in 1 .. n /\ (j = x + 1 \/ j = x + 2)
          BY <1>3, <1>13
        <5> QED
          BY <1>6, <1>9, <5>1
      <4> QED
        BY <4>1
    <3> HIDE DEF m, first
    <3> QED
      BY <3>1, <3>2, <3>3, AfterIs DEF n
  <2>2. After(buf, m, Space) = n + 1
    <3>1. n + 1 \in m .. n + 1 /\ n + 1 > n
      BY <1>3
    <3>2. \A j \in m .. (n + 1) - 1 : buf[j] \in Space
      <4>1. ASSUME NEW j \in m .. (n + 1) - 1 PROVE buf[j] \in Space
        <5>1. j = x + 3 /\ x + 3 \in 1 .. n
          BY <1>3, <1>13
        <5> QED
          BY <1>6, <1>9, <5>1
      <4> QED
        BY <4>1
    <3> DEFINE a == n + 1
    <3>3. a \in m .. n + 1 /\ a > n /\ \A j \in m .. a - 1 : buf[j] \in Space
      BY <3>1, <3>2
    <3> HIDE DEF a, m
    <3>4. After(buf, m, Space) = a
      BY <2>1, <3>3, AfterIs DEF n
    <3> QED
      BY <3>4 DEF a
  <2>3. sscanf(buf) = NoNames
    <3>1. After(buf, After(buf, After(buf, 1, Space), Hex), Space) = n + 1
      BY <1>12, <1>13, <2>1, <2>2
    <3>2. n + 1 > n
      BY <1>3
    <3> HIDE DEF first, m
    <3> QED
      BY <3>1, <3>2, NoNumbers DEF n
  <2>4. ~ (n >= x + (7 + lk + lr))
    BY <1>1, <1>3, <1>13
  <2> HIDE DEF m, first
  <2> QED
    BY <1>5, <1>10, <2>3, <2>4 DEF n
\* Both numbers are there.
<1>14. CASE n >= x + 4
  <2>1. After(buf, 1, Space) = first /\ first \in 1 .. n /\ buf[first] \in Hex
    BY <1>3, <1>12, <1>14
  <2>2. After(buf, first, Hex) = x + 3
    <3>1. /\ first \in 1 .. n + 1 /\ x + 3 \in first .. n + 1
          /\ x + 3 \in 1 .. n
      BY <1>3, <1>14
    <3>2. buf[x + 3] \notin Hex
      BY <1>6, <1>9, <3>1
    <3>3. \A j \in first .. (x + 3) - 1 : buf[j] \in Hex
      <4>1. ASSUME NEW j \in first .. (x + 3) - 1 PROVE buf[j] \in Hex
        <5>1. j \in 1 .. n /\ (j = x + 1 \/ j = x + 2)
          BY <1>3, <1>14
        <5> QED
          BY <1>6, <1>9, <5>1
      <4> QED
        BY <4>1
    <3> HIDE DEF first
    <3> QED
      BY <3>1, <3>2, <3>3, AfterIs DEF n
  <2>3. After(buf, x + 3, Space) = x + 4 /\ x + 4 \in 1 .. n /\ buf[x + 4] \in Hex
    <3>1. x + 3 \in 1 .. n + 1 /\ x + 4 \in x + 3 .. n + 1 /\ x + 4 \in 1 .. n /\ x + 3 \in 1 .. n
      BY <1>3, <1>14
    <3>2. buf[x + 4] \notin Space /\ buf[x + 4] \in Hex
      BY <1>6, <1>9, <3>1
    <3>3. \A j \in x + 3 .. (x + 4) - 1 : buf[j] \in Space
      <4>1. ASSUME NEW j \in x + 3 .. (x + 4) - 1 PROVE buf[j] \in Space
        <5>1. j = x + 3
          BY <1>3
        <5> QED
          BY <1>6, <1>9, <3>1, <5>1
      <4> QED
        BY <4>1
    <3> QED
      BY <3>1, <3>2, <3>3, AfterIs DEF n
  <2>4. After(buf, x + 4, Hex) = x + 5 /\ x + 5 \in 1 .. n + 1
    <3>1. x + 4 \in 1 .. n + 1 /\ x + 5 \in x + 4 .. n + 1 /\ x + 5 \in 1 .. n + 1
      BY <1>3, <1>14
    <3>2. x + 5 > n \/ buf[x + 5] \notin Hex
      <4>1. x + 5 > n \/ x + 5 \in 1 .. n
        BY <1>3, <1>14
      <4> QED
        BY <1>6, <1>9, <4>1
    <3>3. \A j \in x + 4 .. (x + 5) - 1 : buf[j] \in Hex
      <4>1. ASSUME NEW j \in x + 4 .. (x + 5) - 1 PROVE buf[j] \in Hex
        <5>1. j = x + 4
          BY <1>3
        <5> QED
          BY <2>3, <5>1
      <4> QED
        BY <4>1
    <3> QED
      BY <3>1, <3>2, <3>3, AfterIs DEF n
  <2> DEFINE k1 == After(buf, x + 5, Space)
             k2 == Until(buf, k1, Space)
             r1 == After(buf, k2, Space)
             r2 == Until(buf, r1, {Newline})
  <2>5. sscanf(buf) = [kn |-> SubSeq(buf, k1, k2 - 1), rn |-> SubSeq(buf, r1, r2 - 1)]
    <3>1. /\ After(buf, After(buf, After(buf, 1, Space), Hex), Space) = x + 4
          /\ After(buf, After(buf, x + 4, Hex), Space) = k1
      BY <2>1, <2>2, <2>3, <2>4
    <3>2. first <= n /\ buf[first] \in Hex /\ x + 4 <= n /\ buf[x + 4] \in Hex
      BY <2>1, <2>3
    <3> DEFINE code == After(buf, 1, Space)
               count == After(buf, After(buf, code, Hex), Space)
    <3>3. /\ code <= Len(buf) /\ buf[code] \in Hex /\ count <= Len(buf) /\ buf[count] \in Hex
          /\ After(buf, After(buf, count, Hex), Space) = k1
      BY <2>1, <3>1, <3>2 DEF n
    <3> HIDE DEF k1
    <3> QED
      BY <3>3 DEF sscanf
  <2>6. ASSUME k2 = n + 1
        PROVE  SubSeq(buf, r1, r2 - 1) = <<>>
    <3>1. r1 = n + 1 /\ r2 = n + 1
      BY <2>6, AtTheEnd DEF n
    <3>2. n + 1 \in Int /\ (n + 1) - 1 \in Int /\ (n + 1) - 1 < n + 1
      BY <1>3
    <3> HIDE DEF r1, r2
    <3>3. SubSeq(buf, n + 1, (n + 1) - 1) = <<>>
      BY <3>2, SubSeqEmpty
    <3> QED
      BY <3>1, <3>3
  \* The buffer ends before the button.
  <2>7. CASE n <= x + 5
    <3>1. k1 = n + 1
      <4>1. /\ x + 5 \in 1 .. n + 1 /\ n + 1 \in x + 5 .. n + 1 /\ n + 1 > n
        BY <1>3, <2>4, <2>7
      <4>2. \A j \in x + 5 .. (n + 1) - 1 : buf[j] \in Space
        <5>1. ASSUME NEW j \in x + 5 .. (n + 1) - 1 PROVE buf[j] \in Space
          <6>1. j = x + 5 /\ x + 5 \in 1 .. n
            BY <1>3, <1>14, <2>7
          <6> QED
            BY <1>6, <1>9, <6>1
        <5> QED
          BY <5>1
      <4> QED
        BY <4>1, <4>2, AfterIs DEF n
    <3>2. k2 = n + 1
      BY <3>1, AtTheEnd DEF n
    <3>3. SubSeq(buf, k1, k2 - 1) = <<>>
      <4>1. n + 1 \in Int /\ (n + 1) - 1 \in Int /\ (n + 1) - 1 < n + 1
        BY <1>3
      <4>2. SubSeq(buf, n + 1, (n + 1) - 1) = <<>>
        BY <4>1, SubSeqEmpty
      <4> HIDE DEF k1, k2
      <4> QED
        BY <3>1, <3>2, <4>2
    <3>4. sscanf(buf) = NoNames
      BY <2>5, <2>6, <3>2, <3>3 DEF NoNames
    <3>5. ~ (n >= x + (7 + lk + lr))
      BY <1>1, <1>3, <2>7
    <3> HIDE DEF first, k1, k2, r1, r2
    <3> QED
      BY <1>5, <1>10, <3>4, <3>5 DEF n
  <2>8. ASSUME n >= x + 6
        PROVE  k1 = x + 6
    <3>1. /\ x + 5 \in 1 .. n + 1 /\ x + 6 \in x + 5 .. n + 1
          /\ x + 5 \in 1 .. n /\ 1 \in 1 .. lk /\ x + 5 + 1 = x + 6
      BY <1>1, <1>3, <1>14, <2>8
    <3>2. buf[x + 6] \notin Space
      BY <1>2, <1>7, <2>8, <3>1
    <3>3. \A j \in x + 5 .. (x + 6) - 1 : buf[j] \in Space
      <4>1. ASSUME NEW j \in x + 5 .. (x + 6) - 1 PROVE buf[j] \in Space
        <5>1. j = x + 5
          BY <1>3
        <5> QED
          BY <1>6, <1>9, <3>1, <5>1
      <4> QED
        BY <4>1
    <3> QED
      BY <3>1, <3>2, <3>3, AfterIs DEF n
  <2>9. ASSUME n >= x + 6, NEW k \in Nat, k <= lk, x + 6 + k <= n + 1
        PROVE  /\ \A j \in x + 6 .. (x + 6 + k) - 1 : buf[j] \notin Space
               /\ IsPrefix(SubSeq(buf, x + 6, (x + 6 + k) - 1), kn)
               /\ k = lk => SubSeq(buf, x + 6, (x + 6 + k) - 1) = kn
    <3>1. ASSUME NEW j \in 1 .. k PROVE buf[(x + 6) - 1 + j] = kn[j]
      <4>1. j \in 1 .. lk /\ x + 5 + j <= n /\ (x + 6) - 1 + j = x + 5 + j
        BY <1>1, <1>3, <2>9
      <4> QED
        BY <1>7, <4>1
    <3>2. ASSUME NEW j \in x + 6 .. (x + 6 + k) - 1 PROVE buf[j] \notin Space
      <4>1. /\ j - x - 5 \in 1 .. k /\ j - x - 5 \in 1 .. lk
            /\ (x + 6) - 1 + (j - x - 5) = j
        BY <1>1, <1>3, <2>9
      <4> QED
        BY <1>2, <3>1, <4>1
    <3>3. /\ x + 6 \in Nat \ {0} /\ x + 6 + k \in Nat /\ x + 6 <= x + 6 + k
          /\ x + 6 + k <= Len(buf) + 1 /\ x + 6 + k - (x + 6) = k /\ k <= Len(kn)
      BY <1>1, <1>3, <2>9 DEF n
    <3>4. /\ IsPrefix(SubSeq(buf, x + 6, (x + 6 + k) - 1), kn)
          /\ k = Len(kn) => SubSeq(buf, x + 6, (x + 6 + k) - 1) = kn
      <4> DEFINE i == x + 6
                 l == x + 6 + k
      <4>1. /\ i \in Nat \ {0} /\ l \in Nat /\ i <= l /\ l <= Len(buf) + 1
            /\ l - i = k /\ l - i <= Len(kn)
            /\ \A j \in 1 .. l - i : buf[i - 1 + j] = kn[j]
        BY <3>1, <3>3
      <4> HIDE DEF i, l
      <4>2. /\ IsPrefix(SubSeq(buf, i, l - 1), kn)
            /\ l - i = Len(kn) => SubSeq(buf, i, l - 1) = kn
        BY <1>2, <4>1, PartOfName
      <4> QED
        BY <4>1, <4>2 DEF i, l
    <3> QED
      BY <1>3, <3>2, <3>4
  \* It ends inside of the button or right behind it.
  <2>10. CASE n >= x + 6 /\ n <= x + 5 + lk
    <3>1. PICK k \in Nat : k <= lk /\ x + 6 + k = n + 1
      <4>1. n + 1 - (x + 6) \in Nat /\ n + 1 - (x + 6) <= lk /\ x + 6 + (n + 1 - (x + 6)) = n + 1
        BY <1>1, <1>3, <2>10
      <4> QED
        BY <4>1
    <3>2. k2 = n + 1
      <4>1. x + 6 \in 1 .. n + 1 /\ n + 1 \in x + 6 .. n + 1 /\ n + 1 > n
            /\ x + 6 + k <= n + 1
        BY <1>3, <2>10, <3>1
      <4>2. \A j \in x + 6 .. (n + 1) - 1 : buf[j] \notin Space
        <5>1. \A j \in x + 6 .. (x + 6 + k) - 1 : buf[j] \notin Space
          BY <2>9, <2>10, <3>1, <4>1
        <5> QED
          BY <3>1, <5>1
      <4>3. Until(buf, x + 6, Space) = n + 1
        BY <4>1, <4>2, UntilIs DEF n
      <4> QED
        BY <2>8, <2>10, <4>3
    <3>3. IsPrefix(SubSeq(buf, k1, k2 - 1), kn)
      <4>1. x + 6 + k <= n + 1
        BY <1>3, <3>1
      <4>2. k1 = x + 6 /\ k2 = x + 6 + k
        BY <2>8, <2>10, <3>1, <3>2
      <4> HIDE DEF k1, k2
      <4> QED
        BY <2>9, <2>10, <3>1, <4>1, <4>2
    <3>4. IsFrontOf(sscanf(buf), names)
      <4>1. SubSeq(buf, r1, r2 - 1) = <<>>
        BY <2>6, <3>2
      <4> HIDE DEF k1, k2, r1, r2
      <4> QED
        BY <1>5, <2>5, <3>3, <4>1 DEF IsFrontOf
    <3>5. ~ (n >= x + (7 + lk + lr))
      BY <1>1, <1>3, <2>10
    <3> HIDE DEF first, k1, k2, r1, r2
    <3> QED
      BY <1>5, <3>4, <3>5 DEF n
  \* It holds the button and the space behind it.
  <2>11. CASE n >= x + 6 + lk
    <3>1. k1 = x + 6
      BY <1>1, <1>3, <2>8, <2>11
    <3>2. k2 = x + 6 + lk
      <4>1. /\ n >= x + 6 /\ lk \in Nat /\ lk <= lk /\ x + 6 + lk <= n + 1
            /\ x + 6 \in 1 .. n + 1 /\ x + 6 + lk \in x + 6 .. n + 1
            /\ x + 6 + lk \in 1 .. n
        BY <1>1, <1>3, <1>14, <2>11
      <4>2. \A j \in x + 6 .. (x + 6 + lk) - 1 : buf[j] \notin Space
        BY <2>9, <4>1
      <4>3. buf[x + 6 + lk] \in Space
        BY <1>6, <1>9, <4>1
      <4>4. Until(buf, x + 6, Space) = x + 6 + lk
        BY <4>1, <4>2, <4>3, UntilIs DEF n
      <4> QED
        BY <3>1, <4>4
    <3>3. SubSeq(buf, k1, k2 - 1) = kn
      <4>1. n >= x + 6 /\ lk \in Nat /\ lk <= lk /\ x + 6 + lk <= n + 1
        BY <1>1, <1>3, <2>11
      <4> HIDE DEF k1, k2
      <4> QED
        BY <2>9, <3>1, <3>2, <4>1
    <3>4. r1 = x + 7 + lk
      <4>1. /\ x + 6 + lk \in 1 .. n + 1 /\ x + 7 + lk \in x + 6 + lk .. n + 1
            /\ x + 6 + lk \in 1 .. n
        BY <1>1, <1>3, <1>14, <2>11
      <4>2. x + 7 + lk > n \/ buf[x + 7 + lk] \notin Space
        <5>1. CASE x + 7 + lk <= n
          <6>1. 1 \in 1 .. lr /\ x + 6 + lk + 1 <= n /\ x + 6 + lk + 1 = x + 7 + lk
            BY <1>1, <1>3, <5>1
          <6> QED
            BY <1>2, <1>8, <6>1
        <5> QED
          BY <1>1, <1>3, <5>1
      <4>3. \A j \in x + 6 + lk .. (x + 7 + lk) - 1 : buf[j] \in Space
        <5>1. ASSUME NEW j \in x + 6 + lk .. (x + 7 + lk) - 1 PROVE buf[j] \in Space
          <6>1. j = x + 6 + lk
            BY <1>1, <1>3
          <6> QED
            BY <1>6, <1>9, <4>1, <6>1
        <5> QED
          BY <5>1
      <4>4. After(buf, x + 6 + lk, Space) = x + 7 + lk
        <5> DEFINE i == x + 6 + lk
                   a == x + 7 + lk
        <5>1. /\ i \in 1 .. n + 1 /\ a \in i .. n + 1 /\ (a > n \/ buf[a] \notin Space)
              /\ \A j \in i .. a - 1 : buf[j] \in Space
          BY <4>1, <4>2, <4>3
        <5> HIDE DEF i, a
        <5>2. After(buf, i, Space) = a
          BY <5>1, AfterIs DEF n
        <5> QED
          BY <5>2 DEF i, a
      <4> QED
        BY <3>2, <4>4
    <3>5. PICK k \in Nat : /\ k <= lr /\ x + 7 + lk + k <= n + 1
                           /\ k = lr \/ x + 7 + lk + k = n + 1
                           /\ n >= x + (7 + lk + lr) => k = lr
      <4>1. CASE n + 1 >= x + 7 + lk + lr
        BY <1>1, <1>3, <4>1
      <4>2. CASE ~ (n + 1 >= x + 7 + lk + lr)
        <5> DEFINE i == n + 1 - (x + 7 + lk)
        <5>1. /\ i \in Nat /\ i <= lr /\ x + 7 + lk + i <= n + 1 /\ x + 7 + lk + i = n + 1
              /\ ~ (n >= x + (7 + lk + lr))
          BY <1>1, <1>3, <2>11, <4>2
        <5> QED
          BY <5>1
      <4> QED
        BY <4>1, <4>2
    <3>6. ASSUME NEW j \in 1 .. k PROVE buf[(x + 7 + lk) - 1 + j] = rn[j]
      <4>1. j \in 1 .. lr /\ x + 6 + lk + j <= n /\ (x + 7 + lk) - 1 + j = x + 6 + lk + j
        BY <1>1, <1>3, <3>5
      <4> QED
        BY <1>8, <4>1
    <3>7. r2 = x + 7 + lk + k
      <4>1. /\ x + 7 + lk \in 1 .. n + 1 /\ x + 7 + lk + k \in x + 7 + lk .. n + 1
            /\ x + 7 + lk + k > n \/ x + 7 + lk + k \in 1 .. n
        BY <1>1, <1>3, <2>11, <3>5
      <4>2. x + 7 + lk + k > n \/ buf[x + 7 + lk + k] \in {Newline}
        <5>1. CASE x + 7 + lk + k \in 1 .. n
          <6>1. k = lr
            BY <1>1, <1>3, <3>5, <5>1
          <6> QED
            BY <1>6, <5>1, <6>1
        <5> QED
          BY <4>1, <5>1
      <4>3. ASSUME NEW j \in x + 7 + lk .. (x + 7 + lk + k) - 1 PROVE buf[j] \notin {Newline}
        <5>1. /\ j - (x + 6 + lk) \in 1 .. k /\ j - (x + 6 + lk) \in 1 .. lr
              /\ (x + 7 + lk) - 1 + (j - (x + 6 + lk)) = j
          BY <1>1, <1>3, <3>5
        <5> QED
          BY <1>2, <3>6, <5>1
      <4>4. Until(buf, x + 7 + lk, {Newline}) = x + 7 + lk + k
        <5> DEFINE i == x + 7 + lk
                   a == x + 7 + lk + k
        <5>1. /\ i \in 1 .. n + 1 /\ a \in i .. n + 1 /\ (a > n \/ buf[a] \in {Newline})
              /\ \A j \in i .. a - 1 : buf[j] \notin {Newline}
          BY <4>1, <4>2, <4>3
        <5> HIDE DEF i, a
        <5>2. Until(buf, i, {Newline}) = a
          BY <5>1, UntilIs DEF n
        <5> QED
          BY <5>2 DEF i, a
      <4> QED
        BY <3>4, <4>4
    <3>8. /\ IsPrefix(SubSeq(buf, r1, r2 - 1), rn)
          /\ k = lr => SubSeq(buf, r1, r2 - 1) = rn
      <4> HIDE DEF r1, r2
      <4>1. /\ r1 \in Nat \ {0} /\ r2 \in Nat /\ r1 <= r2 /\ r2 <= Len(buf) + 1
            /\ r2 - r1 = k /\ r2 - r1 <= Len(rn)
        <5>1. r1 = x + 7 + lk /\ r2 = r1 + k /\ r1 \in Nat \ {0}
          BY <1>1, <1>3, <2>11, <3>4, <3>7
        <5>2. k \in Nat /\ k <= lr /\ r1 + k <= n + 1
          BY <3>5, <5>1
        <5> QED
          BY <1>1, <1>3, <5>1, <5>2 DEF n
      <4>2. ASSUME NEW j \in 1 .. r2 - r1 PROVE buf[r1 - 1 + j] = rn[j]
        <5>1. j \in 1 .. k
          BY <4>1
        <5>2. r1 - 1 + j = (x + 7 + lk) - 1 + j
          BY <3>4
        <5> QED
          BY <3>6, <5>1, <5>2
      <4>3. /\ IsPrefix(SubSeq(buf, r1, r2 - 1), rn)
            /\ r2 - r1 = Len(rn) => SubSeq(buf, r1, r2 - 1) = rn
        BY <1>2, <4>1, <4>2, PartOfName
      <4> QED
        BY <1>3, <4>1, <4>3
    <3> HIDE DEF first, k1, k2, r1, r2
    <3>9. IsFrontOf(sscanf(buf), names)
      BY <1>5, <2>5, <3>3, <3>8 DEF IsFrontOf
    <3>10. n >= x + (7 + lk + lr) => sscanf(buf) = names
      BY <1>5, <2>5, <3>3, <3>5, <3>8
    <3> QED
      BY <1>5, <3>9, <3>10 DEF n
  <2>12. n <= x + 5 \/ (n >= x + 6 /\ n <= x + 5 + lk) \/ n >= x + 6 + lk
    BY <1>1, <1>3
  <2> QED
    BY <2>7, <2>10, <2>11, <2>12
<1>15. n < first \/ (n >= first /\ n <= x + 3) \/ n >= x + 4
  BY <1>3
<1> QED
  BY <1>11, <1>13, <1>14, <1>15

\* A buffer in which no number follows the first one before place m, which holds
\* neither a digit nor a space, gives nothing.
LEMMA NothingIsRead ==
  ASSUME NEW buf \in Seq(Chars), NEW m \in Nat \ {0},
         m <= Len(buf) => buf[m] \notin Hex \cup Space,
         \A p \in After(buf, 1, Space) + 1 .. m :
           p <= Len(buf) /\ buf[p - 1] \in Space => buf[p] \notin Hex
  PROVE  sscanf(buf) = NoNames
<1> DEFINE n == Len(buf)
           code == After(buf, 1, Space)
           e == After(buf, code, Hex)
           count == After(buf, e, Space)
<1>1. /\ n \in Nat
      /\ code \in 1 .. n + 1
      /\ \A j \in 1 .. code - 1 : buf[j] \in Space
  <2>1. 1 \in 1 .. Len(buf) + 1
    OBVIOUS
  <2> QED
    BY <2>1, AfterStops
<1>2. /\ e \in code .. n + 1
      /\ e > n \/ buf[e] \notin Hex
      /\ \A j \in code .. e - 1 : buf[j] \in Hex
  <2> HIDE DEF code
  <2> QED
    BY <1>1, AfterStops
<1>3. /\ count \in e .. n + 1
      /\ \A j \in e .. count - 1 : buf[j] \in Space
  <2>1. e \in 1 .. n + 1
    BY <1>1, <1>2
  <2> HIDE DEF e
  <2> QED
    BY <2>1, AfterStops
<1>4. /\ m <= n => buf[m] \notin Hex \cup Space
      /\ \A p \in code + 1 .. m : p <= n /\ buf[p - 1] \in Space => buf[p] \notin Hex
  OBVIOUS
<1>5. ASSUME code <= n, buf[code] \in Hex, count <= n, buf[count] \in Hex
      PROVE  FALSE
  <2> HIDE DEF n, code, e, count
  <2>1. e > code /\ count > code
    BY <1>1, <1>2, <1>3, <1>5
  <2>2. m >= code
    BY <1>1, <1>4, <1>5
  <2>3. m >= e
    BY <1>1, <1>2, <1>3, <1>4, <1>5, <2>2
  <2>4. m >= count
    BY <1>1, <1>2, <1>3, <1>4, <1>5, <2>3
  <2>5. count # e
    BY <1>1, <1>2, <1>3, <1>5
  <2>6. buf[count - 1] \in Space
    BY <1>1, <1>2, <1>3, <2>5
  <2>7. count \in code + 1 .. m
    BY <1>1, <1>2, <1>3, <2>1, <2>4
  <2> QED
    BY <1>4, <1>5, <2>6, <2>7
<1>6. code > n \/ buf[code] \notin Hex \/ count > n \/ buf[count] \notin Hex
  <2>1. code \in Int /\ count \in Int /\ n \in Int
    BY <1>1, <1>2, <1>3
  <2> HIDE DEF n, code, e, count
  <2> QED
    BY <1>5, <2>1
<1> QED
  BY <1>6, NoNumbers

\* A line of plain names that was cut behind its second character and before its
\* end gives nothing, whatever follows it.
LEMMA CutLine ==
  ASSUME NEW names \in Names, IsPlainLine(names),
         NEW c \in 3 .. Len(LineOf(names)) - 1, NEW buf \in Seq(Chars),
         \A k \in 1 .. Len(buf) :
           c - 1 + k <= Len(LineOf(names)) => buf[k] = LineOf(names)[c - 1 + k]
  PROVE  sscanf(buf) = NoNames
<1> DEFINE line == LineOf(names)
           kn == names.kn
           rn == names.rn
           lk == Len(names.kn)
           lr == Len(names.rn)
           n == Len(buf)
           code == After(buf, 1, Space)
<1>1. /\ lk \in Nat \ {0} /\ lr \in Nat \ {0} /\ Len(line) = 7 + lk + lr
      /\ line[3] = Blank /\ line[4] = "0" /\ line[5] = Blank
      /\ \A j \in 1 .. lk : line[5 + j] = kn[j]
      /\ line[6 + lk] = Blank
      /\ \A j \in 1 .. lr : line[6 + lk + j] = rn[j]
  BY LineShape
<1>2. /\ kn \in Seq(Chars) /\ rn \in Seq(Chars)
      /\ \A k \in 1 .. lk : kn[k] \notin Space
      /\ \A k \in 1 .. lr : rn[k] # Newline
  BY NamesShape
<1>3. n \in Nat /\ c \in 3 .. 6 + lk + lr /\ lk = Len(kn) /\ lr = Len(rn)
  <2>1. Len(LineOf(names)) = 7 + lk + lr /\ lk \in Nat /\ lr \in Nat
    BY <1>1
  <2>2. n \in Nat /\ lk = Len(kn) /\ lr = Len(rn)
    OBVIOUS
  <2> HIDE DEF lk, lr, kn, rn, n
  <2>3. c \in 3 .. 6 + lk + lr
    BY <2>1
  <2> QED
    BY <2>2, <2>3
<1>4. \A k \in 1 .. n : c - 1 + k <= 7 + lk + lr => buf[k] = line[c - 1 + k]
  BY <1>1
<1>5. /\ kn[1] \notin Hex /\ rn[1] \notin Hex
      /\ \A i \in 1 .. lr : i > 1 /\ rn[i - 1] = Blank => rn[i] \notin Hex
      /\ rn[lr] \notin Hex \cup Space
  <2>1. /\ \A i \in DOMAIN kn : (i = 1 \/ kn[i - 1] = Blank) => kn[i] \notin Hex
        /\ \A i \in DOMAIN rn : (i = 1 \/ rn[i - 1] = Blank) => rn[i] \notin Hex
        /\ rn[Len(rn)] \notin Hex \cup Space
    BY DEF IsPlainLine, IsPlain, Last
  <2>2. DOMAIN kn = 1 .. lk /\ DOMAIN rn = 1 .. lr /\ 1 \in 1 .. lk /\ 1 \in 1 .. lr
    BY <1>1, <1>2, <1>3
  <2> HIDE DEF kn, rn, lk, lr
  <2> QED
    BY <1>3, <2>1, <2>2
<1>6. code \in 1 .. n + 1 /\ (code > n \/ buf[code] \notin Space)
  <2>1. 1 \in 1 .. Len(buf) + 1
    OBVIOUS
  <2> QED
    BY <2>1, AfterStops
<1> DEFINE m == 7 + lk + lr - c
<1> HIDE DEF line, kn, rn, lk, lr, n, code
<1>7. m \in Nat \ {0} /\ (m <= n => buf[m] \notin Hex \cup Space)
  <2>1. m \in Nat \ {0} /\ c - 1 + m = 6 + lk + lr /\ lr \in 1 .. lr
    BY <1>1, <1>3
  <2> HIDE DEF m
  <2>2. ASSUME m <= n PROVE buf[m] = line[6 + lk + lr]
    <3>1. m \in 1 .. n /\ c - 1 + m <= 7 + lk + lr
      BY <1>1, <1>3, <2>1, <2>2
    <3> QED
      BY <1>4, <2>1, <3>1
  <2> QED
    BY <1>1, <1>5, <2>1, <2>2
<1>8. ASSUME NEW p \in code + 1 .. m, p <= n, buf[p - 1] \in Space
      PROVE  buf[p] \notin Hex
  <2> DEFINE q == c - 1 + p
  <2>1. /\ q \in 4 .. 6 + lk + lr /\ p - 1 \in 1 .. n /\ p \in 1 .. n
        /\ c - 1 + (p - 1) = q - 1
    BY <1>1, <1>3, <1>6, <1>8
  <2>2. buf[p] = line[q] /\ line[q - 1] \in Space
    <3>1. q <= 7 + lk + lr /\ c - 1 + (p - 1) <= 7 + lk + lr
      BY <1>1, <2>1
    <3>2. buf[p] = line[q] /\ buf[p - 1] = line[c - 1 + (p - 1)]
      BY <1>4, <2>1, <3>1
    <3> QED
      BY <1>8, <2>1, <3>2
  <2>3. q # 4
    <3>1. SUFFICES ASSUME q = 4 PROVE FALSE
      OBVIOUS
    <3>2. c = 3 /\ code = 1 /\ 1 \in 1 .. n /\ c - 1 + 1 = 3 /\ 3 <= 7 + lk + lr
      <4>1. c \in Nat /\ c >= 3 /\ code \in Nat /\ code >= 1 /\ p \in Nat /\ p >= code + 1
        BY <1>3, <1>6
      <4>2. c = 3 /\ code = 1 /\ p = 2
        BY <3>1, <4>1
      <4> QED
        BY <1>1, <1>3, <1>8, <4>2
    <3>3. buf[1] = Blank
      BY <1>1, <1>4, <3>2
    <3> QED
      BY <1>3, <1>6, <3>2, <3>3 DEF Space
  <2> HIDE DEF q
  <2>4. q # 5
    <3>1. SUFFICES ASSUME q = 5 PROVE FALSE
      OBVIOUS
    <3>2. line[4] \in Space
      BY <2>2, <3>1
    <3> QED
      BY <1>1, <3>2, Distinct DEF Space, Hex
  <2>5. CASE q = 6
    <3>1. 1 \in 1 .. lk /\ 5 + 1 = 6
      BY <1>1
    <3>2. line[6] = kn[1]
      BY <1>1, <3>1
    <3> QED
      BY <1>5, <2>2, <2>5, <3>2
  <2>6. ~ (q \in 7 .. 6 + lk)
    <3>1. SUFFICES ASSUME q \in 7 .. 6 + lk PROVE FALSE
      OBVIOUS
    <3>2. q - 6 \in 1 .. lk /\ 5 + (q - 6) = q - 1
      BY <1>1, <3>1
    <3> QED
      BY <1>1, <1>2, <2>2, <3>2
  <2>7. CASE q = 7 + lk
    <3>1. 1 \in 1 .. lr /\ 6 + lk + 1 = 7 + lk
      BY <1>1
    <3>2. line[7 + lk] = rn[1]
      BY <1>1, <3>1
    <3> QED
      BY <1>5, <2>2, <2>7, <3>2
  <2>8. CASE q \in 8 + lk .. 6 + lk + lr
    <3> DEFINE i == q - (6 + lk)
    <3>1. /\ i \in 1 .. lr /\ i > 1 /\ i - 1 \in 1 .. lr
          /\ 6 + lk + i = q /\ 6 + lk + (i - 1) = q - 1
      BY <1>1, <2>8
    <3> HIDE DEF i
    <3>2. line[q] = rn[i] /\ line[q - 1] = rn[i - 1]
      BY <1>1, <3>1
    <3>3. rn[i - 1] = Blank
      BY <1>2, <2>2, <3>1, <3>2 DEF Space
    <3> QED
      BY <1>5, <2>2, <3>1, <3>2, <3>3
  <2>9. q = 4 \/ q = 5 \/ q = 6 \/ q \in 7 .. 6 + lk \/ q = 7 + lk \/ q \in 8 + lk .. 6 + lk + lr
    BY <1>1, <2>1
  <2> QED
    BY <2>3, <2>4, <2>5, <2>6, <2>7, <2>8, <2>9
<1> HIDE DEF m
<1> QED
  BY <1>7, <1>8, NothingIsRead DEF n, code

-----------------------------------------------------------------------------
(* Where the lines are in the stream.                                      *)

\* Line i begins behind character o[i]; lines follow each other and there is
\* nothing else.
Layout(o) ==
  /\ o \in [1 .. Len(sent) + 1 -> Nat]
  /\ o[1] = 0 /\ o[Len(sent) + 1] = Len(stream)
  /\ \A i \in 1 .. Len(sent) : o[i + 1] = o[i] + Len(LineOf(sent[i]))
  /\ \A i \in 1 .. Len(sent) : \A k \in 1 .. Len(LineOf(sent[i])) :
       stream[o[i] + k] = LineOf(sent[i])[k]
  /\ \A i \in 1 .. Len(sent) + 1 : o[i] <= Len(stream) /\ Ends(o[i]) = i - 1
  /\ \A p \in 1 .. Len(stream) : \E i \in 1 .. Len(sent) : o[i] < p /\ p <= o[i + 1]

\* The buffer of a read.
LEMMA BufferShape ==
  ASSUME stream \in Seq(Chars), NEW from \in 0 .. Len(stream), NEW to \in from .. Len(stream)
  PROVE  /\ SubSeq(stream, from + 1, to) \in Seq(Chars)
         /\ Len(SubSeq(stream, from + 1, to)) = to - from
         /\ \A k \in 1 .. to - from : SubSeq(stream, from + 1, to)[k] = stream[from + k]
<1> DEFINE buf == SubSeq(stream, from + 1, to)
           i == from + 1
<1>1. \A k \in i .. to : stream[k] \in Chars
  BY ElementOfSeq
<1>2. i \in Int /\ to \in Int /\ Len(stream) \in Nat
  OBVIOUS
<1>3. /\ SubSeq(stream, i, to) \in Seq(Chars)
      /\ Len(SubSeq(stream, i, to)) = IF i <= to THEN to - i + 1 ELSE 0
      /\ \A k \in 1 .. to - i + 1 : SubSeq(stream, i, to)[k] = stream[i + k - 1]
  <2> HIDE DEF i
  <2> QED
    BY <1>1, <1>2, SubSeqProperties
<1> SUFFICES /\ buf \in Seq(Chars) /\ Len(buf) = to - from
             /\ \A k \in 1 .. to - from : buf[k] = stream[from + k]
  OBVIOUS
<1>4. /\ buf \in Seq(Chars)
      /\ Len(buf) = IF i <= to THEN to - i + 1 ELSE 0
      /\ \A k \in 1 .. to - i + 1 : buf[k] = stream[i + k - 1]
  BY <1>3
<1> HIDE DEF buf
<1>5. Len(buf) = to - from
  BY <1>2, <1>4
<1>6. ASSUME NEW k \in 1 .. to - from PROVE buf[k] = stream[from + k]
  <2>1. k \in 1 .. to - i + 1 /\ i + k - 1 = from + k
    BY <1>2
  <2> QED
    BY <1>4, <2>1
<1> QED
  BY <1>4, <1>5, <1>6

\* Lines that end among more characters are not fewer.
LEMMA EndsGrow ==
  ASSUME NEW a \in Nat, NEW b \in Nat, a <= b
  PROVE  /\ Ends(a) \in Nat /\ Ends(b) \in Nat /\ Ends(a) <= Ends(b)
         /\ (\A i \in a + 1 .. b : stream[i] # Newline) => Ends(a) = Ends(b)
         /\ (\E i \in a + 1 .. b : stream[i] = Newline) => Ends(a) < Ends(b)
<1> DEFINE A == {i \in 1 .. a : stream[i] = Newline}
           B == {i \in 1 .. b : stream[i] = Newline}
<1>1. IsFiniteSet(1 .. b)
  BY FS_Interval
<1>2. B \in SUBSET (1 .. b) /\ A \in SUBSET B
  OBVIOUS
<1>3. IsFiniteSet(B)
  BY <1>1, <1>2, FS_Subset
<1>4. /\ IsFiniteSet(A) /\ Cardinality(A) <= Cardinality(B)
      /\ Cardinality(B) = Cardinality(A) => B = A
  BY <1>2, <1>3, FS_Subset
<1>5. Cardinality(A) \in Nat /\ Cardinality(B) \in Nat
  BY <1>3, <1>4, FS_CardinalityType
<1>6. Ends(a) = Cardinality(A) /\ Ends(b) = Cardinality(B)
  BY DEF Ends
<1>7. ASSUME \A i \in a + 1 .. b : stream[i] # Newline PROVE A = B
  BY <1>7
<1>8. ASSUME NEW i \in a + 1 .. b, stream[i] = Newline PROVE A # B
  BY <1>8
<1> HIDE DEF A, B
<1> QED
  BY <1>4, <1>5, <1>6, <1>7, <1>8

\* A read that begins with a line and holds its end gives that line.
LEMMA WholeLine ==
  ASSUME sent \in Seq(Names), stream \in Seq(Chars), NEW o, Layout(o),
         NEW from \in 0 .. Len(stream), NEW to \in from .. Len(stream),
         AtLineStart(from), Ends(from) < Ends(to)
  PROVE  /\ Ends(from) + 1 \in 1 .. Len(sent)
         /\ sscanf(SubSeq(stream, from + 1, to)) = sent[Ends(from) + 1]
<1>1. Len(stream) \in Nat /\ Len(sent) \in Nat /\ from \in Nat /\ to \in Nat /\ from <= to
  OBVIOUS
<1>2. Ends(from) \in Nat /\ Ends(to) \in Nat
  BY <1>1, EndsGrow
<1>3. from < to
  BY <1>1, <1>2
<1>4. PICK i \in 1 .. Len(sent) : o[i] < from + 1 /\ from + 1 <= o[i + 1]
  <2>1. from + 1 \in 1 .. Len(stream)
    BY <1>1, <1>3
  <2> QED
    BY <2>1 DEF Layout
<1>5. sent[i] \in Names
  BY <1>1
<1> DEFINE line == LineOf(sent[i])
           len == Len(LineOf(sent[i]))
<1>6. /\ len \in Nat /\ o[i] \in Nat /\ o[i + 1] = o[i] + len
      /\ Ends(o[i]) = i - 1
      /\ \A k \in 1 .. len : stream[o[i] + k] = line[k]
  <2>1. len \in Nat
    BY <1>5, LineShape
  <2>2. i \in 1 .. Len(sent) + 1
    BY <1>1
  <2> QED
    BY <2>1, <2>2 DEF Layout
<1>7. \A k \in 1 .. len - 1 : line[k] # Newline
  BY <1>5, OneNewline
<1> HIDE DEF line, len
<1>8. o[i] = from
  <2>1. SUFFICES ASSUME o[i] < from PROVE FALSE
    BY <1>1, <1>4, <1>6
  <2> DEFINE k == from - o[i]
  <2>2. k \in 1 .. len - 1 /\ k \in 1 .. len /\ o[i] + k = from
    BY <1>1, <1>4, <1>6, <2>1
  <2> HIDE DEF k
  <2>3. stream[from] # Newline
    BY <1>6, <1>7, <2>2
  <2> QED
    BY <1>1, <1>6, <2>1, <2>3 DEF AtLineStart
<1>9. to >= from + len
  <2>1. SUFFICES ASSUME to < from + len PROVE FALSE
    BY <1>1, <1>6
  <2>2. ASSUME NEW j \in from + 1 .. to PROVE stream[j] # Newline
    <3>1. j - from \in 1 .. len - 1 /\ j - from \in 1 .. len /\ o[i] + (j - from) = j
      BY <1>1, <1>6, <1>8, <2>1
    <3> QED
      BY <1>6, <1>7, <3>1
  <2>3. Ends(from) = Ends(to)
    BY <1>1, <2>2, EndsGrow
  <2> QED
    BY <1>2, <2>3
<1> DEFINE buf == SubSeq(stream, from + 1, to)
<1>10. /\ buf \in Seq(Chars) /\ Len(buf) = to - from
       /\ \A k \in 1 .. to - from : buf[k] = stream[from + k]
  BY BufferShape
<1> HIDE DEF buf
<1>11. /\ \A k \in 1 .. Len(LineOf(sent[i])) :
            0 + k \in 1 .. Len(buf) => buf[0 + k] = LineOf(sent[i])[k]
       /\ Len(buf) >= 0 + Len(LineOf(sent[i]))
  <2>1. ASSUME NEW k \in 1 .. len PROVE buf[0 + k] = line[k]
    <3>1. k \in 1 .. to - from /\ 0 + k = k
      BY <1>1, <1>6, <1>9
    <3> QED
      BY <1>6, <1>8, <1>10, <3>1
  <2>2. Len(buf) >= 0 + len
    BY <1>1, <1>6, <1>9, <1>10
  <2> QED
    BY <2>1, <2>2 DEF line, len
<1>12. sscanf(buf) = sent[i]
  <2> DEFINE x == 0
  <2>1. /\ x \in {-1, 0, 1} /\ ~ (x = 1)
        /\ \A k \in 1 .. Len(LineOf(sent[i])) :
             x + k \in 1 .. Len(buf) => buf[x + k] = LineOf(sent[i])[k]
        /\ Len(buf) >= x + Len(LineOf(sent[i]))
    BY <1>11
  <2> HIDE DEF x
  <2> QED
    BY <1>5, <1>10, <2>1, FrontIsRead
<1> QED
  BY <1>1, <1>6, <1>8, <1>12 DEF buf

\* Of plain names every read gives a front of one line.
LEMMA FrontOfOne ==
  ASSUME sent \in Seq(Names), stream \in Seq(Chars), NEW o, Layout(o),
         NEW from \in 0 .. Len(stream), NEW to \in from .. Len(stream), to > 0,
         \A i \in DOMAIN sent : IsPlainLine(sent[i])
  PROVE  \E i \in DOMAIN sent : IsFrontOf(sscanf(SubSeq(stream, from + 1, to)), sent[i])
<1>1. /\ Len(stream) \in Nat /\ Len(sent) \in Nat /\ from \in Nat /\ to \in Nat /\ from <= to
      /\ DOMAIN sent = 1 .. Len(sent)
  OBVIOUS
<1> DEFINE buf == SubSeq(stream, from + 1, to)
<1>2. /\ buf \in Seq(Chars) /\ Len(buf) = to - from
      /\ \A k \in 1 .. to - from : buf[k] = stream[from + k]
  BY BufferShape
<1> HIDE DEF buf
\* A front of line i, which begins behind character from + x.
<1>3. ASSUME NEW i \in 1 .. Len(sent), NEW x \in {-1, 0, 1},
             to = from \/ o[i] = from + x,
             x = 1 => to = from \/ stream[from + 1] = Newline
      PROVE  IsFrontOf(sscanf(buf), sent[i])
  <2>1. sent[i] \in Names
    BY <1>1
  <2>2. ASSUME NEW k \in 1 .. Len(LineOf(sent[i])), x + k \in 1 .. Len(buf)
        PROVE  buf[x + k] = LineOf(sent[i])[k]
    <3>1. o[i] = from + x /\ o[i] + k = from + (x + k)
      <4>1. to # from
        BY <1>1, <1>2, <2>2
      <4>2. k \in Nat
        OBVIOUS
      <4> QED
        BY <1>1, <1>3, <4>1, <4>2
    <3>2. stream[o[i] + k] = LineOf(sent[i])[k]
      BY DEF Layout
    <3> QED
      BY <1>2, <2>2, <3>1, <3>2
  <2>3. ASSUME x = 1, Len(buf) >= 1 PROVE buf[1] = Newline
    BY <1>1, <1>2, <1>3, <2>3
  <2> QED
    BY <1>2, <2>1, <2>2, <2>3, FrontIsRead
<1>4. PICK i \in 1 .. Len(sent) : o[i] < to /\ to <= o[i + 1]
  <2>1. to \in 1 .. Len(stream)
    BY <1>1
  <2> QED
    BY <2>1 DEF Layout
<1>5. CASE to = from
  <2> DEFINE x == 0
  <2>1. x \in {-1, 0, 1} /\ ~ (x = 1)
    OBVIOUS
  <2> HIDE DEF x
  <2>2. IsFrontOf(sscanf(buf), sent[i])
    BY <1>3, <1>5, <2>1
  <2> QED
    BY <1>1, <2>2 DEF buf
<1>6. CASE from < to
  <2>1. PICK j \in 1 .. Len(sent) : o[j] < from + 1 /\ from + 1 <= o[j + 1]
    <3>1. from + 1 \in 1 .. Len(stream)
      BY <1>1, <1>6
    <3> QED
      BY <3>1 DEF Layout
  <2>2. sent[j] \in Names
    BY <1>1
  <2> DEFINE line == LineOf(sent[j])
             len == Len(LineOf(sent[j]))
             c == from + 1 - o[j]
  <2>3. /\ len \in Nat /\ len >= 3 /\ o[j] \in Nat /\ o[j + 1] = o[j] + len
        /\ \A k \in 1 .. len : stream[o[j] + k] = line[k]
        /\ line[len] = Newline
    <3>1. len \in Nat /\ len >= 3 /\ line[len] = Newline
      <4> DEFINE lk == Len(sent[j].kn)
                 lr == Len(sent[j].rn)
      <4>1. lk \in Nat /\ lr \in Nat /\ len = 7 + lk + lr /\ line[7 + lk + lr] = Newline
        BY <2>2, LineShape
      <4> HIDE DEF line, len, lk, lr
      <4> QED
        BY <4>1
    <3>2. j \in 1 .. Len(sent) + 1
      BY <1>1
    <3> QED
      BY <3>1, <3>2 DEF Layout
  <2>4. c \in 1 .. len /\ from = o[j] + (c - 1)
    <3> HIDE DEF len
    <3>1. o[j] \in Nat /\ len \in Nat /\ o[j] < from + 1 /\ from + 1 <= o[j] + len
      BY <2>1, <2>3
    <3> QED
      BY <1>1, <3>1
  <2> HIDE DEF c
  <2>5. CASE c = 1 \/ c = 2
    <3> DEFINE x == 1 - c
    <3>1. x \in {-1, 0, 1} /\ ~ (x = 1)
      BY <2>5
    <3>2. o[j] = from + x
      <4> HIDE DEF len, line
      <4>1. o[j] \in Nat /\ from = o[j] + (c - 1)
        BY <2>3, <2>4
      <4> QED
        BY ONLY <1>1, <2>5, <4>1
    <3> HIDE DEF x
    <3>3. IsFrontOf(sscanf(buf), sent[j])
      BY <1>3, <3>1, <3>2
    <3> QED
      BY <1>1, <3>3 DEF buf
  <2>6. CASE c = len
    <3>1. from + 1 = o[j] + len /\ stream[from + 1] = Newline
      <4> HIDE DEF len, line
      <4>1. from + 1 = o[j] + len /\ len \in 1 .. len
        <5>1. o[j] \in Nat /\ len \in Nat /\ len >= 3 /\ from = o[j] + (len - 1)
          BY <2>3, <2>4, <2>6
        <5> QED
          BY ONLY <1>1, <5>1
      <4> QED
        BY <2>3, <4>1
    <3> DEFINE x == 1
    <3>2. x \in {-1, 0, 1} /\ x = 1
      OBVIOUS
    <3>3. CASE j < Len(sent)
      <4>1. j + 1 \in 1 .. Len(sent) /\ o[j + 1] = from + x
        BY <1>1, <2>3, <3>1, <3>3
      <4> HIDE DEF x
      <4>2. IsFrontOf(sscanf(buf), sent[j + 1])
        BY <1>3, <3>1, <3>2, <4>1
      <4> QED
        BY <1>1, <4>1, <4>2 DEF buf
    <3>4. CASE j = Len(sent)
      <4>1. to = from + 1
        <5>1. o[j + 1] = Len(stream)
          BY <3>4 DEF Layout
        <5> QED
          BY <1>1, <1>6, <2>3, <3>1, <5>1
      <4>2. \A k \in 1 .. Len(LineOf(sent[j])) : ~ (x + k \in 1 .. Len(buf))
        BY <1>1, <1>2, <4>1
      <4>3. buf[1] = Newline
        BY <1>1, <1>2, <3>1, <4>1
      <4> HIDE DEF x
      <4>4. IsFrontOf(sscanf(buf), sent[j])
        BY <1>2, <2>2, <3>2, <4>2, <4>3, FrontIsRead
      <4> QED
        BY <1>1, <4>4 DEF buf
    <3>5. j < Len(sent) \/ j = Len(sent)
      <4>1. Len(sent) \in Nat /\ j \in 1 .. Len(sent)
        BY <1>1
      <4> QED
        BY <4>1, SMT
    <3> HIDE DEF x, len, line
    <3> QED
      BY <3>3, <3>4, <3>5
  <2>7. CASE c \in 3 .. len - 1
    <3>1. ASSUME NEW k \in 1 .. Len(buf), c - 1 + k <= len
          PROVE  buf[k] = line[c - 1 + k]
      <4>1. /\ k \in 1 .. to - from /\ c - 1 + k \in 1 .. len
            /\ from + k = o[j] + (c - 1 + k)
        <5> HIDE DEF len, line
        <5>1. o[j] \in Nat /\ c \in Nat /\ c >= 3 /\ from = o[j] + (c - 1) /\ k \in Nat /\ k >= 1
          BY <2>3, <2>4, <2>7
        <5>2. from + k = o[j] + (c - 1 + k)
          BY ONLY <1>1, <5>1
        <5>3. c - 1 + k \in 1 .. len
          BY <2>3, <3>1, <5>1
        <5> QED
          BY <1>2, <5>2, <5>3
      <4> QED
        BY <1>2, <2>3, <4>1
    <3>2. sscanf(buf) = NoNames
      BY <1>1, <1>2, <2>2, <2>7, <3>1, CutLine
    <3>3. IsFrontOf(NoNames, sent[j])
      <4>1. sent[j].kn \in Seq(Chars) /\ sent[j].rn \in Seq(Chars)
        BY <2>2, NamesShape
      <4> QED
        BY <4>1, NothingIsPrefix DEF IsFrontOf, NoNames
    <3> QED
      BY <1>1, <3>2, <3>3 DEF buf
  <2>8. c = 1 \/ c = 2 \/ c = len \/ c \in 3 .. len - 1
    <3> HIDE DEF len
    <3> QED
      BY <2>3, <2>4
  <2> QED
    BY <2>5, <2>6, <2>7, <2>8
<1> QED
  BY <1>1, <1>5, <1>6

-----------------------------------------------------------------------------
(* The invariant.                                                          *)

\* The stream is the lines that were sent, the last read ends where the next
\* begins and gave what sscanf_s makes of it, and a network that does not cut
\* stops between lines.
StreamInv ==
  /\ TypeOK
  /\ stream \in Seq(Chars)
  /\ \E o : Layout(o)
  /\ last.to = start
  /\ last.names = sscanf(SubSeq(stream, last.from + 1, last.to))
  /\ ~ cuts => AtLineStart(start) /\ AtLineStart(arrived)

\* sscanf_s finds nothing in an empty buffer.
LEMMA EmptyRead == sscanf(<<>>) = NoNames
<1>1. <<>> \in Seq(Chars) /\ Len(<<>>) = 0 /\ Len(<<>>) + 1 = 1
  OBVIOUS
<1>2. After(<<>>, 1, Space) = 1
  BY <1>1, AtTheEnd
<1>3. After(<<>>, 1, Space) > Len(<<>>)
  BY <1>1, <1>2
<1> QED
  BY <1>1, <1>3, NoNumbers

LEMMA InitStream == Init => StreamInv
<1> SUFFICES ASSUME Init PROVE StreamInv
  OBVIOUS
<1>1. /\ sent = <<>> /\ stream = <<>> /\ arrived = 0 /\ start = 0 /\ pos = 0
      /\ last.from = 0 /\ last.to = 0 /\ last.names = NoNames
      /\ off \in BOOLEAN /\ cuts \in BOOLEAN
  BY DEF Init
<1>2. /\ Len(sent) = 0 /\ Len(stream) = 0 /\ sent \in Seq([kn : Buttons, rn : Remotes])
      /\ stream \in Seq(Chars)
  BY <1>1
<1>3. TypeOK
  BY <1>1, <1>2, SizeAssumption DEF TypeOK, Got
<1>4. Layout([i \in 1 .. 1 |-> 0])
  <2>1. Ends(0) = 0
    <3>1. {i \in 1 .. 0 : stream[i] = Newline} = {}
      OBVIOUS
    <3> QED
      BY <3>1, FS_EmptySet DEF Ends
  <2> DEFINE o == [i \in 1 .. 1 |-> 0]
  <2>2. o \in [1 .. Len(sent) + 1 -> Nat] /\ o[1] = 0 /\ Len(sent) + 1 = 1
    BY <1>2
  <2> HIDE DEF o
  <2>3. Layout(o)
    BY <1>2, <2>1, <2>2 DEF Layout
  <2> QED
    BY <2>3 DEF o
<1>5. SubSeq(stream, last.from + 1, last.to) = <<>>
  BY <1>1, SubSeqEmpty
<1> QED
  BY <1>1, <1>2, <1>3, <1>4, <1>5, EmptyRead DEF StreamInv, AtLineStart

\* A line is put behind the others.
LEMMA DaemonSendsStream == StreamInv /\ DaemonSends => StreamInv'
<1> SUFFICES ASSUME StreamInv, DaemonSends PROVE StreamInv'
  OBVIOUS
<1>1. PICK names \in Names :
        sent' = Append(sent, names) /\ stream' = stream \o LineOf(names)
  BY DEF DaemonSends, Names
<1>2. /\ Len(sent) < MaxLines
      /\ arrived' = arrived /\ start' = start /\ pos' = pos
      /\ last' = last /\ off' = off /\ cuts' = cuts
  BY DEF DaemonSends
<1>3. PICK o : Layout(o)
  BY DEF StreamInv
<1>4. TypeOK /\ stream \in Seq(Chars) /\ sent \in Seq(Names)
  BY DEF StreamInv, TypeOK, Names
<1> DEFINE line == LineOf(names)
           len == Len(LineOf(names))
<1>0. PICK n, m : n = Len(stream) /\ m = Len(sent)
  OBVIOUS
<1>5. line \in Seq(Chars) /\ len \in Nat \ {0} /\ line[len] = Newline
  <2> DEFINE lk == Len(names.kn)
             lr == Len(names.rn)
  <2>1. lk \in Nat /\ lr \in Nat /\ line \in Seq(Chars) /\ len = 7 + lk + lr /\ line[7 + lk + lr] = Newline
    BY LineShape
  <2> HIDE DEF line, len, lk, lr
  <2> QED
    BY <2>1
<1>6. \A k \in 1 .. len - 1 : line[k] # Newline
  BY OneNewline
<1>7. n \in Nat /\ m \in Nat /\ arrived \in 0 .. n /\ start \in 0 .. n
      /\ last.to \in 0 .. n /\ last.from \in 0 .. last.to
  <2>1. n \in Nat /\ m \in Nat
    BY <1>0, <1>4
  <2> QED
    BY <1>0, <1>4, <2>1 DEF TypeOK
<1>8. /\ stream' \in Seq(Chars) /\ Len(stream') = n + len
      /\ \A k \in 1 .. n : stream'[k] = stream[k]
      /\ \A k \in 1 .. len : stream'[n + k] = line[k]
  BY <1>0, <1>1, <1>4, <1>5, Joined
<1>9. /\ sent' \in Seq(Names) /\ Len(sent') = m + 1
      /\ \A i \in 1 .. m : sent'[i] = sent[i]
      /\ sent'[m + 1] = names
  BY <1>0, <1>1, <1>4, AppendProperties
<1> HIDE DEF line, len
<1>10. ASSUME NEW k \in 0 .. n PROVE Ends(k)' = Ends(k)
  <2>1. {i \in 1 .. k : stream'[i] = Newline} = {i \in 1 .. k : stream[i] = Newline}
    <3>1. \A i \in 1 .. k : i \in 1 .. n
      BY <1>7
    <3> QED
      BY <1>8, <3>1
  <2> QED
    BY <2>1 DEF Ends
<1>11. Ends(n + len)' = Ends(n) + 1
  <2> DEFINE A == {i \in 1 .. n : stream[i] = Newline}
             B == {i \in 1 .. n + len : stream'[i] = Newline}
  <2>1. B = A \cup {n + len}
    <3>1. ASSUME NEW i \in 1 .. n PROVE i \in B <=> i \in A
      BY <1>5, <1>7, <1>8
    <3>2. ASSUME NEW i \in n + 1 .. n + len PROVE i \in B <=> i = n + len
      <4> DEFINE k == i - n
      <4>1. k \in 1 .. len /\ n + k = i /\ i \in 1 .. n + len /\ (i = n + len <=> k = len)
        BY <1>5, <1>7
      <4> HIDE DEF k
      <4>2. stream'[i] = line[k]
        BY <1>8, <4>1
      <4>3. line[k] = Newline <=> k = len
        <5>1. k = len \/ k \in 1 .. len - 1
          BY <1>5, <4>1
        <5>2. k \in 1 .. len - 1 => k # len
          BY <1>5
        <5> QED
          BY <1>5, <1>6, <5>1, <5>2
      <4> QED
        BY <4>1, <4>2, <4>3
    <3>3. B \subseteq 1 .. n + len /\ A \subseteq 1 .. n /\ n + len \in n + 1 .. n + len
      BY <1>5, <1>7
    <3>4. \A i : i \in 1 .. n + len <=> i \in 1 .. n \/ i \in n + 1 .. n + len
      BY <1>5, <1>7
    <3>5. n + len \notin 1 .. n
      BY <1>5, <1>7
    <3> HIDE DEF A, B
    <3> QED
      BY <3>1, <3>2, <3>3, <3>4, <3>5
  <2>2. n + len \notin A
    BY <1>5, <1>7
  <2>3. IsFiniteSet(A)
    <3>1. IsFiniteSet(1 .. n) /\ A \in SUBSET (1 .. n)
      BY <1>7, FS_Interval
    <3> HIDE DEF A
    <3> QED
      BY <3>1, FS_Subset
  <2>4. Ends(n) = Cardinality(A) /\ Ends(n + len)' = Cardinality(B)
    BY DEF Ends
  <2> HIDE DEF A, B
  <2> QED
    BY <2>1, <2>2, <2>3, <2>4, FS_AddElement
<1>12. PICK o2 : o2 = [i \in 1 .. m + 2 |-> IF i <= m + 1 THEN o[i] ELSE n + len]
  OBVIOUS
<1>13. /\ o \in [1 .. m + 1 -> Nat] /\ o[1] = 0 /\ o[m + 1] = n
       /\ \A i \in 1 .. m : o[i + 1] = o[i] + Len(LineOf(sent[i]))
       /\ \A i \in 1 .. m : \A k \in 1 .. Len(LineOf(sent[i])) :
            stream[o[i] + k] = LineOf(sent[i])[k]
       /\ \A i \in 1 .. m + 1 : o[i] <= n /\ Ends(o[i]) = i - 1
       /\ \A p \in 1 .. n : \E i \in 1 .. m : o[i] < p /\ p <= o[i + 1]
  BY <1>0, <1>3 DEF Layout
<1>14. \A i \in 1 .. m : sent[i] \in Names /\ Len(LineOf(sent[i])) \in Nat
  <2>1. ASSUME NEW i \in 1 .. m PROVE sent[i] \in Names
    BY <1>0, <1>4, ElementOfSeq
  <2>2. ASSUME NEW i \in 1 .. m PROVE Len(LineOf(sent[i])) \in Nat
    BY <2>1, LineShape
  <2> QED
    BY <2>1, <2>2
<1>15. /\ \A i \in 1 .. m + 1 : o2[i] = o[i]
       /\ o2[m + 2] = n + len
       /\ o2 \in [1 .. m + 2 -> Nat]
  <2>1. \A i \in 1 .. m + 2 : (IF i <= m + 1 THEN o[i] ELSE n + len) \in Nat
    <3>1. ASSUME NEW i \in 1 .. m + 2, i <= m + 1 PROVE o[i] \in Nat
      BY <1>7, <1>13, <3>1
    <3> QED
      BY <1>5, <1>7, <3>1
  <2> QED
    BY <1>5, <1>7, <1>12, <2>1
<1>16. Layout(o2)'
  <2>1. o2 \in [1 .. Len(sent') + 1 -> Nat] /\ o2[1] = 0 /\ o2[Len(sent') + 1] = Len(stream')
    <3>1. Len(sent') + 1 = m + 2 /\ 1 \in 1 .. m + 1
      BY <1>7, <1>9
    <3> QED
      BY <1>8, <1>13, <1>15, <3>1
  <2>2. ASSUME NEW i \in 1 .. m
        PROVE  /\ o2[i + 1] = o2[i] + Len(LineOf(sent'[i]))
               /\ \A k \in 1 .. Len(LineOf(sent'[i])) : stream'[o2[i] + k] = LineOf(sent'[i])[k]
    <3>1. i \in 1 .. m + 1 /\ i + 1 \in 1 .. m + 1 /\ sent'[i] = sent[i]
      BY <1>7, <1>9
    <3>2. o2[i] = o[i] /\ o2[i + 1] = o[i + 1]
      BY <1>15, <3>1
    <3>3. ASSUME NEW k \in 1 .. Len(LineOf(sent[i])) PROVE o[i] + k \in 1 .. n
      <4>1. /\ o[i] \in Nat /\ o[i + 1] \in Nat /\ o[i + 1] <= n
            /\ o[i + 1] = o[i] + Len(LineOf(sent[i]))
        BY <1>13, <3>1
      <4> QED
        BY <1>7, <1>14, <4>1
    <3> QED
      BY <1>8, <1>13, <3>1, <3>2, <3>3
  <2>3. /\ o2[m + 1 + 1] = o2[m + 1] + Len(LineOf(sent'[m + 1]))
        /\ \A k \in 1 .. Len(LineOf(sent'[m + 1])) :
             stream'[o2[m + 1] + k] = LineOf(sent'[m + 1])[k]
    <3>1. /\ sent'[m + 1] = names /\ o2[m + 1] = n /\ o2[m + 1 + 1] = n + len
      <4>1. m + 1 \in 1 .. m + 1 /\ m + 1 + 1 = m + 2
        BY <1>7
      <4> QED
        BY <1>9, <1>13, <1>15, <4>1
    <3> QED
      BY <1>8, <3>1 DEF line, len
  <2>4. ASSUME NEW i \in 1 .. Len(sent')
        PROVE  /\ o2[i + 1] = o2[i] + Len(LineOf(sent'[i]))
               /\ \A k \in 1 .. Len(LineOf(sent'[i])) : stream'[o2[i] + k] = LineOf(sent'[i])[k]
    <3>1. i \in 1 .. m \/ i = m + 1
      BY <1>7, <1>9
    <3> QED
      BY <2>2, <2>3, <3>1
  <2>5. ASSUME NEW i \in 1 .. Len(sent') + 1
        PROVE  o2[i] <= Len(stream') /\ Ends(o2[i])' = i - 1
    <3>1. i \in 1 .. m + 1 \/ i = m + 2
      BY <1>7, <1>9
    <3>2. CASE i \in 1 .. m + 1
      <4>1. o2[i] = o[i] /\ o[i] \in 0 .. n /\ Ends(o[i]) = i - 1
        <5>1. o[i] \in Nat /\ o[i] <= n /\ Ends(o[i]) = i - 1
          BY <1>13, <3>2
        <5> QED
          BY <1>7, <1>15, <3>2, <5>1
      <4>2. Ends(o2[i])' = i - 1
        BY <1>10, <4>1
      <4> QED
        BY <1>5, <1>7, <1>8, <4>1, <4>2
    <3>3. CASE i = m + 2
      <4>1. m + 1 \in 1 .. m + 1 /\ m + 1 - 1 = m /\ m + 2 - 1 = m + 1
        BY <1>7
      <4>2. Ends(n) = m
        <5>1. Ends(o[m + 1]) = (m + 1) - 1 /\ (m + 1) - 1 = m
          BY <1>7, <1>13, <4>1
        <5> QED
          BY <1>13, <5>1
      <4>3. o2[i] = n + len
        BY <1>15, <3>3
      <4>4. Ends(o2[i])' = m + 1
        BY <1>11, <4>2, <4>3
      <4> QED
        BY <1>5, <1>7, <1>8, <3>3, <4>1, <4>3, <4>4
    <3> QED
      BY <3>1, <3>2, <3>3
  <2>6. ASSUME NEW p \in 1 .. Len(stream')
        PROVE  \E i \in 1 .. Len(sent') : o2[i] < p /\ p <= o2[i + 1]
    <3>1. p \in 1 .. n \/ p \in n + 1 .. n + len
      BY <1>5, <1>7, <1>8
    <3>2. CASE p \in 1 .. n
      <4>1. PICK i \in 1 .. m : o[i] < p /\ p <= o[i + 1]
        BY <1>13, <3>2
      <4>2. /\ i \in 1 .. Len(sent') /\ i \in 1 .. m + 1 /\ i + 1 \in 1 .. m + 1
        BY <1>7, <1>9
      <4>3. o2[i] < p /\ p <= o2[i + 1]
        BY <1>15, <4>1, <4>2
      <4> QED
        BY <4>2, <4>3
    <3>3. CASE p \in n + 1 .. n + len
      <4>1. m + 1 \in 1 .. Len(sent') /\ m + 1 \in 1 .. m + 1 /\ m + 1 + 1 = m + 2
        BY <1>7, <1>9
      <4>2. o2[m + 1] < p /\ p <= o2[m + 1 + 1]
        BY <1>5, <1>7, <1>13, <1>15, <3>3, <4>1
      <4> QED
        BY <4>1, <4>2
    <3> QED
      BY <3>1, <3>2, <3>3
  <2> QED
    BY <2>1, <2>4, <2>5, <2>6 DEF Layout
<1>17. TypeOK'
  <2>1. sent' \in Seq([kn : Buttons, rn : Remotes]) /\ Len(sent') <= MaxLines
    BY <1>0, <1>2, <1>7, <1>9, SizeAssumption DEF Names
  <2>2. arrived' \in 0 .. Len(stream')
    BY <1>2, <1>5, <1>7, <1>8
  <2> QED
    BY <1>2, <1>4, <2>1, <2>2 DEF TypeOK, Got
<1>18. SubSeq(stream, last.from + 1, last.to)' = SubSeq(stream, last.from + 1, last.to)
  <2>1. PICK a, b : a = last.from /\ b = last.to /\ a \in 0 .. n /\ b \in a .. n
    <3>1. last.from \in 0 .. n /\ last.to \in last.from .. n
      BY <1>7
    <3> QED
      BY <3>1
  <2> DEFINE s == SubSeq(stream, a + 1, b)
             t == SubSeq(stream', a + 1, b)
  <2>2. s \in Seq(Chars) /\ Len(s) = b - a /\ \A k \in 1 .. b - a : s[k] = stream[a + k]
    BY <1>0, <1>4, <2>1, BufferShape
  <2>3. t \in Seq(Chars) /\ Len(t) = b - a /\ \A k \in 1 .. b - a : t[k] = stream'[a + k]
    <3>1. a \in 0 .. Len(stream') /\ b \in a .. Len(stream') /\ stream' \in Seq(Chars)
      BY <1>5, <1>7, <1>8, <2>1
    <3>2. \A k \in a + 1 .. b : stream'[k] \in Chars
      BY <3>1, ElementOfSeq
    <3> DEFINE c == a + 1
    <3>3. c \in Int /\ b \in Int /\ \A k \in c .. b : stream'[k] \in Chars
      BY <1>7, <2>1, <3>2
    <3> HIDE DEF c
    <3>4. /\ SubSeq(stream', c, b) \in Seq(Chars)
          /\ Len(SubSeq(stream', c, b)) = IF c <= b THEN b - c + 1 ELSE 0
          /\ \A k \in 1 .. b - c + 1 : SubSeq(stream', c, b)[k] = stream'[c + k - 1]
      BY <3>3, SubSeqProperties
    <3>5. /\ t \in Seq(Chars)
          /\ Len(t) = IF c <= b THEN b - c + 1 ELSE 0
          /\ \A k \in 1 .. b - c + 1 : t[k] = stream'[c + k - 1]
      BY <3>4 DEF c
    <3> HIDE DEF t
    <3>6. Len(t) = b - a
      BY <1>7, <2>1, <3>5 DEF c
    <3>7. ASSUME NEW k \in 1 .. b - a PROVE t[k] = stream'[a + k]
      <4>1. k \in 1 .. b - c + 1 /\ c + k - 1 = a + k
        BY <1>7, <2>1 DEF c
      <4> QED
        BY <3>5, <4>1
    <3> QED
      BY <3>5, <3>6, <3>7
  <2>4. \A k \in 1 .. b - a : stream'[a + k] = stream[a + k]
    <3>1. ASSUME NEW k \in 1 .. b - a PROVE a + k \in 1 .. n
      BY <1>7, <2>1
    <3> QED
      BY <1>8, <3>1
  <2>5. s = t
    <3> HIDE DEF s, t
    <3>1. Len(s) = Len(t) /\ \A k \in 1 .. Len(s) : s[k] = t[k]
      BY <2>2, <2>3, <2>4
    <3> QED
      BY <2>2, <2>3, <3>1, SeqEqual
  <2> QED
    BY <1>2, <2>1, <2>5
<1>19. ASSUME NEW k \in 0 .. n, AtLineStart(k) PROVE AtLineStart(k)'
  <2>1. k = 0 \/ k \in 1 .. n
    BY <1>7
  <2> QED
    BY <1>8, <1>19, <2>1 DEF AtLineStart
<1>20. (~ cuts => AtLineStart(start) /\ AtLineStart(arrived))'
  <2>1. PICK a, b : a = start /\ b = arrived
    OBVIOUS
  <2>2. ASSUME ~ cuts PROVE AtLineStart(a)' /\ AtLineStart(b)'
    BY <1>7, <1>19, <2>1, <2>2 DEF StreamInv
  <2> QED
    BY <1>2, <2>1, <2>2
<1>21. (last.to = start)' /\ (last.names = sscanf(SubSeq(stream, last.from + 1, last.to)))'
  <2>1. /\ last.to = start
        /\ last.names = sscanf(SubSeq(stream, last.from + 1, last.to))
    BY DEF StreamInv
  <2>2. sscanf(SubSeq(stream, last.from + 1, last.to))' = sscanf(SubSeq(stream, last.from + 1, last.to))
    BY <1>18
  <2> QED
    BY <1>2, <2>1, <2>2
<1> QED
  BY <1>8, <1>16, <1>17, <1>20, <1>21 DEF StreamInv

\* What is said of the lines stays true while the stream does not change.
LEMMA SameLines ==
  ASSUME UNCHANGED <<sent, stream>>, \E o : Layout(o)
  PROVE  /\ (\E o : Layout(o))'
         /\ \A n : AtLineStart(n)' = AtLineStart(n)
<1>1. ASSUME NEW o, Layout(o) PROVE Layout(o)'
  <2>1. \A n : Ends(n)' = Ends(n)
    BY DEF Ends
  <2> QED
    BY <1>1, <2>1 DEF Layout
<1>2. \A n : AtLineStart(n)' = AtLineStart(n)
  BY DEF AtLineStart
<1> QED
  BY <1>1, <1>2

LEMMA ArrivesStream == StreamInv /\ Arrives => StreamInv'
<1> SUFFICES ASSUME StreamInv, Arrives PROVE StreamInv'
  OBVIOUS
<1>1. PICK n \in arrived + 1 .. Len(stream) : (cuts \/ stream[n] = Newline) /\ arrived' = n
  BY DEF Arrives
<1>2. UNCHANGED <<sent, stream, start, pos, last, off, cuts>>
  BY DEF Arrives
<1>3. /\ TypeOK /\ stream \in Seq(Chars) /\ last.to = start
      /\ last.names = sscanf(SubSeq(stream, last.from + 1, last.to))
      /\ ~ cuts => AtLineStart(start)
  BY DEF StreamInv
<1>4. (\E o : Layout(o))' /\ \A k : AtLineStart(k)' = AtLineStart(k)
  BY <1>2, SameLines DEF StreamInv
<1>5. Len(stream) \in Nat /\ arrived \in Nat /\ arrived <= n
  BY <1>1, <1>3 DEF TypeOK
<1>6. TypeOK'
  <2>1. arrived' \in 0 .. Len(stream') /\ pos' \in 0 .. arrived'
    BY <1>1, <1>2, <1>3, <1>5 DEF TypeOK
  <2> QED
    BY <1>2, <1>3, <2>1 DEF TypeOK, Got
<1>7. (~ cuts => AtLineStart(start) /\ AtLineStart(arrived))'
  <2>1. PICK a : a = start
    OBVIOUS
  <2>2. ASSUME ~ cuts PROVE AtLineStart(a)' /\ AtLineStart(n)'
    BY <1>1, <1>3, <1>4, <2>1, <2>2 DEF AtLineStart
  <2> QED
    BY <1>1, <1>2, <2>1, <2>2
<1> QED
  BY <1>2, <1>3, <1>4, <1>6, <1>7 DEF StreamInv

\* recv, the switch and select leave the lines and what was read alone.
LEMMA OthersStream ==
  StreamInv /\ (Receives \/ Disables \/ SelectsNothing \/ UNCHANGED vars) => StreamInv'
<1> SUFFICES ASSUME StreamInv, Receives \/ Disables \/ SelectsNothing \/ UNCHANGED vars
             PROVE  StreamInv'
  OBVIOUS
<1>1. UNCHANGED <<sent, stream, arrived, start, last, cuts>>
  BY DEF Receives, Disables, SelectsNothing, vars
<1>2. TypeOK
  BY DEF StreamInv
<1>3. /\ BUF_SIZ \in Nat \ {0} /\ Len(stream) \in Nat /\ arrived \in Nat /\ start \in Nat
      /\ pos \in Nat
  <2>1. Len(stream) \in Nat
    BY DEF StreamInv
  <2> QED
    BY <1>2, <2>1, SizeAssumption DEF TypeOK
<1>4. pos' \in 0 .. arrived' /\ start' \in 0 .. pos' /\ pos' - start' <= BUF_SIZ /\ off' \in BOOLEAN
  <2>1. CASE Receives
    <3>1. CASE arrived - start < BUF_SIZ
      BY <1>1, <1>2, <1>3, <2>1, <3>1 DEF TypeOK, Receives, Got
    <3>2. CASE ~ (arrived - start < BUF_SIZ)
      BY <1>1, <1>2, <1>3, <2>1, <3>2 DEF TypeOK, Receives, Got
    <3> QED
      BY <3>1, <3>2
  <2>2. CASE Disables \/ SelectsNothing \/ UNCHANGED vars
    <3>1. pos' = pos /\ (off' = TRUE \/ off' = off)
      BY <2>2 DEF Disables, SelectsNothing, vars
    <3> QED
      BY <1>1, <1>2, <1>3, <3>1 DEF TypeOK, Got
  <2> QED
    BY <2>1, <2>2
<1>5. TypeOK'
  BY <1>1, <1>2, <1>4 DEF TypeOK, Got
<1>6. (\E o : Layout(o))' /\ \A k : AtLineStart(k)' = AtLineStart(k)
  BY <1>1, SameLines DEF StreamInv
<1>7. (~ cuts => AtLineStart(start) /\ AtLineStart(arrived))'
  <2>1. PICK a, b : a = start /\ b = arrived
    OBVIOUS
  <2>2. ASSUME ~ cuts PROVE AtLineStart(a)' /\ AtLineStart(b)'
    BY <1>6, <2>1, <2>2 DEF StreamInv
  <2> QED
    BY <1>1, <2>1, <2>2
<1> QED
  BY <1>1, <1>5, <1>6, <1>7 DEF StreamInv

\* The next read begins where this one ended.
LEMMA ParsesStream == StreamInv /\ Parses => StreamInv'
<1> SUFFICES ASSUME StreamInv, Parses PROVE StreamInv'
  OBVIOUS
<1>1. /\ UNCHANGED <<sent, stream, arrived, pos, off, cuts>>
      /\ pos = arrived /\ Got \in 1 .. BUF_SIZ - 1 /\ start' = pos
      /\ last' = [from |-> start, to |-> pos, names |-> sscanf(SubSeq(stream, start + 1, pos))]
  BY DEF Parses
<1>2. TypeOK /\ Len(stream) \in Nat
  BY DEF StreamInv
<1>3. /\ last'.from = start /\ last'.to = pos
      /\ last'.names = sscanf(SubSeq(stream, start + 1, pos))
  BY <1>1
<1>4. arrived \in Nat /\ start \in Nat /\ pos \in Nat /\ BUF_SIZ \in Nat \ {0} /\ start <= pos
  BY <1>2, SizeAssumption DEF TypeOK
<1>5. TypeOK'
  BY <1>1, <1>2, <1>3, <1>4 DEF TypeOK, Got
<1>6. (\E o : Layout(o))' /\ \A k : AtLineStart(k)' = AtLineStart(k)
  BY <1>1, SameLines DEF StreamInv
<1>7. (~ cuts => AtLineStart(start) /\ AtLineStart(arrived))'
  <2>1. PICK a : a = arrived
    OBVIOUS
  <2>2. ASSUME ~ cuts PROVE AtLineStart(a)'
    BY <1>6, <2>1, <2>2 DEF StreamInv
  <2> QED
    BY <1>1, <2>1, <2>2
<1>8. (last.names = sscanf(SubSeq(stream, last.from + 1, last.to)))'
  BY <1>1, <1>3
<1> QED
  BY <1>1, <1>3, <1>5, <1>6, <1>7, <1>8 DEF StreamInv

\* The invariant holds in every reachable state.
THEOREM StreamInvariant == Spec => []StreamInv
<1>1. Init => StreamInv
  BY InitStream
<1>2. StreamInv /\ [Next]_vars => StreamInv'
  BY DaemonSendsStream, ArrivesStream, OthersStream, ParsesStream DEF Next
<1> QED
  BY <1>1, <1>2, PTL DEF Spec

\* recv never writes behind the end of the buffer that readn was given, and no
\* read goes beyond what has arrived (wdevnetlib.cpp, readn).
THEOREM TypeCorrect == Spec => []TypeOK
<1>1. StreamInv => TypeOK
  BY DEF StreamInv
<1> QED
  BY <1>1, StreamInvariant, PTL

\* Where the last read was, and that it is what sscanf_s made of the stream.
LEMMA LastRead ==
  ASSUME StreamInv
  PROVE  /\ sent \in Seq(Names) /\ stream \in Seq(Chars)
         /\ last.from \in 0 .. Len(stream) /\ last.to \in last.from .. Len(stream)
         /\ last.names = sscanf(SubSeq(stream, last.from + 1, last.to))
<1>1. Len(stream) \in Nat
  BY DEF StreamInv
<1> QED
  BY <1>1 DEF StreamInv, TypeOK, Names

\* A read that begins with a line and holds all of it gives the names of that
\* line, for every set of names (wdevfoo_lirc.cpp, the sscanf_s on line 138).
THEOREM WholeLinesExact == Spec => []ExactUnlessCut
<1>1. ASSUME StreamInv PROVE ExactUnlessCut
  <2>1. PICK from, to : from = last.from /\ to = last.to
    OBVIOUS
  <2>2. PICK o : Layout(o)
    BY <1>1 DEF StreamInv
  <2>3. ASSUME AtLineStart(from), Ends(from) < Ends(to)
        PROVE  sscanf(SubSeq(stream, from + 1, to)) = sent[Ends(from) + 1]
    BY <1>1, <2>1, <2>2, <2>3, LastRead, WholeLine
  <2> QED
    BY <1>1, <2>1, <2>3, LastRead DEF ExactUnlessCut
<1> QED
  BY <1>1, StreamInvariant, PTL

\* Whatever the network does to the lines, a read gives a front of one of them,
\* as long as the names are plain.
THEOREM NeverMixed == Spec => []FrontsOfLines
<1>1. ASSUME StreamInv PROVE FrontsOfLines
  <2>1. PICK from, to : from = last.from /\ to = last.to
    OBVIOUS
  <2>2. PICK o : Layout(o)
    BY <1>1 DEF StreamInv
  <2>3. ASSUME to > 0, \A i \in DOMAIN sent : IsPlainLine(sent[i])
        PROVE  \E i \in DOMAIN sent : IsFrontOf(sscanf(SubSeq(stream, from + 1, to)), sent[i])
    BY <1>1, <2>1, <2>2, <2>3, LastRead, FrontOfOne
  <2> QED
    BY <1>1, <2>1, <2>3, LastRead DEF FrontsOfLines
<1> QED
  BY <1>1, StreamInvariant, PTL

\* Without cuts every read gives the first key that was not read.
THEOREM FirstUnreadKey == Spec => KeyPerRead
<1>1. ASSUME StreamInv, [Next]_vars, ~ cuts, last' # last
      PROVE  last'.names = sent[Ends(last.to) + 1]
  <2>1. Parses
    BY <1>1 DEF Next, vars, DaemonSends, Arrives, Receives, Disables, SelectsNothing
  <2>2. /\ pos = arrived /\ Got \in 1 .. BUF_SIZ - 1
        /\ last'.names = sscanf(SubSeq(stream, start + 1, pos))
    BY <2>1 DEF Parses
  <2>3. /\ last.to = start /\ AtLineStart(start) /\ AtLineStart(arrived) /\ TypeOK
        /\ Len(stream) \in Nat
    BY <1>1 DEF StreamInv
  <2>4. PICK from, to : from = start /\ to = pos
    OBVIOUS
  <2>5. /\ from \in 0 .. Len(stream) /\ to \in from .. Len(stream) /\ from < to
        /\ AtLineStart(from) /\ stream[to] = Newline
    <3>1. /\ start \in Nat /\ pos \in Nat /\ start < pos /\ pos <= Len(stream)
      BY <2>2, <2>3, SizeAssumption DEF TypeOK, Got
    <3>2. stream[pos] = Newline
      BY <2>2, <2>3, <3>1 DEF AtLineStart
    <3> QED
      BY <2>3, <2>4, <3>1, <3>2
  <2>6. Ends(from) < Ends(to)
    <3>1. from \in Nat /\ to \in Nat /\ from <= to /\ to \in from + 1 .. to
      BY <2>3, <2>5
    <3> QED
      BY <2>5, <3>1, EndsGrow
  <2>7. PICK o : Layout(o)
    BY <1>1 DEF StreamInv
  <2>8. sscanf(SubSeq(stream, from + 1, to)) = sent[Ends(from) + 1]
    BY <1>1, <2>5, <2>6, <2>7, LastRead, WholeLine
  <2> QED
    BY <2>2, <2>3, <2>4, <2>8
<1>2. StreamInv /\ [Next]_vars => [~ cuts /\ last' # last => last'.names = sent[Ends(last.to) + 1]]_vars
  BY <1>1
<1> QED
  BY <1>2, StreamInvariant, PTL DEF Spec, KeyPerRead
=============================================================================
