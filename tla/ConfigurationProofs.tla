------------------------- MODULE ConfigurationProofs -------------------------
(***************************************************************************)
(* Proofs about the configuration: Settings, for every set of addresses    *)
(* and ports, and CfgStore, for all lists of assignments with any names    *)
(* and every value of the integers.                                        *)
(*                                                                         *)
(* The second part goes from bytes to files: the bytes of a number make up *)
(* the number, the data of a list hold each entry behind the one before,   *)
(* a file holds these data and the port, the reader finds in the file what *)
(* was put there, and each of its steps keeps what it has read a front of  *)
(* what was stored.                                                        *)
(***************************************************************************)
EXTENDS Settings, CfgStore, SequenceTheorems, WellFoundedInduction, TLAPS

-----------------------------------------------------------------------------
(* Settings.                                                               *)

\* The properties, and that a dialog is one of a running process, which the
\* start of the process needs to leave no dialog to compare with.
SettingsInv == TypeOK /\ ConfigHolds /\ GreyIsApplied /\ (open => running)

LEMMA SettingsInit == Init => SettingsInv
<1> SUFFICES ASSUME Init PROVE SettingsInv
  OBVIOUS
<1>1. Defaults \in Configs
  BY DefaultsAssumption DEF Defaults, Configs
<1>2. TypeOK
  BY <1>1, DefaultsAssumption DEF Init, TypeOK
<1> QED
  BY <1>2 DEF Init, SettingsInv, ConfigHolds, GreyIsApplied

LEMMA ProcessSettings ==
  ASSUME SettingsInv, on_init \/ Exit \/ ProcessGone
  PROVE  SettingsInv'
<1>1. CASE on_init
  BY <1>1 DEF on_init, SettingsInv, TypeOK, ConfigHolds, GreyIsApplied, Configs, dialog
<1>2. CASE Exit
  BY <1>2 DEF Exit, SettingsInv, TypeOK, ConfigHolds, GreyIsApplied, globals, dialog
<1>3. CASE ProcessGone
  BY <1>3 DEF ProcessGone, NoDialog, SettingsInv, TypeOK, ConfigHolds, GreyIsApplied, globals
<1> QED
  BY <1>1, <1>2, <1>3

LEMMA ButtonsSettings ==
  ASSUME SettingsInv, OnInitDialog \/ OnClose \/ OnEnabledClicked \/ OnBnClickedApply
  PROVE  SettingsInv'
<1>1. CASE OnInitDialog
  BY <1>1 DEF OnInitDialog, SettingsInv, TypeOK, ConfigHolds, GreyIsApplied, globals
<1>2. CASE OnClose
  BY <1>2 DEF OnClose, NoDialog, SettingsInv, TypeOK, ConfigHolds, GreyIsApplied, globals
<1>3. CASE OnEnabledClicked
  BY <1>3 DEF OnEnabledClicked, SettingsInv, TypeOK, ConfigHolds, GreyIsApplied, globals
<1>4. CASE OnBnClickedApply
  BY <1>4 DEF OnBnClickedApply, SettingsInv, TypeOK, ConfigHolds, GreyIsApplied, Configs
<1> QED
  BY <1>1, <1>2, <1>3, <1>4

LEMMA AddressSettings ==
  ASSUME SettingsInv, NEW a \in Addrs \cup {None}, OnIpnFieldchangedIpaddress(a)
  PROVE  SettingsInv'
<1>1. config' \in Configs /\ config'.enabled = config.enabled /\ config'.port = config.port
  BY DEF OnIpnFieldchangedIpaddress, SettingsInv, TypeOK, Configs
<1> QED
  BY <1>1 DEF OnIpnFieldchangedIpaddress, SettingsInv, TypeOK, ConfigHolds, GreyIsApplied, globals

LEMMA PortSettings ==
  ASSUME SettingsInv, NEW p \in Ports \cup {None}, OnEnChangePort(p)
  PROVE  SettingsInv'
<1>1. config' \in Configs /\ config'.enabled = config.enabled /\ config'.addr = config.addr
  BY DEF OnEnChangePort, SettingsInv, TypeOK, Configs
<1>2. port' \in Ports /\ (port = config.port => port' = config'.port)
  BY DEF OnEnChangePort, SettingsInv, TypeOK, Configs
<1> QED
  BY <1>1, <1>2 DEF OnEnChangePort, SettingsInv, TypeOK, ConfigHolds, GreyIsApplied

\* A number of 32 bits is cut to the 16 bits of a port.
LEMMA PortOfSocket == ASSUME NEW p \in Ports PROVE htons(p) \in PortNumbers
<1>1. p \in Nat
  BY PortsAssumption
<1> DEFINE h == p % 65536
           top == 65535
<1>2. h \in Nat /\ h <= top /\ top \in Nat
  BY ONLY <1>1, SMT
<1> HIDE DEF h, top
<1>3. h \in 0 .. top
  BY ONLY <1>2
<1>4. htons(p) = h /\ PortNumbers = 0 .. top
  BY DEF htons, PortNumbers, h, top
<1> QED
  BY <1>3, <1>4

LEMMA PeerOfPort == ASSUME NEW a \in Addrs, NEW h \in PortNumbers PROVE <<a, h>> \in Peers
BY DEF Peers

LEMMA ThreadSettings ==
  ASSUME SettingsInv, Connects \/ Disconnects \/ Disables
  PROVE  SettingsInv'
<1>1. CASE Connects
  <2>1. htons(port) \in PortNumbers
    BY PortOfSocket DEF SettingsInv, TypeOK
  <2>2. addr \in Addrs /\ peer' = <<addr, htons(port)>>
    BY <1>1 DEF Connects, SettingsInv, TypeOK
  <2>3. <<addr, htons(port)>> \in Peers
    BY <2>1, <2>2, PeerOfPort
  <2>4. peer' \in Peers
    BY <2>2, <2>3
  <2> QED
    BY <1>1, <2>4 DEF Connects, SettingsInv, TypeOK, ConfigHolds, GreyIsApplied, globals, dialog
<1>2. CASE Disconnects
  BY <1>2 DEF Disconnects, SettingsInv, TypeOK, ConfigHolds, GreyIsApplied, globals, dialog
<1>3. CASE Disables
  BY <1>3 DEF Disables, SettingsInv, TypeOK, ConfigHolds, GreyIsApplied, dialog
<1> QED
  BY <1>1, <1>2, <1>3

LEMMA SettingsNext == SettingsInv /\ [Next]_vars => SettingsInv'
<1> SUFFICES ASSUME SettingsInv, [Next]_vars PROVE SettingsInv'
  OBVIOUS
<1>1. CASE UNCHANGED vars
  BY <1>1 DEF vars, globals, dialog, SettingsInv, TypeOK, ConfigHolds, GreyIsApplied
<1>2. CASE Next
  BY <1>2, ProcessSettings, ButtonsSettings, AddressSettings, PortSettings, ThreadSettings DEF Next
<1> QED
  BY <1>1, <1>2

LEMMA SettingsSpec == Spec => []SettingsInv
BY SettingsInit, SettingsNext, PTL DEF Spec

\* Types, and a peer with a port of 16 bits whatever number was typed.
THEOREM SettingsTypes == Spec => []TypeOK
<1>1. SettingsInv => TypeOK
  BY DEF SettingsInv
<1> QED
  BY <1>1, SettingsSpec, PTL

\* Memory and configuration agree, up to an overflow and an address that waits
\* for Apply, over edits, overflows, exits, crashes and restarts.
THEOREM ConfigurationHolds == Spec => []ConfigHolds
<1>1. SettingsInv => ConfigHolds
  BY DEF SettingsInv
<1> QED
  BY <1>1, SettingsSpec, PTL

\* A grey button means that nothing waits for it.
THEOREM NothingWaitsForGrey == Spec => []GreyIsApplied
<1>1. SettingsInv => GreyIsApplied
  BY DEF SettingsInv
<1> QED
  BY <1>1, SettingsSpec, PTL

-----------------------------------------------------------------------------
(* CfgStore: what is written.                                              *)

\* What a list may hold once a block was misread.
AnyEntries == [kn : Seq(Nat), rn : Seq(Nat), naction : Int]

\* The number in the four cells of f behind the i-th.
Word(f, i) == f[i + 1] + 256 * f[i + 2] + 65536 * f[i + 3] + 16777216 * f[i + 4]

-----------------------------------------------------------------------------
(* Numbers.                                                                *)

\* Induction up to n, over a set.
LEMMA Upwards ==
  ASSUME NEW n \in Nat, NEW S, 0 \in S, \A i \in 1 .. n : i - 1 \in S => i \in S
  PROVE  0 .. n \subseteq S
<1> DEFINE Rest == (0 .. n) \ S
<1>1. SUFFICES ASSUME Rest # {} PROVE FALSE
  OBVIOUS
<1>2. Rest \subseteq Nat
  OBVIOUS
<1>3. PICK x \in Rest : \A y \in Rest : ~ (<<y, x>> \in OpToRel(<, Nat))
  BY <1>1, <1>2, NatLessThanWellFounded, WFMin
<1>4. x \in 1 .. n /\ x - 1 \in 0 .. n /\ x \notin S
  <2>1. x \in 0 .. n /\ x \notin S
    OBVIOUS
  <2>2. x # 0
    BY <2>1
  <2> QED
    BY <2>1, <2>2
<1>5. x - 1 \in Rest
  BY <1>4
<1>6. <<x - 1, x>> \in OpToRel(<, Nat)
  BY <1>4 DEF OpToRel
<1> QED
  BY <1>3, <1>5, <1>6

LEMMA MaxIntIsNat == MaxInt \in Nat
BY SMT DEF MaxInt

\* An unsigned int can hold what an int can.
LEMMA IntFits == ASSUME NEW x \in 0 .. MaxInt PROVE x \in Nat /\ x \div 2 <= MaxInt
<1>1. x \in Nat /\ x <= MaxInt
  BY MaxIntIsNat, SMT
<1>2. x \div 2 \in Nat /\ x \div 2 <= x
  BY <1>1, SMT
<1> QED
  BY <1>1, <1>2, MaxIntIsNat, SMT

LEMMA LowByte ==
  ASSUME NEW x \in Nat
  PROVE  \E q, r \in Nat : r < 256 /\ x = 256 * q + r
<1>1. /\ x \div 256 \in Nat /\ x % 256 \in Nat /\ x % 256 < 256
      /\ x = 256 * (x \div 256) + (x % 256)
  BY SMT
<1> DEFINE q == x \div 256
           r == x % 256
<1>2. q \in Nat /\ r \in Nat /\ r < 256 /\ x = 256 * q + r
  BY <1>1
<1> HIDE DEF q, r
<1> QED
  BY <1>2

\* The bytes of a number make up the number.
LEMMA FourBytes ==
  ASSUME NEW x \in Nat, x \div 2 <= MaxInt
  PROVE  (x % 256) + 256 * (x \div 256 % 256) + 65536 * (x \div 65536 % 256)
           + 16777216 * (x \div 16777216 % 256) = x
<1>1. x \in Nat
  OBVIOUS
<1>2. PICK q1, r1 \in Nat : r1 < 256 /\ x = 256 * q1 + r1
  BY <1>1, LowByte
<1>3. PICK q2, r2 \in Nat : r2 < 256 /\ q1 = 256 * q2 + r2
  BY <1>2, LowByte
<1>4. PICK q3, r3 \in Nat : r3 < 256 /\ q2 = 256 * q3 + r3
  BY <1>3, LowByte
<1>5. x % 256 = r1 /\ x \div 256 = q1
  BY <1>1, <1>2, SMT
<1>6. x \div 65536 = q2 /\ q1 % 256 = r2
  BY <1>1, <1>2, <1>3, SMT
<1>7. x \div 16777216 = q3 /\ q2 % 256 = r3
  BY <1>1, <1>2, <1>3, <1>4, SMT
<1>8. q3 < 256
  BY <1>1, <1>2, <1>3, <1>4, SMT DEF MaxInt
<1>9. q3 % 256 = q3
  BY <1>4, <1>8, SMT
<1> QED
  BY <1>1, <1>2, <1>3, <1>4, <1>5, <1>6, <1>7, <1>9, SMT

LEMMA LendianBytes ==
  ASSUME NEW x \in Int, NEW n \in {4, 8}
  PROVE  lendian(x, n) \in Seq(Nat) /\ Len(lendian(x, n)) = n
<1>1. /\ x % 256 \in Nat /\ x \div 256 % 256 \in Nat /\ x \div 65536 % 256 \in Nat
      /\ x \div 16777216 % 256 \in Nat
  BY SMT
<1> DEFINE b(i) == CASE i = 1 -> x % 256
                     [] i = 2 -> x \div 256 % 256
                     [] i = 3 -> x \div 65536 % 256
                     [] i = 4 -> x \div 16777216 % 256
                     [] OTHER -> 0
<1>2. \A i \in 1 .. n : b(i) \in Nat
  BY <1>1, SMT
<1>3. lendian(x, n) = [i \in 1 .. n |-> b(i)]
  BY SMT DEF lendian
<1> HIDE DEF b
<1>4. n \in Nat
  BY SMT
<1>5. lendian(x, n) \in Seq(Nat)
  BY <1>2, <1>3, <1>4, IsASeq, SMT
<1>6. DOMAIN lendian(x, n) = 1 .. n
  BY <1>3, SMT
<1> QED
  BY <1>4, <1>5, <1>6, SMT

LEMMA LendianWord ==
  ASSUME NEW x \in Nat, x \div 2 <= MaxInt, NEW n \in {4, 8}
  PROVE  Word(lendian(x, n), 0) = x
<1>1. /\ lendian(x, n)[1] = x % 256
      /\ lendian(x, n)[2] = x \div 256 % 256
      /\ lendian(x, n)[3] = x \div 65536 % 256
      /\ lendian(x, n)[4] = x \div 16777216 % 256
  BY SMT DEF lendian
<1> QED
  BY <1>1, FourBytes, SMT DEF Word

-----------------------------------------------------------------------------
(* What get_data_raw writes.                                               *)

\* Where the cells of a concatenation are.
LEMMA Joined ==
  ASSUME NEW S, NEW s1 \in Seq(S), NEW s2 \in Seq(S)
  PROVE  /\ s1 \o s2 \in Seq(S)
         /\ Len(s1 \o s2) = Len(s1) + Len(s2)
         /\ \A i \in 1 .. Len(s1) : (s1 \o s2)[i] = s1[i]
         /\ \A i \in 1 .. Len(s2) : (s1 \o s2)[Len(s1) + i] = s2[i]
<1>1. /\ s1 \o s2 \in Seq(S)
      /\ Len(s1 \o s2) = Len(s1) + Len(s2)
      /\ \A i \in 1 .. Len(s1) + Len(s2) :
           (s1 \o s2)[i] = IF i <= Len(s1) THEN s1[i] ELSE s2[i - Len(s1)]
  BY ConcatProperties
<1>2. Len(s1) \in Nat /\ Len(s2) \in Nat
  OBVIOUS
<1> DEFINE d == s1 \o s2
           m == Len(s1)
           n == Len(s2)
<1>3. m \in Nat /\ n \in Nat
  BY <1>2
<1>4. \A i \in 1 .. m + n : d[i] = IF i <= m THEN s1[i] ELSE s2[i - m]
  BY <1>1
<1> SUFFICES (\A i \in 1 .. m : d[i] = s1[i]) /\ \A i \in 1 .. n : d[m + i] = s2[i]
  BY <1>1
<1> HIDE DEF d, m, n
<1>5. ASSUME NEW i \in 1 .. m PROVE d[i] = s1[i]
  <2>1. i \in 1 .. m + n /\ i <= m
    BY <1>3
  <2> QED
    BY <1>4, <2>1
<1>6. ASSUME NEW i \in 1 .. n PROVE d[m + i] = s2[i]
  <2> DEFINE j == m + i
  <2>1. j \in 1 .. m + n /\ ~ (j <= m) /\ j - m = i
    BY <1>3
  <2> HIDE DEF j
  <2>2. d[j] = s2[i]
    BY <1>4, <2>1
  <2> QED
    BY <2>2 DEF j
<1> QED
  BY <1>5, <1>6

LEMMA BytesJoined ==
  ASSUME NEW s1 \in Seq(Nat), NEW s2 \in Seq(Nat)
  PROVE  /\ s1 \o s2 \in Seq(Nat)
         /\ Len(s1 \o s2) = Len(s1) + Len(s2)
         /\ \A i \in 1 .. Len(s1) : (s1 \o s2)[i] = s1[i]
         /\ \A i \in 1 .. Len(s2) : (s1 \o s2)[Len(s1) + i] = s2[i]
BY Joined, SMT

LEMMA CellsJoined ==
  ASSUME NEW s1 \in Seq(Int), NEW s2 \in Seq(Int)
  PROVE  /\ s1 \o s2 \in Seq(Int)
         /\ Len(s1 \o s2) = Len(s1) + Len(s2)
         /\ \A i \in 1 .. Len(s1) : (s1 \o s2)[i] = s1[i]
         /\ \A i \in 1 .. Len(s2) : (s1 \o s2)[Len(s1) + i] = s2[i]
BY Joined, SMT

\* Written is what its recursive definition says.
LEMMA WrittenIs ==
  ASSUME NEW l, Len(l) \in Nat
  PROVE  Written(l) = [i \in 0 .. Len(l) |->
                         IF i = 0 THEN lendian(Len(l), size_t)
                                  ELSE Written(l)[i - 1] \o Entry(l[i])]
<1> DEFINE n == Len(l)
           b == lendian(Len(l), size_t)
           e(i) == Entry(l[i])
           To(g, m) == [i \in 0 .. m |-> IF i = 0 THEN b ELSE g[i - 1] \o e(i)]
           Has == {m \in Nat : \E g : g = To(g, m)}
<1>1. Written(l) = CHOOSE g : g = To(g, n)
  BY DEF Written
<1>2. n \in Nat
  OBVIOUS
<1> SUFFICES Written(l) = To(Written(l), n)
  OBVIOUS
<1> HIDE DEF n, b, e
<1>3. 0 \in Has
  <2> DEFINE g == [i \in 0 .. 0 |-> b]
  <2>1. g = To(g, 0)
    OBVIOUS
  <2> QED
    BY <2>1
<1>4. ASSUME NEW m \in 1 .. n, m - 1 \in Has PROVE m \in Has
  <2>1. PICK g : g = To(g, m - 1)
    BY <1>4
  <2>2. m \in Nat /\ m # 0 /\ m - 1 \in 0 .. m - 1 /\ m - 1 \in 0 .. m /\ m - 1 # m
    BY <1>2
  <2> DEFINE h == [i \in 0 .. m |-> IF i = m THEN g[m - 1] \o e(m) ELSE g[i]]
  <2>3. ASSUME NEW i \in 0 .. m
        PROVE  h[i] = IF i = 0 THEN b ELSE h[i - 1] \o e(i)
    <3>1. CASE i = m
      <4>1. h[i] = g[m - 1] \o e(m) /\ h[i - 1] = g[m - 1]
        BY <2>2, <3>1
      <4> QED
        BY <2>2, <3>1, <4>1
    <3>2. CASE i # m
      <4>1. i \in 0 .. m - 1
        BY <2>2, <3>2
      <4>2. h[i] = g[i]
        BY <3>2
      <4>3. g[i] = IF i = 0 THEN b ELSE g[i - 1] \o e(i)
        BY <2>1, <4>1
      <4>4. i # 0 => h[i - 1] = g[i - 1]
        BY <2>2, <4>1
      <4> HIDE DEF h
      <4> QED
        BY <4>2, <4>3, <4>4
    <3> QED
      BY <3>1, <3>2
  <2>4. h = To(h, m)
    <3>1. h = [i \in 0 .. m |-> h[i]]
      OBVIOUS
    <3> HIDE DEF h
    <3> QED
      BY <2>3, <3>1
  <2> QED
    BY <2>2, <2>4
<1>5. 0 .. n \subseteq Has
  <2> HIDE DEF Has
  <2> QED
    BY <1>2, <1>3, <1>4, Upwards
<1>6. \E g : g = To(g, n)
  <2> HIDE DEF Has
  <2>1. n \in Has
    BY <1>2, <1>5
  <2> QED
    BY <2>1 DEF Has
<1> HIDE DEF To
<1> QED
  BY <1>1, <1>6

\* Where the fields of an entry are.
LEMMA EntryShape ==
  ASSUME NEW e \in AnyEntries
  PROVE  LET lr == Len(e.rn)
             lk == Len(e.kn)
         IN  /\ lr \in Nat /\ lk \in Nat
             /\ Entry(e) \in Seq(Nat) /\ Len(Entry(e)) = 18 + lr + lk
             /\ \A m \in 1 .. lr : Entry(e)[12 + m] = e.rn[m]
             /\ Entry(e)[13 + lr] = 0
             /\ \A m \in 1 .. lk : Entry(e)[13 + lr + m] = e.kn[m]
             /\ Entry(e)[14 + lr + lk] = 0
             /\ \A m \in 1 .. 4 : Entry(e)[14 + lr + lk + m] = lendian(e.naction, 4)[m]
<1> DEFINE lr == Len(e.rn)
           lk == Len(e.kn)
           rn == e.rn
           kn == e.kn
           x == lendian(0, 8)
           y == lendian(0, 4)
           z == <<0>>
           num == lendian(e.naction, 4)
           a == x \o y
           b == a \o rn
           c == b \o z
           d == c \o kn
           f == d \o z
           g == f \o num
<1>1. /\ rn \in Seq(Nat) /\ kn \in Seq(Nat) /\ lr = Len(rn) /\ lk = Len(kn)
      /\ lr \in Nat /\ lk \in Nat
      /\ z \in Seq(Nat) /\ Len(z) = 1 /\ z[1] = 0
  BY DEF AnyEntries
<1>2. /\ x \in Seq(Nat) /\ Len(x) = 8
      /\ y \in Seq(Nat) /\ Len(y) = 4
      /\ num \in Seq(Nat) /\ Len(num) = 4
  BY LendianBytes DEF AnyEntries
<1>3. Entry(e) = g
  BY DEF Entry
<1> SUFFICES
      /\ g \in Seq(Nat) /\ Len(g) = 18 + lr + lk
      /\ \A m \in 1 .. lr : g[12 + m] = rn[m]
      /\ g[13 + lr] = 0
      /\ \A m \in 1 .. lk : g[13 + lr + m] = kn[m]
      /\ g[14 + lr + lk] = 0
      /\ \A m \in 1 .. 4 : g[14 + lr + lk + m] = num[m]
  BY <1>1, <1>3
<1> HIDE DEF x, y, z, num, rn, kn, lr, lk
<1>4. a \in Seq(Nat) /\ Len(a) = 12
  <2>1. x \o y \in Seq(Nat) /\ Len(x \o y) = Len(x) + Len(y)
    BY <1>2, BytesJoined
  <2> QED
    BY <1>2, <2>1
<1> HIDE DEF a
<1>5. /\ b \in Seq(Nat) /\ Len(b) = 12 + lr
      /\ \A m \in 1 .. lr : b[12 + m] = rn[m]
  <2>1. /\ a \o rn \in Seq(Nat)
        /\ Len(a \o rn) = Len(a) + Len(rn)
        /\ \A i \in 1 .. Len(rn) : (a \o rn)[Len(a) + i] = rn[i]
    BY <1>1, <1>4, BytesJoined
  <2>2. b = a \o rn
    OBVIOUS
  <2> HIDE DEF b
  <2> QED
    BY <1>1, <1>4, <2>1, <2>2
<1> HIDE DEF b
<1>6. /\ c \in Seq(Nat) /\ Len(c) = 13 + lr
      /\ \A m \in 1 .. 12 + lr : c[m] = b[m]
      /\ c[13 + lr] = 0
  <2>1. /\ b \o z \in Seq(Nat)
        /\ Len(b \o z) = Len(b) + Len(z)
        /\ \A i \in 1 .. Len(b) : (b \o z)[i] = b[i]
        /\ \A i \in 1 .. Len(z) : (b \o z)[Len(b) + i] = z[i]
    BY <1>1, <1>5, BytesJoined
  <2>2. c = b \o z
    OBVIOUS
  <2> HIDE DEF c
  <2>3. 1 \in 1 .. Len(z) /\ Len(b) + 1 = 13 + lr /\ Len(b) + Len(z) = 13 + lr
    BY <1>1, <1>5
  <2> QED
    BY <1>1, <1>5, <2>1, <2>2, <2>3
<1> HIDE DEF c
<1>7. /\ d \in Seq(Nat) /\ Len(d) = 13 + lr + lk
      /\ \A m \in 1 .. 13 + lr : d[m] = c[m]
      /\ \A m \in 1 .. lk : d[13 + lr + m] = kn[m]
  <2>1. /\ c \o kn \in Seq(Nat)
        /\ Len(c \o kn) = Len(c) + Len(kn)
        /\ \A i \in 1 .. Len(c) : (c \o kn)[i] = c[i]
        /\ \A i \in 1 .. Len(kn) : (c \o kn)[Len(c) + i] = kn[i]
    BY <1>1, <1>6, BytesJoined
  <2>2. d = c \o kn
    OBVIOUS
  <2> HIDE DEF d
  <2> QED
    BY <1>1, <1>6, <2>1, <2>2
<1> HIDE DEF d
<1>8. /\ f \in Seq(Nat) /\ Len(f) = 14 + lr + lk
      /\ \A m \in 1 .. 13 + lr + lk : f[m] = d[m]
      /\ f[14 + lr + lk] = 0
  <2>1. /\ d \o z \in Seq(Nat)
        /\ Len(d \o z) = Len(d) + Len(z)
        /\ \A i \in 1 .. Len(d) : (d \o z)[i] = d[i]
        /\ \A i \in 1 .. Len(z) : (d \o z)[Len(d) + i] = z[i]
    BY <1>1, <1>7, BytesJoined
  <2>2. f = d \o z
    OBVIOUS
  <2> HIDE DEF f
  <2>3. 1 \in 1 .. Len(z) /\ Len(d) + 1 = 14 + lr + lk /\ Len(d) + Len(z) = 14 + lr + lk
    BY <1>1, <1>7
  <2> QED
    BY <1>1, <1>7, <2>1, <2>2, <2>3
<1> HIDE DEF f
<1>9. /\ g \in Seq(Nat) /\ Len(g) = 18 + lr + lk
      /\ \A m \in 1 .. 14 + lr + lk : g[m] = f[m]
      /\ \A m \in 1 .. 4 : g[14 + lr + lk + m] = num[m]
  <2>1. /\ f \o num \in Seq(Nat)
        /\ Len(f \o num) = Len(f) + Len(num)
        /\ \A i \in 1 .. Len(f) : (f \o num)[i] = f[i]
        /\ \A i \in 1 .. Len(num) : (f \o num)[Len(f) + i] = num[i]
    BY <1>2, <1>8, BytesJoined
  <2>2. g = f \o num
    OBVIOUS
  <2> HIDE DEF g
  <2>3. g \in Seq(Nat) /\ Len(g) = 18 + lr + lk
    BY <1>1, <1>2, <1>8, <2>1, <2>2
  <2>4. \A m \in 1 .. 14 + lr + lk : g[m] = f[m]
    BY <1>8, <2>1, <2>2
  <2>5. \A m \in 1 .. 4 : g[14 + lr + lk + m] = num[m]
    BY <1>2, <1>8, <2>1, <2>2
  <2> QED
    BY <2>3, <2>4, <2>5
<1> HIDE DEF g
<1>10. ASSUME NEW m \in 1 .. lr PROVE g[12 + m] = rn[m]
  <2>1. /\ 12 + m \in 1 .. 12 + lr /\ 12 + m \in 1 .. 13 + lr
        /\ 12 + m \in 1 .. 13 + lr + lk /\ 12 + m \in 1 .. 14 + lr + lk
    BY <1>1
  <2>2. g[12 + m] = f[12 + m] /\ f[12 + m] = d[12 + m]
    BY <1>8, <1>9, <2>1
  <2>3. d[12 + m] = c[12 + m] /\ c[12 + m] = b[12 + m]
    BY <1>6, <1>7, <2>1
  <2> QED
    BY <1>5, <2>2, <2>3
<1>11. g[13 + lr] = 0
  <2>1. 13 + lr \in 1 .. 13 + lr /\ 13 + lr \in 1 .. 13 + lr + lk /\ 13 + lr \in 1 .. 14 + lr + lk
    BY <1>1
  <2>2. g[13 + lr] = f[13 + lr] /\ f[13 + lr] = d[13 + lr] /\ d[13 + lr] = c[13 + lr]
    BY <1>7, <1>8, <1>9, <2>1
  <2> QED
    BY <1>6, <2>2
<1>12. ASSUME NEW m \in 1 .. lk PROVE g[13 + lr + m] = kn[m]
  <2>1. 13 + lr + m \in 1 .. 13 + lr + lk /\ 13 + lr + m \in 1 .. 14 + lr + lk
    BY <1>1
  <2>2. g[13 + lr + m] = f[13 + lr + m] /\ f[13 + lr + m] = d[13 + lr + m]
    BY <1>8, <1>9, <2>1
  <2> QED
    BY <1>7, <2>2
<1>13. g[14 + lr + lk] = 0
  <2>1. 14 + lr + lk \in 1 .. 14 + lr + lk
    BY <1>1
  <2> QED
    BY <1>8, <1>9, <2>1
<1> QED
  BY <1>9, <1>10, <1>11, <1>12, <1>13

\* b begins with a.
Begins(a, b) == Len(a) <= Len(b) /\ \A k \in 1 .. Len(a) : b[k] = a[k]

\* Every entry is written behind what was written before.
LEMMA WrittenGrows ==
  ASSUME NEW l \in Seq(AnyEntries), size_t \in {4, 8}
  PROVE  /\ Written(l)[0] = lendian(Len(l), size_t)
         /\ \A i \in 1 .. Len(l) : Written(l)[i] = Written(l)[i - 1] \o Entry(l[i])
         /\ \A i \in 0 .. Len(l) : Written(l)[i] \in Seq(Nat)
         /\ \A j \in 0 .. Len(l) : \A i \in 0 .. j : Begins(Written(l)[i], Written(l)[j])
<1> DEFINE n == Len(l)
           w == Written(l)
           b == lendian(Len(l), size_t)
<1>1. n \in Nat /\ \A i \in 1 .. n : l[i] \in AnyEntries
  OBVIOUS
<1>2. w = [i \in 0 .. n |-> IF i = 0 THEN b ELSE w[i - 1] \o Entry(l[i])]
  <2>1. Len(l) \in Nat
    OBVIOUS
  <2> QED
    BY <2>1, WrittenIs
<1>3. b \in Seq(Nat)
  BY LendianBytes
<1> HIDE DEF n, w, b
<1>4. w[0] = b /\ \A i \in 1 .. n : w[i] = w[i - 1] \o Entry(l[i])
  <2>1. \A i \in 0 .. n : w[i] = IF i = 0 THEN b ELSE w[i - 1] \o Entry(l[i])
    BY <1>2
  <2>2. w[0] = b
    BY <1>1, <2>1
  <2>3. ASSUME NEW i \in 1 .. n PROVE w[i] = w[i - 1] \o Entry(l[i])
    <3>1. i \in 0 .. n /\ i # 0
      BY <1>1
    <3> QED
      BY <2>1, <3>1
  <2> QED
    BY <2>2, <2>3
<1>5. ASSUME NEW i \in 1 .. n, w[i - 1] \in Seq(Nat)
      PROVE  w[i] \in Seq(Nat) /\ Begins(w[i - 1], w[i])
  <2>1. Entry(l[i]) \in Seq(Nat)
    BY <1>1, EntryShape
  <2> DEFINE u == w[i - 1]
             e == Entry(l[i])
  <2>2. w[i] = u \o e /\ u \in Seq(Nat) /\ e \in Seq(Nat)
    BY <1>4, <1>5, <2>1
  <2> HIDE DEF u, e
  <2>3. /\ u \o e \in Seq(Nat) /\ Len(u \o e) = Len(u) + Len(e)
        /\ \A k \in 1 .. Len(u) : (u \o e)[k] = u[k]
    BY <2>2, BytesJoined
  <2>4. Len(u) \in Nat /\ Len(e) \in Nat
    BY <2>2
  <2>5. Begins(u, w[i]) /\ w[i] \in Seq(Nat)
    BY <2>2, <2>3, <2>4 DEF Begins
  <2> QED
    BY <2>5 DEF u
<1>6. \A i \in 0 .. n : w[i] \in Seq(Nat)
  <2> DEFINE S == {i \in Nat : w[i] \in Seq(Nat)}
  <2>1. 0 \in S
    BY <1>3, <1>4
  <2>2. ASSUME NEW i \in 1 .. n, i - 1 \in S PROVE i \in S
    BY <1>1, <1>5, <2>2
  <2> HIDE DEF S
  <2>3. 0 .. n \subseteq S
    BY <1>1, <2>1, <2>2, Upwards
  <2> QED
    BY <2>3 DEF S
<1>7. \A j \in 0 .. n : \A i \in 0 .. j : Begins(w[i], w[j])
  <2> DEFINE S == {j \in Nat : \A i \in 0 .. j : Begins(w[i], w[j])}
  <2>0. ASSUME NEW i \in 0 .. n PROVE Begins(w[i], w[i])
    <3>1. Len(w[i]) \in Nat
      BY <1>6
    <3> QED
      BY <3>1 DEF Begins
  <2>1. 0 \in S
    <3>1. 0 \in 0 .. n
      BY <1>1
    <3>2. Begins(w[0], w[0])
      BY <2>0, <3>1
    <3>3. \A i \in 0 .. 0 : i = 0
      OBVIOUS
    <3> QED
      BY <3>2, <3>3
  <2>2. ASSUME NEW j \in 1 .. n, j - 1 \in S PROVE j \in S
    <3>1. j \in Nat /\ j - 1 \in 0 .. n /\ j \in 0 .. n
      BY <1>1
    <3>2. ASSUME NEW i \in 0 .. j PROVE Begins(w[i], w[j])
      <4>1. CASE i = j
        BY <2>0, <3>1, <4>1
      <4>2. CASE i # j
        <5>1. i \in 0 .. j - 1 /\ i \in 0 .. n
          BY <1>1, <3>1, <4>2
        <5>2. Begins(w[i], w[j - 1])
          BY <2>2, <5>1
        <5>3. Begins(w[j - 1], w[j])
          BY <1>5, <1>6, <3>1
        <5>4. Len(w[i]) \in Nat /\ Len(w[j - 1]) \in Nat /\ Len(w[j]) \in Nat
          BY <1>6, <3>1, <5>1
        <5> QED
          BY <5>2, <5>3, <5>4 DEF Begins
      <4> QED
        BY <4>1, <4>2
    <3> QED
      BY <3>1, <3>2
  <2> HIDE DEF S
  <2>3. 0 .. n \subseteq S
    BY <1>1, <2>1, <2>2, Upwards
  <2> QED
    BY <2>3 DEF S
<1> QED
  BY <1>4, <1>6, <1>7 DEF n, w, b

\* The entry e stands behind the first a bytes of d.
EntryIn(d, a, e) ==
  LET lr == Len(e.rn)
      lk == Len(e.kn)
  IN  /\ \A m \in 1 .. lr : d[a + (12 + m)] = e.rn[m]
      /\ d[a + (13 + lr)] = 0
      /\ \A m \in 1 .. lk : d[a + (13 + lr + m)] = e.kn[m]
      /\ d[a + (14 + lr + lk)] = 0
      /\ Word(d, a + (14 + lr + lk)) = e.naction /\ e.naction <= MaxInt

\* d holds the list l: its count, and each entry behind the one before it.
Encodes(d, l, off) ==
  /\ off \in [0 .. Len(l) -> Nat] /\ off[0] = 4 /\ off[Len(l)] = Len(d)
  /\ Word(d, 0) = Len(l) /\ Len(l) <= MaxInt
  /\ \A k \in 1 .. Len(l) :
       /\ off[k] = off[k - 1] + (18 + Len(l[k].rn) + Len(l[k].kn))
       /\ off[k] <= Len(d)
       /\ EntryIn(d, off[k - 1], l[k])

LEMMA EntriesAreAny == \A l \in Seq(Entries) : l \in Seq(AnyEntries)
<1>1. \A s \in Seq(1 .. 255) : s \in Seq(Nat)
  <2>1. 1 .. 255 \subseteq Nat
    OBVIOUS
  <2> QED
    BY <2>1, SeqMonotonic
<1>2. \A a \in 0 .. MaxInt : a \in Int
  BY MaxIntIsNat
<1>3. Entries \subseteq AnyEntries
  BY <1>1, <1>2 DEF Entries, AnyEntries
<1> QED
  BY <1>3, SeqMonotonic

LEMMA ListsAreAny ==
  ASSUME NEW l \in Lists
  PROVE  l \in Seq(Entries) /\ l \in Seq(AnyEntries) /\ Len(l) \in 0 .. MaxInt
<1>1. l \in Seq(Entries) /\ Len(l) <= MaxInt
  BY ListsAssumption
<1>2. Len(l) \in Nat
  BY <1>1
<1> QED
  BY <1>1, <1>2, EntriesAreAny, MaxIntIsNat

\* A number stands in any copy of its bytes.
LEMMA WordMoves ==
  ASSUME NEW d, NEW i \in Nat, NEW e, NEW j \in Nat,
         \A m \in 1 .. 4 : d[i + m] = e[j + m]
  PROVE  Word(d, i) = Word(e, j)
<1>1. 1 \in 1 .. 4 /\ 2 \in 1 .. 4 /\ 3 \in 1 .. 4 /\ 4 \in 1 .. 4
  OBVIOUS
<1>2. d[i + 1] = e[j + 1] /\ d[i + 2] = e[j + 2] /\ d[i + 3] = e[j + 3] /\ d[i + 4] = e[j + 4]
  BY <1>1
<1> QED
  BY ONLY <1>2, SMT DEF Word

LEMMA DataLayout ==
  ASSUME NEW l \in Seq(AnyEntries), size_t \in {4, 8}
  PROVE  /\ get_data_raw(l) \in Seq(Nat)
         /\ size_t = 4 /\ l \in Lists => \E off : Encodes(get_data_raw(l), l, off)
<1> DEFINE n == Len(l)
           w == Written(l)
           d == get_data_raw(l)
           off == [k \in 0 .. n |-> Len(w[k])]
<1>1. /\ w[0] = lendian(n, size_t)
      /\ \A i \in 1 .. n : w[i] = w[i - 1] \o Entry(l[i])
      /\ \A i \in 0 .. n : w[i] \in Seq(Nat)
      /\ \A j \in 0 .. n : \A i \in 0 .. j : Begins(w[i], w[j])
  BY WrittenGrows
<1>2. n \in Nat /\ n \in 0 .. n /\ 0 \in 0 .. n /\ \A k \in 1 .. n : l[k] \in AnyEntries
  OBVIOUS
<1>3. d = w[n]
  BY DEF get_data_raw
<1> HIDE DEF n, w, d
<1>4. d \in Seq(Nat) /\ \A i \in 0 .. n : Begins(w[i], d) /\ w[i] \in Seq(Nat)
  BY <1>1, <1>2, <1>3
<1>5. ASSUME size_t = 4, l \in Lists PROVE Encodes(d, l, off)
  <2>0. n \in 0 .. MaxInt /\ \A k \in 1 .. n : l[k] \in Entries
    BY <1>2, <1>5, ListsAreAny DEF n
  <2>1. off \in [0 .. n -> Nat] /\ \A k \in 0 .. n : off[k] = Len(w[k])
    BY <1>4
  <2>2. Len(w[0]) = 4 /\ Word(w[0], 0) = n
    <3>1. w[0] = lendian(n, 4) /\ 4 \in {4, 8}
      BY <1>1, <1>5
    <3> QED
      BY <1>2, <2>0, <3>1, IntFits, LendianBytes, LendianWord
  <2>3. off[0] = 4 /\ off[n] = Len(d)
    BY <1>2, <1>3, <2>1, <2>2
  <2>4. Word(d, 0) = n
    <3>1. \A m \in 1 .. 4 : d[m] = w[0][m]
      BY <1>2, <1>4, <2>2 DEF Begins
    <3>2. \A m \in 1 .. 4 : d[0 + m] = w[0][0 + m]
      BY <3>1
    <3>3. Word(d, 0) = Word(w[0], 0)
      BY <3>2, WordMoves
    <3> QED
      BY <2>2, <3>3
  <2>5. ASSUME NEW k \in 1 .. n
        PROVE  /\ off[k] = off[k - 1] + (18 + Len(l[k].rn) + Len(l[k].kn))
               /\ off[k] <= Len(d)
               /\ EntryIn(d, off[k - 1], l[k])
    <3> DEFINE e == l[k]
               u == w[k - 1]
               a == Len(w[k - 1])
               s == Entry(l[k])
               lr == Len(l[k].rn)
               lk == Len(l[k].kn)
    <3>1. /\ lr \in Nat /\ lk \in Nat
          /\ s \in Seq(Nat) /\ Len(s) = 18 + lr + lk
          /\ \A m \in 1 .. lr : s[12 + m] = e.rn[m]
          /\ s[13 + lr] = 0
          /\ \A m \in 1 .. lk : s[13 + lr + m] = e.kn[m]
          /\ s[14 + lr + lk] = 0
          /\ \A m \in 1 .. 4 : s[14 + lr + lk + m] = lendian(e.naction, 4)[m]
      BY <1>2, EntryShape
    <3>2. k \in 0 .. n /\ k - 1 \in 0 .. n
      BY <1>2
    <3>3. w[k] = u \o s /\ u \in Seq(Nat)
      BY <1>1, <3>2
    <3>4. e.naction \in 0 .. MaxInt
      BY <2>0 DEF Entries
    <3>5. off[k] = Len(w[k]) /\ off[k - 1] = a
      BY <2>1, <3>2
    <3>6. a \in Nat /\ a = Len(u)
      BY <3>3
    <3>7. Begins(w[k], d) /\ Len(d) \in Nat
      BY <1>4, <3>2
    <3> SUFFICES /\ Len(w[k]) = a + (18 + lr + lk)
                 /\ Len(w[k]) <= Len(d)
                 /\ EntryIn(d, a, e)
      BY <3>5
    <3> HIDE DEF e, u, a, s, lr, lk, off
    <3>8. /\ Len(w[k]) = a + (18 + lr + lk)
          /\ \A i \in 1 .. 18 + lr + lk : w[k][a + i] = s[i]
      <4>1. /\ Len(u \o s) = Len(u) + Len(s)
            /\ \A i \in 1 .. Len(s) : (u \o s)[Len(u) + i] = s[i]
        BY <3>1, <3>3, BytesJoined
      <4> QED
        BY <3>1, <3>3, <3>6, <4>1
    <3>9. ASSUME NEW i \in 1 .. 18 + lr + lk PROVE d[a + i] = s[i]
      <4>1. a + i \in 1 .. Len(w[k])
        BY <3>1, <3>6, <3>8
      <4>2. d[a + i] = w[k][a + i]
        BY <3>7, <4>1 DEF Begins
      <4> QED
        BY <3>8, <4>2
    <3>10. \A m \in 1 .. lr : d[a + (12 + m)] = e.rn[m]
      <4>1. \A m \in 1 .. lr : 12 + m \in 1 .. 18 + lr + lk
        BY <3>1
      <4> QED
        BY <3>1, <3>9, <4>1
    <3>11. d[a + (13 + lr)] = 0
      <4>1. 13 + lr \in 1 .. 18 + lr + lk
        BY <3>1
      <4> QED
        BY <3>1, <3>9, <4>1
    <3>12. \A m \in 1 .. lk : d[a + (13 + lr + m)] = e.kn[m]
      <4>1. \A m \in 1 .. lk : 13 + lr + m \in 1 .. 18 + lr + lk
        BY <3>1
      <4> QED
        BY <3>1, <3>9, <4>1
    <3>13. d[a + (14 + lr + lk)] = 0
      <4>1. 14 + lr + lk \in 1 .. 18 + lr + lk
        BY <3>1
      <4> QED
        BY <3>1, <3>9, <4>1
    <3>14. Word(d, a + (14 + lr + lk)) = e.naction /\ e.naction <= MaxInt
      <4> DEFINE i == a + (14 + lr + lk)
      <4>1. i \in Nat
        BY <3>1, <3>6
      <4>2. ASSUME NEW m \in 1 .. 4 PROVE d[i + m] = lendian(e.naction, 4)[m]
        <5>1. 14 + lr + lk + m \in 1 .. 18 + lr + lk /\ i + m = a + (14 + lr + lk + m)
          <6>1. a \in Nat /\ lr \in Nat /\ lk \in Nat
            BY <3>1, <3>6
          <6> QED
            BY ONLY <6>1
        <5> QED
          BY <3>1, <3>9, <5>1
      <4> HIDE DEF i
      <4>3. \A m \in 1 .. 4 : d[i + m] = lendian(e.naction, 4)[0 + m]
        BY <4>2
      <4>4. Word(d, i) = Word(lendian(e.naction, 4), 0)
        BY <4>1, <4>3, WordMoves
      <4>5. Word(lendian(e.naction, 4), 0) = e.naction
        BY <3>4, IntFits, LendianWord
      <4>6. e.naction <= MaxInt
        BY <3>4, MaxIntIsNat
      <4> QED
        BY <4>4, <4>5, <4>6 DEF i
    <3>15. EntryIn(d, a, e)
      BY <3>10, <3>11, <3>12, <3>13, <3>14 DEF EntryIn, lr, lk, e
    <3> QED
      BY <3>7, <3>8, <3>15 DEF Begins
  <2>6. n <= MaxInt
    BY <2>0, MaxIntIsNat
  <2> HIDE DEF off
  <2> QED
    BY <2>1, <2>3, <2>4, <2>5, <2>6 DEF Encodes, n
<1> HIDE DEF off
<1>6. size_t = 4 /\ l \in Lists => \E places : Encodes(d, l, places)
  BY <1>5
<1> QED
  BY <1>4, <1>6 DEF d

\* The file f holds the data d of the assignments and the port p, behind o cells
\* of another version.
IsFile(f, d, p, o) ==
  /\ f \in Seq(Int) /\ d \in Seq(Nat)
  /\ Len(f) = o + (8 + Len(d))
  /\ o = 0 \/ (o = 3 /\ f[1] = guid_foreign /\ f[2] = 1)
  /\ f[o + 1] = guid_actions /\ f[o + 2] = Len(d)
  /\ \A m \in 1 .. Len(d) : f[o + (2 + m)] = d[m]
  /\ f[o + (3 + Len(d))] = guid_port /\ f[o + (4 + Len(d))] = 4
  /\ Word(f, o + (4 + Len(d))) = p

LEMMA BytesAreCells == \A d \in Seq(Nat) : d \in Seq(Int)
<1>1. Nat \subseteq Int
  OBVIOUS
<1> QED
  BY <1>1, SeqMonotonic

LEMMA BlockShape ==
  ASSUME NEW g \in Int, NEW d \in Seq(Nat)
  PROVE  /\ Block(g, d) \in Seq(Int) /\ Len(Block(g, d)) = 2 + Len(d)
         /\ Block(g, d)[1] = g /\ Block(g, d)[2] = Len(d)
         /\ \A m \in 1 .. Len(d) : Block(g, d)[2 + m] = d[m]
<1> DEFINE h == <<g, Len(d)>>
<1>1. Len(d) \in Nat /\ d \in Seq(Int)
  BY BytesAreCells
<1>2. h \in Seq(Int) /\ Len(h) = 2 /\ h[1] = g /\ h[2] = Len(d)
  BY <1>1
<1> HIDE DEF h
<1>3. /\ h \o d \in Seq(Int) /\ Len(h \o d) = Len(h) + Len(d)
      /\ \A i \in 1 .. Len(h) : (h \o d)[i] = h[i]
      /\ \A i \in 1 .. Len(d) : (h \o d)[Len(h) + i] = d[i]
  BY <1>1, <1>2, CellsJoined
<1>4. Block(g, d) = h \o d
  BY DEF Block, h
<1>5. 1 \in 1 .. Len(h) /\ 2 \in 1 .. Len(h)
  BY <1>2
<1> QED
  BY <1>2, <1>3, <1>4, <1>5

LEMMA FileLayout ==
  ASSUME NEW l \in Seq(AnyEntries), NEW p \in Ints, size_t \in {4, 8}
  PROVE  /\ IsFile(config_write_file(l, p), get_data_raw(l), p, 0)
         /\ IsFile(Block(guid_foreign, <<7>>) \o config_write_file(l, p), get_data_raw(l), p, 3)
<1> DEFINE d == get_data_raw(l)
           n == Len(d)
           q == lendian(p, 4)
           a == Block(guid_actions, d)
           b == Block(guid_port, q)
           f == a \o b
           c == Block(guid_foreign, <<7>>)
           g == c \o f
<1>1. d \in Seq(Nat) /\ n \in Nat
  BY DataLayout
<1>2. p \in Nat /\ p \div 2 <= MaxInt
  BY IntsAssumption
<1>3. q \in Seq(Nat) /\ Len(q) = 4 /\ Word(q, 0) = p
  BY <1>2, LendianBytes, LendianWord
<1>4. <<7>> \in Seq(Nat) /\ Len(<<7>>) = 1
  OBVIOUS
<1>5. guid_actions \in Int /\ guid_port \in Int /\ guid_foreign \in Int
  BY DEF guid_actions, guid_port, guid_foreign
<1> HIDE DEF d, q
<1>6. /\ a \in Seq(Int) /\ Len(a) = 2 + n /\ a[1] = guid_actions /\ a[2] = n
      /\ \A m \in 1 .. n : a[2 + m] = d[m]
  BY <1>1, <1>5, BlockShape
<1>7. /\ b \in Seq(Int) /\ Len(b) = 6 /\ b[1] = guid_port /\ b[2] = 4
      /\ \A m \in 1 .. 4 : b[2 + m] = q[m]
  <2>1. /\ b \in Seq(Int) /\ Len(b) = 2 + Len(q) /\ b[1] = guid_port /\ b[2] = Len(q)
        /\ \A m \in 1 .. Len(q) : b[2 + m] = q[m]
    BY <1>3, <1>5, BlockShape
  <2> HIDE DEF b
  <2> QED
    BY <1>3, <2>1
<1>8. c \in Seq(Int) /\ Len(c) = 3 /\ c[1] = guid_foreign /\ c[2] = 1
  <2>1. Len(<<7>>) = 1 /\ 2 + 1 = 3
    OBVIOUS
  <2> QED
    BY <1>4, <1>5, <2>1, BlockShape
<1> HIDE DEF a, b, c, n
<1>9. /\ f \in Seq(Int) /\ Len(f) = 8 + n
      /\ \A i \in 1 .. 2 + n : f[i] = a[i]
      /\ \A i \in 1 .. 6 : f[2 + n + i] = b[i]
  <2>1. /\ a \o b \in Seq(Int) /\ Len(a \o b) = Len(a) + Len(b)
        /\ \A i \in 1 .. Len(a) : (a \o b)[i] = a[i]
        /\ \A i \in 1 .. Len(b) : (a \o b)[Len(a) + i] = b[i]
    BY <1>6, <1>7, CellsJoined
  <2>2. f = a \o b
    OBVIOUS
  <2> HIDE DEF f
  <2>3. f \in Seq(Int) /\ Len(f) = 8 + n
    BY <1>1, <1>6, <1>7, <2>1, <2>2
  <2>4. \A i \in 1 .. 2 + n : f[i] = a[i]
    BY <1>6, <2>1, <2>2
  <2>5. \A i \in 1 .. 6 : f[2 + n + i] = b[i]
    BY <1>6, <1>7, <2>1, <2>2
  <2> QED
    BY <2>3, <2>4, <2>5
<1> HIDE DEF f
<1>10. /\ f[1] = guid_actions /\ f[2] = n
       /\ \A m \in 1 .. n : f[2 + m] = d[m]
       /\ f[3 + n] = guid_port /\ f[4 + n] = 4
       /\ Word(f, 4 + n) = p
  <2>1. f[1] = guid_actions /\ f[2] = n
    <3>1. 1 \in 1 .. 2 + n /\ 2 \in 1 .. 2 + n
      BY <1>1
    <3> QED
      BY <1>6, <1>9, <3>1
  <2>2. ASSUME NEW m \in 1 .. n PROVE f[2 + m] = d[m]
    <3>1. 2 + m \in 1 .. 2 + n
      BY <1>1
    <3> QED
      BY <1>6, <1>9, <3>1
  <2>3. f[3 + n] = guid_port /\ f[4 + n] = 4
    <3>1. /\ 1 \in 1 .. 6 /\ 2 \in 1 .. 6
          /\ 2 + n + 1 = 3 + n /\ 2 + n + 2 = 4 + n
      BY <1>1
    <3>2. f[2 + n + 1] = b[1] /\ f[2 + n + 2] = b[2]
      BY <1>9, <3>1
    <3> QED
      BY <1>7, <3>1, <3>2
  <2>4. ASSUME NEW m \in 1 .. 4 PROVE f[4 + n + m] = q[0 + m]
    <3>1. 2 + m \in 1 .. 6 /\ 2 + n + (2 + m) = 4 + n + m
      BY <1>1
    <3>2. f[2 + n + (2 + m)] = b[2 + m]
      BY <1>9, <3>1
    <3> QED
      BY <1>7, <3>1, <3>2
  <2> DEFINE i == 4 + n
  <2>5. i \in Nat /\ \A m \in 1 .. 4 : f[i + m] = q[0 + m]
    BY <1>1, <2>4
  <2> HIDE DEF i
  <2>6. Word(f, i) = Word(q, 0)
    BY <2>5, WordMoves
  <2> QED
    BY <1>3, <2>1, <2>2, <2>3, <2>6 DEF i
<1>11. IsFile(f, d, p, 0)
  <2>1. /\ 0 + (8 + n) = 8 + n /\ 0 + 1 = 1 /\ 0 + 2 = 2 /\ 0 + (3 + n) = 3 + n
        /\ 0 + (4 + n) = 4 + n
        /\ \A m \in 1 .. n : 0 + (2 + m) = 2 + m
    BY <1>1
  <2>2. \A m \in 1 .. n : f[0 + (2 + m)] = d[m]
    BY <1>10, <2>1
  <2> QED
    BY <1>1, <1>9, <1>10, <2>1, <2>2 DEF IsFile, n
<1>12. /\ g \in Seq(Int) /\ Len(g) = 11 + n
       /\ g[1] = guid_foreign /\ g[2] = 1
       /\ \A i \in 1 .. 8 + n : g[3 + i] = f[i]
  <2>1. /\ c \o f \in Seq(Int) /\ Len(c \o f) = Len(c) + Len(f)
        /\ \A i \in 1 .. Len(c) : (c \o f)[i] = c[i]
        /\ \A i \in 1 .. Len(f) : (c \o f)[Len(c) + i] = f[i]
    BY <1>8, <1>9, CellsJoined
  <2>2. g = c \o f
    OBVIOUS
  <2> HIDE DEF g
  <2>3. 1 \in 1 .. Len(c) /\ 2 \in 1 .. Len(c) /\ Len(c) + Len(f) = 11 + n
    BY <1>1, <1>8, <1>9
  <2> QED
    BY <1>8, <1>9, <2>1, <2>2, <2>3
<1> HIDE DEF g
<1>13. IsFile(g, d, p, 3)
  <2>1. 3 + (8 + n) = 11 + n /\ 1 \in 1 .. 8 + n /\ 2 \in 1 .. 8 + n
        /\ 3 + n \in 1 .. 8 + n /\ 4 + n \in 1 .. 8 + n
    BY <1>1
  <2>2. g[3 + 1] = guid_actions /\ g[3 + 2] = n /\ g[3 + (3 + n)] = guid_port /\ g[3 + (4 + n)] = 4
    BY <1>10, <1>12, <2>1
  <2>3. ASSUME NEW m \in 1 .. n PROVE g[3 + (2 + m)] = d[m]
    <3>1. 2 + m \in 1 .. 8 + n
      BY <1>1
    <3> QED
      BY <1>10, <1>12, <3>1
  <2>4. Word(g, 3 + (4 + n)) = p
    <3> DEFINE i == 3 + (4 + n)
               j == 4 + n
    <3>1. i \in Nat /\ j \in Nat
      BY <1>1
    <3>2. ASSUME NEW m \in 1 .. 4 PROVE g[i + m] = f[j + m]
      <4>1. j + m \in 1 .. 8 + n /\ i + m = 3 + (j + m)
        BY <1>1
      <4> QED
        BY <1>12, <4>1
    <3> HIDE DEF i, j
    <3>3. Word(g, i) = Word(f, j)
      BY <3>1, <3>2, WordMoves
    <3> QED
      BY <1>10, <3>3 DEF i, j
  <2> QED
    BY <1>1, <1>12, <2>1, <2>2, <2>3, <2>4 DEF IsFile, n
<1>14. f = config_write_file(l, p)
  BY DEF f, a, b, d, q, config_write_file
<1> QED
  BY <1>11, <1>13, <1>14 DEF d, g, c

-----------------------------------------------------------------------------
(* The invariant.                                                          *)

StoreTypes ==
  /\ phase \in {"off", "guid", "count", "entry", "int", "flush", "done", "thrown", "run"}
  /\ saved.port \in Ints /\ g_config_port \in Ints
  /\ saved.list \in Seq(AnyEntries) /\ list \in Seq(AnyEntries)
  /\ size_t = 4 => saved.list \in Lists /\ list \in Lists
  /\ pos \in 1 .. Len(cells) + 1
  /\ end \in Nat /\ todo \in Int
  /\ torn \in BOOLEAN /\ size_t \in SizeTs

\* The file is the front of one that holds what was saved: its list with the
\* places off of the entries, when they can be read back.
Stored(f, d, o, off) ==
  /\ IsFile(f, d, saved.port, o)
  /\ cells \in Seq(Int) /\ Len(cells) <= Len(f)
  /\ \A i \in 1 .. Len(cells) : cells[i] = f[i]
  /\ ~ torn => Len(cells) = Len(f)
  /\ size_t = 4 => Encodes(d, saved.list, off)

ListBegun == size_t = 4 => IsPrefix(list, saved.list)
ListRead == size_t = 4 => list = saved.list

\* Where the reader is, and what it has read.
Reading(d, o, off) ==
  /\ phase = "off" => pos = 1
  /\ phase = "guid" =>
       \/ pos \in {1, o + 1} /\ list = <<>> /\ g_config_port = DefaultInt
       \/ pos = o + (3 + Len(d)) /\ ListRead /\ g_config_port = DefaultInt
       \/ pos = o + (9 + Len(d)) /\ ListRead /\ g_config_port = saved.port
  /\ phase = "count" =>
       pos = o + 3 /\ end = o + (2 + Len(d)) /\ list = <<>> /\ g_config_port = DefaultInt
  /\ phase = "entry" =>
       /\ pos >= o + 3 /\ end = o + (2 + Len(d)) /\ g_config_port = DefaultInt /\ ListBegun
       /\ size_t = 4 => /\ todo = Len(saved.list) - Len(list)
                        /\ pos = o + (3 + off[Len(list)])
  /\ phase = "int" =>
       pos = o + (5 + Len(d)) /\ end = o + (8 + Len(d)) /\ ListRead /\ g_config_port = DefaultInt
  /\ phase = "flush" =>
       \/ /\ end = o + (2 + Len(d)) /\ ListBegun /\ g_config_port = DefaultInt
          /\ end <= Len(cells) => ListRead
       \/ /\ end = o + (8 + Len(d)) /\ ListRead /\ g_config_port \in {saved.port, DefaultInt}
          /\ end <= Len(cells) => g_config_port = saved.port
  /\ phase \in {"done", "thrown"} => ListBegun /\ g_config_port \in {saved.port, DefaultInt}
  /\ phase = "done" /\ ~ torn => ListRead /\ g_config_port = saved.port
  /\ phase = "thrown" => torn

StoreInv ==
  /\ StoreTypes
  /\ \E f, d, o, off : Stored(f, d, o, off) /\ Reading(d, o, off)

-----------------------------------------------------------------------------
(* Reading.                                                                *)

\* The reader gets the data while it is in their block.
LEMMA DataCell ==
  ASSUME NEW f, NEW d, NEW o, NEW off, Stored(f, d, o, off),
         NEW x \in Nat, x >= o + 3, x <= o + (2 + Len(d)), x <= Len(cells)
  PROVE  cells[x] = d[x - (o + 2)] /\ cells[x] \in Nat
<1>1. /\ d \in Seq(Nat) /\ o \in {0, 3}
      /\ \A m \in 1 .. Len(d) : f[o + (2 + m)] = d[m]
  BY DEF Stored, IsFile
<1>2. /\ cells \in Seq(Int) /\ \A i \in 1 .. Len(cells) : cells[i] = f[i]
  BY DEF Stored
<1> DEFINE m == x - (o + 2)
<1>3. m \in 1 .. Len(d) /\ o + (2 + m) = x /\ x \in 1 .. Len(cells)
  <2>1. Len(d) \in Nat /\ Len(cells) \in Nat
    BY <1>1, <1>2
  <2> QED
    BY <1>1, <2>1
<1> HIDE DEF m
<1>4. cells[x] = f[x] /\ f[x] = d[m] /\ d[m] \in Nat
  BY <1>1, <1>2, <1>3
<1> QED
  BY <1>4 DEF m

LEMMA NumberIs ==
  ASSUME NEW g, NEW i \in Nat, NEW j \in Nat,
         \A m \in 1 .. 4 : cells[i + m] = g[j + m]
  PROVE  Number(i + 1) = Word(g, j)
<1>1. 1 \in 1 .. 4 /\ 2 \in 1 .. 4 /\ 3 \in 1 .. 4 /\ 4 \in 1 .. 4
  OBVIOUS
<1>2. /\ cells[i + 1] = g[j + 1] /\ cells[i + 2] = g[j + 2]
      /\ cells[i + 3] = g[j + 3] /\ cells[i + 4] = g[j + 4]
  BY <1>1
<1>3. i + 1 + 1 = i + 2 /\ i + 1 + 2 = i + 3 /\ i + 1 + 3 = i + 4
  OBVIOUS
<1>4. /\ cells[i + 1] = g[j + 1] /\ cells[i + 1 + 1] = g[j + 2]
      /\ cells[i + 1 + 2] = g[j + 3] /\ cells[i + 1 + 3] = g[j + 4]
  BY <1>2, <1>3
<1> QED
  BY ONLY <1>4, SMT DEF Word, Number, Low

LEMMA SignedIs ==
  ASSUME NEW g, NEW i \in Nat, NEW j \in Nat,
         \A m \in 1 .. 4 : cells[i + m] = g[j + m] /\ cells[i + m] \in Nat
  PROVE  Signed(i + 1) \in Int /\ (Word(g, j) <= MaxInt => Signed(i + 1) = Word(g, j))
<1>1. 1 \in 1 .. 4 /\ 2 \in 1 .. 4 /\ 3 \in 1 .. 4 /\ 4 \in 1 .. 4
  OBVIOUS
<1>2. i + 1 + 1 = i + 2 /\ i + 1 + 2 = i + 3 /\ i + 1 + 3 = i + 4
  OBVIOUS
<1>3. PICK a, b, c, h \in Nat :
        /\ cells[i + 1] = a /\ cells[i + 1 + 1] = b /\ cells[i + 1 + 2] = c /\ cells[i + 1 + 3] = h
        /\ g[j + 1] = a /\ g[j + 2] = b /\ g[j + 3] = c /\ g[j + 4] = h
  BY <1>1, <1>2
<1>4. Word(g, j) = a + 256 * b + 65536 * c + 16777216 * h
  BY ONLY <1>3 DEF Word
<1>5. Signed(i + 1) = a + 256 * b + 65536 * c + 16777216 * (IF h < 128 THEN h ELSE h - 256)
  BY ONLY <1>3 DEF Signed, Low
<1>6. a + 256 * b + 65536 * c + 16777216 * h <= MaxInt => h < 128
  BY <1>3, SMT DEF MaxInt
<1> QED
  BY <1>3, <1>4, <1>5, <1>6

LEMMA LimitIs ==
  ASSUME cells \in Seq(Int), end \in Nat
  PROVE  /\ Limit \in Nat /\ Limit <= end /\ Limit <= Len(cells)
         /\ end <= Len(cells) => Limit = end
<1>1. Len(cells) \in Nat
  OBVIOUS
<1> QED
  BY <1>1 DEF Limit

\* A name that stands behind a place, with the 0 that ends it, is found.
LEMMA NulIs ==
  ASSUME cells \in Seq(Int), end \in Nat, NEW from \in Nat, NEW name \in Seq(1 .. 255),
         \A m \in 1 .. Len(name) : from + m <= Limit => cells[from + m] = name[m],
         from + (1 + Len(name)) <= Limit => cells[from + (1 + Len(name))] = 0
  PROVE  Nul(from + 1) = IF from + (1 + Len(name)) <= Limit
                           THEN {from + (1 + Len(name))} ELSE {}
<1> DEFINE n == Len(name)
           z == from + (1 + Len(name))
           top == Limit
<1>1. n \in Nat /\ \A m \in 1 .. n : name[m] \in 1 .. 255
  <2>1. n \in Nat
    BY LenProperties
  <2>2. ASSUME NEW m \in 1 .. Len(name) PROVE name[m] \in 1 .. 255
    BY ElementOfSeq
  <2> QED
    BY <2>1, <2>2
<1>2. top \in Nat
  BY LimitIs
<1>3. Nul(from + 1) = {i \in from + 1 .. top : /\ cells[i] = 0
                                               /\ \A j \in from + 1 .. i - 1 : cells[j] # 0}
  BY DEF Nul
<1>4. /\ \A m \in 1 .. n : from + m <= top => cells[from + m] = name[m]
      /\ z <= top => cells[z] = 0
      /\ z = from + (1 + n)
  OBVIOUS
<1> HIDE DEF n, z, top
<1>5. ASSUME NEW j \in from + 1 .. z - 1, j <= top PROVE cells[j] # 0
  <2> DEFINE m == j - from
  <2>1. m \in 1 .. n /\ from + m = j
    BY <1>1, <1>4
  <2> HIDE DEF m
  <2>2. cells[j] = name[m] /\ name[m] \in 1 .. 255
    BY <1>1, <1>4, <1>5, <2>1
  <2>3. \A v \in 1 .. 255 : v # 0
    OBVIOUS
  <2> QED
    BY <2>2, <2>3
<1>6. ASSUME NEW i \in Nul(from + 1) PROVE i = z /\ z <= top
  <2>1. /\ i \in from + 1 .. top /\ cells[i] = 0
        /\ \A j \in from + 1 .. i - 1 : cells[j] # 0
    BY <1>3
  <2>2. ~ (i < z)
    <3>1. SUFFICES ASSUME i < z PROVE FALSE
      OBVIOUS
    <3>2. i \in from + 1 .. z - 1 /\ i <= top
      BY <1>1, <1>2, <1>4, <2>1, <3>1
    <3> QED
      BY <1>5, <2>1, <3>2
  <2>3. ~ (z < i)
    <3>1. SUFFICES ASSUME z < i PROVE FALSE
      OBVIOUS
    <3>2. z \in from + 1 .. i - 1 /\ z <= top
      BY <1>1, <1>2, <1>4, <2>1, <3>1
    <3> QED
      BY <1>4, <2>1, <3>2
  <2> QED
    BY <1>1, <1>2, <1>4, <2>1, <2>2, <2>3
<1>7. ASSUME z <= top PROVE z \in Nul(from + 1)
  <2>1. z \in from + 1 .. top /\ cells[z] = 0
    BY <1>1, <1>2, <1>4, <1>7
  <2>2. ASSUME NEW j \in from + 1 .. z - 1 PROVE cells[j] # 0
    <3>1. j <= top
      BY <1>1, <1>2, <1>4, <1>7
    <3> QED
      BY <1>5, <3>1
  <2> QED
    BY <1>3, <2>1, <2>2
<1>8. Nul(from + 1) = IF z <= top THEN {z} ELSE {}
  BY <1>6, <1>7
<1> QED
  BY <1>8 DEF z, top

LEMMA NameIs ==
  ASSUME cells \in Seq(Int), NEW from \in Nat, NEW name \in Seq(1 .. 255),
         from + Len(name) <= Len(cells),
         \A m \in 1 .. Len(name) : cells[from + m] = name[m]
  PROVE  SubSeq(cells, from + 1, from + Len(name)) = name
<1> DEFINE n == Len(name)
           s == SubSeq(cells, from + 1, from + n)
<1>1. n \in Nat /\ Len(cells) \in Nat
  BY LenProperties
<1>2. \A i \in from + 1 .. from + n : i \in 1 .. Len(cells)
  BY <1>1
<1>3. /\ s \in Seq(Int)
      /\ Len(s) = IF from + 1 <= from + n THEN from + n - (from + 1) + 1 ELSE 0
      /\ \A i \in 1 .. from + n - (from + 1) + 1 : s[i] = cells[from + 1 + i - 1]
  BY <1>1, <1>2, SubSeqProperties
<1>4. Len(s) = n
  BY <1>1, <1>3
<1>5. ASSUME NEW m \in 1 .. n PROVE s[m] = name[m]
  <2>1. from + 1 + m - 1 = from + m /\ m \in 1 .. from + n - (from + 1) + 1
    BY <1>1
  <2> QED
    BY <1>3, <2>1
<1> HIDE DEF s
<1>6. s = name
  <2>1. 1 .. 255 \subseteq Int
    OBVIOUS
  <2>2. name \in Seq(Int)
    BY <2>1, SeqMonotonic
  <2> QED
    BY <1>3, <1>4, <1>5, <2>2, SeqEqual
<1> QED
  BY <1>6 DEF s

\* The next entry of the list that was saved is read, or what is left of the
\* cells does not hold it.
LEMMA EntryAtIs ==
  ASSUME NEW f, NEW d, NEW o, NEW off, Stored(f, d, o, off),
         size_t = 4, saved.list \in Lists, end \in Nat, end = o + (2 + Len(d)),
         NEW k \in 1 .. Len(saved.list), pos = o + (3 + off[k - 1])
  PROVE  /\ EntryAt = {} => Limit < o + (2 + off[k])
         /\ \A ends \in EntryAt :
              /\ ends[2] + 5 = o + (3 + off[k])
              /\ o + (2 + off[k]) <= Len(cells)
              /\ SubSeq(cells, pos + 12, ends[1] - 1) = saved.list[k].rn
              /\ SubSeq(cells, ends[1] + 1, ends[2] - 1) = saved.list[k].kn
              /\ Signed(ends[2] + 1) = saved.list[k].naction
<1> DEFINE a == off[k - 1]
           rn == saved.list[k].rn
           kn == saved.list[k].kn
           lr == Len(saved.list[k].rn)
           lk == Len(saved.list[k].kn)
           n == Len(d)
           top == Limit
           x == o + (14 + a)
           z1 == x + (1 + lr)
           z2 == z1 + (1 + lk)
           w == a + (14 + lr + lk)
<1>1. n \in Nat /\ o \in Nat /\ cells \in Seq(Int)
  <2>1. d \in Seq(Nat) /\ cells \in Seq(Int) /\ (o = 0 \/ o = 3)
    BY DEF Stored, IsFile
  <2>2. n \in Nat
    BY <2>1, LenProperties
  <2>3. o \in Nat
    BY <2>1
  <2> QED
    BY <2>1, <2>2, <2>3
<1>2. /\ rn \in Seq(1 .. 255) /\ kn \in Seq(1 .. 255) /\ lr \in Nat /\ lk \in Nat
  <2>1. saved.list[k] \in Entries
    BY ListsAreAny, ElementOfSeq
  <2>2. rn \in Seq(1 .. 255) /\ kn \in Seq(1 .. 255)
    BY <2>1 DEF Entries
  <2> QED
    BY <2>2, LenProperties
<1>3. /\ a \in Nat /\ off[k] \in Nat
      /\ off[k] = a + (18 + lr + lk) /\ off[k] <= n
      /\ EntryIn(d, a, saved.list[k])
  <2>1. Encodes(d, saved.list, off)
    BY DEF Stored
  <2>2. Len(saved.list) \in Nat
    BY ListsAreAny
  <2>3. k \in 0 .. Len(saved.list) /\ k - 1 \in 0 .. Len(saved.list)
    BY <2>2
  <2> QED
    BY <2>1, <2>3 DEF Encodes
<1>4. /\ \A m \in 1 .. lr : d[a + (12 + m)] = rn[m]
      /\ d[a + (13 + lr)] = 0
      /\ \A m \in 1 .. lk : d[a + (13 + lr + m)] = kn[m]
      /\ d[a + (14 + lr + lk)] = 0
      /\ Word(d, a + (14 + lr + lk)) = saved.list[k].naction /\ saved.list[k].naction <= MaxInt
  BY <1>3 DEF EntryIn
<1>5. top \in Nat /\ top <= o + (2 + n) /\ top <= Len(cells) /\ Len(cells) \in Nat
  BY <1>1, LimitIs
<1>6. /\ pos = o + (3 + a) /\ pos + 12 = x + 1 /\ x \in Nat /\ z1 \in Nat /\ z2 \in Nat
      /\ w \in Nat /\ z2 + 4 = o + (2 + off[k]) /\ z2 + 5 = o + (3 + off[k])
      /\ z1 = o + (2 + (a + (13 + lr))) /\ z2 = o + (2 + w)
  <2>1. pos = o + (3 + a)
    OBVIOUS
  <2>2. /\ o \in Nat /\ a \in Nat /\ lr \in Nat /\ lk \in Nat /\ off[k] \in Nat
        /\ off[k] = a + (18 + lr + lk)
    BY <1>1, <1>2, <1>3
  <2> HIDE DEF a, lr, lk
  <2> QED
    BY ONLY <2>1, <2>2
<1>7. ASSUME NEW i \in Nat, i >= 1, o + (2 + i) <= top
      PROVE  cells[o + (2 + i)] = d[i] /\ cells[o + (2 + i)] \in Nat
  <2> DEFINE y == o + (2 + i)
  <2>1. y \in Nat /\ y >= o + 3 /\ y <= o + (2 + Len(d)) /\ y <= Len(cells) /\ y - (o + 2) = i
    BY <1>1, <1>5, <1>7
  <2> HIDE DEF y
  <2>2. cells[y] = d[y - (o + 2)] /\ cells[y] \in Nat
    BY <2>1, DataCell
  <2> QED
    BY <2>1, <2>2 DEF y
<1> HIDE DEF a, rn, kn, lr, lk, n, top
<1>8. \A m \in 1 .. lr : x + m <= top => cells[x + m] = rn[m]
  <2>1. SUFFICES ASSUME NEW m \in 1 .. lr, x + m <= top PROVE cells[x + m] = rn[m]
    OBVIOUS
  <2> DEFINE i == a + (12 + m)
  <2>2. i \in Nat /\ i >= 1 /\ o + (2 + i) = x + m
    BY <1>1, <1>2, <1>3
  <2>3. d[i] = rn[m]
    BY <1>4
  <2> HIDE DEF i, x
  <2> QED
    BY <1>7, <2>1, <2>2, <2>3
<1>9. z1 <= top => cells[z1] = 0
  <2>1. SUFFICES ASSUME z1 <= top PROVE cells[z1] = 0
    OBVIOUS
  <2> DEFINE i == a + (13 + lr)
  <2>2. i \in Nat /\ i >= 1
    <3>1. a \in Nat /\ lr \in Nat
      BY <1>2, <1>3
    <3> QED
      BY ONLY <3>1
  <2>4. o + (2 + i) = z1
    BY <1>6
  <2>3. d[i] = 0
    BY <1>4
  <2> HIDE DEF i, z1
  <2> QED
    BY <1>7, <2>1, <2>2, <2>3, <2>4
<1>10. \A m \in 1 .. lk : z1 + m <= top => cells[z1 + m] = kn[m]
  <2>1. SUFFICES ASSUME NEW m \in 1 .. lk, z1 + m <= top PROVE cells[z1 + m] = kn[m]
    OBVIOUS
  <2> DEFINE i == a + (13 + lr + m)
  <2>2. i \in Nat /\ i >= 1 /\ o + (2 + i) = z1 + m
    BY <1>1, <1>2, <1>3
  <2>3. d[i] = kn[m]
    BY <1>4
  <2> HIDE DEF i, z1
  <2> QED
    BY <1>7, <2>1, <2>2, <2>3
<1>11. z2 <= top => cells[z2] = 0
  <2>1. SUFFICES ASSUME z2 <= top PROVE cells[z2] = 0
    OBVIOUS
  <2>2. w \in Nat /\ w >= 1
    <3>1. a \in Nat /\ lr \in Nat /\ lk \in Nat
      BY <1>2, <1>3
    <3> QED
      BY ONLY <3>1
  <2>4. o + (2 + w) = z2
    BY <1>6
  <2>3. d[w] = 0
    BY <1>4
  <2> HIDE DEF w, z2
  <2> QED
    BY <1>7, <2>1, <2>2, <2>3, <2>4
<1>12. z2 + 4 <= top => Signed(z2 + 1) = saved.list[k].naction
  <2>1. SUFFICES ASSUME z2 + 4 <= top PROVE Signed(z2 + 1) = saved.list[k].naction
    OBVIOUS
  <2>2. ASSUME NEW m \in 1 .. 4 PROVE cells[z2 + m] = d[w + m] /\ cells[z2 + m] \in Nat
    <3> DEFINE i == w + m
    <3>1. i \in Nat /\ i >= 1 /\ o + (2 + i) = z2 + m /\ o + (2 + i) <= top
      BY <1>1, <1>2, <1>3, <1>5, <2>1
    <3> HIDE DEF i, z2
    <3>2. cells[z2 + m] = d[i] /\ cells[z2 + m] \in Nat
      BY <1>7, <3>1
    <3> QED
      BY <3>2 DEF i
  <2>3. Word(d, w) = saved.list[k].naction /\ saved.list[k].naction <= MaxInt
    BY <1>4
  <2> HIDE DEF w, z2
  <2>4. z2 \in Nat /\ w \in Nat
    BY <1>6
  <2>5. Word(d, w) <= MaxInt => Signed(z2 + 1) = Word(d, w)
    BY <2>2, <2>4, SignedIs
  <2>6. Word(d, w) <= MaxInt
    BY <2>3
  <2> QED
    BY <2>3, <2>5, <2>6
<1> HIDE DEF x, z1, z2, w
<1>13. z1 = x + (1 + lr) /\ z2 = z1 + (1 + lk)
  BY DEF z1, z2
<1>14. Nul(pos + 12) = IF z1 <= top THEN {z1} ELSE {}
  <2>1. /\ \A m \in 1 .. Len(rn) : x + m <= Limit => cells[x + m] = rn[m]
        /\ x + (1 + Len(rn)) <= Limit => cells[x + (1 + Len(rn))] = 0
    BY <1>8, <1>9, <1>13 DEF top, lr, rn
  <2>2. Nul(x + 1) = IF x + (1 + Len(rn)) <= Limit THEN {x + (1 + Len(rn))} ELSE {}
    BY <1>1, <1>2, <1>6, <2>1, NulIs
  <2> QED
    BY <1>6, <1>13, <2>2 DEF top, lr, rn
<1>15. Nul(z1 + 1) = IF z2 <= top THEN {z2} ELSE {}
  <2>1. /\ \A m \in 1 .. Len(kn) : z1 + m <= Limit => cells[z1 + m] = kn[m]
        /\ z1 + (1 + Len(kn)) <= Limit => cells[z1 + (1 + Len(kn))] = 0
    BY <1>10, <1>11, <1>13 DEF top, lk, kn
  <2>2. Nul(z1 + 1) = IF z1 + (1 + Len(kn)) <= Limit THEN {z1 + (1 + Len(kn))} ELSE {}
    BY <1>1, <1>2, <1>6, <2>1, NulIs
  <2> QED
    BY <1>13, <2>2 DEF top, lk, kn
<1>16. ASSUME NEW ends \in EntryAt
       PROVE  ends[1] = z1 /\ ends[2] = z2 /\ z2 + 4 <= top
  <2>1. /\ ends[1] \in Nul(pos + 12) /\ ends[2] \in Nul(ends[1] + 1)
        /\ CanRead(ends[2] + 1, 4)
    BY DEF EntryAt
  <2>2. ends[1] = z1
    BY <1>14, <2>1
  <2>3. ends[2] = z2
    BY <1>15, <2>1, <2>2
  <2>4. z2 + 1 + 4 - 1 <= top
    BY <2>1, <2>3 DEF CanRead, top
  <2> QED
    BY <1>6, <2>2, <2>3, <2>4
<1>17. ASSUME z2 + 4 <= top PROVE <<z1, z2>> \in EntryAt
  <2>1. z1 <= top /\ z2 <= top /\ z1 \in pos .. top /\ z2 \in pos .. top
    <3>1. /\ o \in Nat /\ a \in Nat /\ lr \in Nat /\ lk \in Nat /\ top \in Nat
          /\ pos = o + (3 + a) /\ pos + 12 = x + 1 /\ x \in Nat /\ z2 + 4 <= top
          /\ z1 = x + (1 + lr) /\ z2 = z1 + (1 + lk)
      BY <1>1, <1>2, <1>3, <1>5, <1>6, <1>13, <1>17
    <3> QED
      BY ONLY <3>1
  <2>2. z1 \in Nul(pos + 12) /\ z2 \in Nul(z1 + 1)
    BY <1>14, <1>15, <2>1
  <2>3. CanRead(z2 + 1, 4)
    BY <1>6, <1>17 DEF CanRead, top
  <2>4. <<z1, z2>> \in (pos .. Limit) \X (pos .. Limit)
    BY <2>1 DEF top
  <2> QED
    BY <2>2, <2>3, <2>4 DEF EntryAt
<1>18. EntryAt = {} => Limit < o + (2 + off[k])
  <2>1. SUFFICES ASSUME EntryAt = {} PROVE top < z2 + 4
    BY <1>6 DEF top
  <2>2. ~ (z2 + 4 <= top)
    BY <1>17, <2>1
  <2>3. z2 \in Nat /\ top \in Nat
    BY <1>5, <1>6
  <2> QED
    BY ONLY <2>2, <2>3
<1>19. ASSUME NEW ends \in EntryAt
       PROVE  /\ ends[2] + 5 = o + (3 + off[k])
              /\ o + (2 + off[k]) <= Len(cells)
              /\ SubSeq(cells, pos + 12, ends[1] - 1) = saved.list[k].rn
              /\ SubSeq(cells, ends[1] + 1, ends[2] - 1) = saved.list[k].kn
              /\ Signed(ends[2] + 1) = saved.list[k].naction
  <2>1. ends[1] = z1 /\ ends[2] = z2 /\ z2 + 4 <= top
    BY <1>16
  <2>2. z2 + 5 = o + (3 + off[k]) /\ o + (2 + off[k]) <= Len(cells)
    <3>1. /\ z2 \in Nat /\ z2 + 4 = o + (2 + off[k]) /\ z2 + 5 = o + (3 + off[k])
          /\ z2 + 4 <= top /\ top \in Nat /\ top <= Len(cells) /\ Len(cells) \in Nat
      BY <1>5, <1>6, <2>1
    <3> QED
      BY ONLY <3>1
  <2>3. /\ \A m \in 1 .. lr : x + m <= top
        /\ \A m \in 1 .. lk : z1 + m <= top
        /\ x + lr <= Len(cells) /\ z1 + lk <= Len(cells)
        /\ z1 - 1 = x + lr /\ z2 - 1 = z1 + lk
    <3>1. /\ lr \in Nat /\ lk \in Nat /\ x \in Nat /\ z1 = x + (1 + lr) /\ z2 = z1 + (1 + lk)
          /\ z2 + 4 <= top /\ top \in Nat /\ top <= Len(cells) /\ Len(cells) \in Nat
      BY <1>2, <1>5, <1>6, <1>13, <2>1
    <3> QED
      BY ONLY <3>1
  <2>4. SubSeq(cells, x + 1, x + Len(rn)) = rn
    <3>1. /\ x + Len(rn) <= Len(cells)
          /\ \A m \in 1 .. Len(rn) : cells[x + m] = rn[m]
      BY <1>8, <2>3 DEF lr, rn
    <3> QED
      BY <1>1, <1>2, <1>6, <3>1, NameIs
  <2>5. SubSeq(cells, z1 + 1, z1 + Len(kn)) = kn
    <3>1. /\ z1 + Len(kn) <= Len(cells)
          /\ \A m \in 1 .. Len(kn) : cells[z1 + m] = kn[m]
      BY <1>10, <2>3 DEF lk, kn
    <3> QED
      BY <1>1, <1>2, <1>6, <3>1, NameIs
  <2>6. Len(rn) = lr /\ Len(kn) = lk /\ rn = saved.list[k].rn /\ kn = saved.list[k].kn
    BY DEF lr, lk, rn, kn
  <2> QED
    BY <1>6, <1>12, <2>1, <2>2, <2>3, <2>4, <2>5, <2>6
<1> QED
  BY <1>18, <1>19

-----------------------------------------------------------------------------
(* Fronts of a list.                                                       *)

LEMMA FrontIs ==
  ASSUME NEW l \in Seq(AnyEntries), NEW s \in Seq(AnyEntries)
  PROVE  IsPrefix(l, s) <=> Len(l) <= Len(s) /\ l = SubSeq(s, 1, Len(l))
<1>1. SubSeq(l, 1, Len(l)) = l
  BY SubSeqFull
<1> QED
  BY <1>1 DEF IsPrefix

LEMMA EmptyFront == \A s \in Seq(AnyEntries) : IsPrefix(<<>>, s)
<1>1. SUFFICES ASSUME NEW s \in Seq(AnyEntries) PROVE IsPrefix(<<>>, s)
  OBVIOUS
<1>2. Len(s) \in Nat /\ Len(<<>>) = 0
  BY LenProperties
<1>3. SubSeq(s, 1, 0) = <<>> /\ SubSeq(<<>>, 1, 0) = <<>>
  BY SubSeqEmpty
<1>4. Len(<<>>) <= Len(s) /\ SubSeq(<<>>, 1, Len(<<>>)) = SubSeq(s, 1, Len(<<>>))
  BY <1>2, <1>3
<1> QED
  BY <1>4 DEF IsPrefix

LEMMA WholeFront ==
  ASSUME NEW l \in Seq(AnyEntries), NEW s \in Seq(AnyEntries)
  PROVE  /\ l = s => IsPrefix(l, s)
         /\ IsPrefix(l, s) /\ Len(l) = Len(s) => l = s
<1>1. SubSeq(s, 1, Len(s)) = s /\ Len(s) \in Nat
  BY SubSeqFull, LenProperties
<1> QED
  BY <1>1, FrontIs

LEMMA NextFront ==
  ASSUME NEW l \in Seq(AnyEntries), NEW s \in Seq(AnyEntries),
         IsPrefix(l, s), Len(l) < Len(s), NEW e, e = s[Len(l) + 1]
  PROVE  /\ Append(l, e) \in Seq(AnyEntries) /\ Len(Append(l, e)) = Len(l) + 1
         /\ IsPrefix(Append(l, e), s)
<1> DEFINE n == Len(l) + 1
<1>1. Len(l) \in Nat /\ Len(s) \in Nat
  BY LenProperties
<1>2. n \in 1 .. Len(s) /\ n \in 1 .. n /\ 1 \in 1 .. Len(s) /\ n \in 1 .. Len(s) /\ n - 1 = Len(l)
  BY <1>1
<1> HIDE DEF n
<1>3. e \in AnyEntries
  BY <1>2, ElementOfSeq DEF n
<1>4. Append(l, e) \in Seq(AnyEntries) /\ Len(Append(l, e)) = n /\ Append(l, e) = l \o <<e>>
  BY <1>3, AppendProperties, AppendIsConcat DEF n
<1>5. SubSeq(s, 1, n) = SubSeq(s, 1, n - 1) \o <<s[n]>>
  BY <1>2, SubSeqRecursiveSecond
<1>6. l = SubSeq(s, 1, n - 1)
  BY <1>2, FrontIs
<1>7. Append(l, e) = SubSeq(s, 1, n)
  BY <1>4, <1>5, <1>6 DEF n
<1>8. n <= Len(s)
  BY <1>1, <1>2
<1> QED
  BY <1>4, <1>7, <1>8, FrontIs DEF n

\* What has been read of a list is a list.
LEMMA FrontIsList ==
  ASSUME NEW s \in Lists, NEW l \in Seq(AnyEntries), IsPrefix(l, s)
  PROVE  l \in Lists
<1>1. s \in Seq(AnyEntries) /\ Len(s) \in Nat /\ Len(l) \in Nat
  BY ListsAreAny, LenProperties
<1>2. Len(l) <= Len(s) /\ l = SubSeq(s, 1, Len(l))
  BY <1>1, FrontIs
<1>3. Len(l) \in 0 .. Len(s)
  BY <1>1, <1>2
<1> QED
  BY <1>2, <1>3, ListsAssumption

-----------------------------------------------------------------------------
(* What is where in the file.                                              *)

LEMMA StoreStays ==
  ASSUME NEW f, NEW d, NEW o, NEW off, Stored(f, d, o, off), UNCHANGED store
  PROVE  Stored(f, d, o, off)'
BY DEF Stored, store

\* The data hold a count.
LEMMA CountFits ==
  ASSUME NEW d \in Seq(Nat), NEW l \in Seq(AnyEntries), NEW off, Encodes(d, l, off)
  PROVE  Len(d) >= 4
<1>1. Len(l) \in Nat /\ Len(d) \in Nat
  BY LenProperties
<1>2. CASE Len(l) = 0
  BY <1>1, <1>2 DEF Encodes
<1>3. CASE Len(l) # 0
  <2>1. 1 \in 1 .. Len(l) /\ 1 - 1 = 0
    BY <1>1, <1>3
  <2>2. /\ off[1] = 4 + (18 + Len(l[1].rn) + Len(l[1].kn))
        /\ off[1] <= Len(d)
    BY <2>1 DEF Encodes
  <2>3. Len(l[1].rn) \in Nat /\ Len(l[1].kn) \in Nat
    <3>1. l[1] \in AnyEntries
      BY <2>1, ElementOfSeq
    <3>2. l[1].rn \in Seq(Nat) /\ l[1].kn \in Seq(Nat)
      BY <3>1 DEF AnyEntries
    <3> QED
      BY <3>2, LenProperties
  <2> DEFINE a == Len(l[1].rn)
             b == Len(l[1].kn)
  <2>4. a \in Nat /\ b \in Nat /\ off[1] = 4 + (18 + a + b) /\ off[1] <= Len(d) /\ Len(d) \in Nat
    BY <1>1, <2>2, <2>3
  <2> HIDE DEF a, b
  <2> QED
    BY ONLY <2>4
<1> QED
  BY <1>2, <1>3

LEMMA Cells ==
  ASSUME StoreTypes, NEW f, NEW d, NEW o, NEW off, Stored(f, d, o, off)
  PROVE  LET n == Len(d)
             m == Len(cells)
         IN  /\ n \in Nat /\ m \in Nat /\ o \in Nat /\ (o = 0 \/ o = 3)
             /\ cells \in Seq(Int) /\ d \in Seq(Nat)
             /\ m <= o + (8 + n) /\ (~ torn => m = o + (8 + n))
             /\ size_t = 4 => n >= 4
             /\ m >= 2 /\ o = 3 => cells[1] = guid_foreign /\ cells[2] = 1
             /\ m >= o + 2 => cells[o + 1] = guid_actions /\ cells[o + 2] = n
             /\ m >= o + (4 + n) => cells[o + (3 + n)] = guid_port /\ cells[o + (4 + n)] = 4
             /\ m >= o + (8 + n) => Number(o + (5 + n)) = saved.port
<1> DEFINE n == Len(d)
           m == Len(cells)
<1>1. /\ cells \in Seq(Int) /\ d \in Seq(Nat) /\ f \in Seq(Int)
      /\ Len(f) = o + (8 + n) /\ m <= Len(f) /\ (~ torn => m = Len(f))
      /\ \A i \in 1 .. m : cells[i] = f[i]
      /\ o = 0 \/ (o = 3 /\ f[1] = guid_foreign /\ f[2] = 1)
      /\ f[o + 1] = guid_actions /\ f[o + 2] = n
      /\ f[o + (3 + n)] = guid_port /\ f[o + (4 + n)] = 4
      /\ Word(f, o + (4 + n)) = saved.port
  BY DEF Stored, IsFile
<1>2. n \in Nat /\ m \in Nat
  BY <1>1, LenProperties
<1>3. o \in Nat /\ (o = 0 \/ o = 3)
  <2>1. o = 0 \/ o = 3
    BY <1>1
  <2> QED
    BY ONLY <2>1
<1>4. size_t = 4 => n >= 4
  BY <1>1, CountFits DEF Stored, StoreTypes
<1> HIDE DEF n, m
<1>5. m >= 2 /\ o = 3 => cells[1] = guid_foreign /\ cells[2] = 1
  <2>1. SUFFICES ASSUME m >= 2, o = 3 PROVE cells[1] = guid_foreign /\ cells[2] = 1
    OBVIOUS
  <2>2. 1 \in 1 .. m /\ 2 \in 1 .. m
    BY <1>2, <2>1
  <2>3. cells[1] = f[1] /\ cells[2] = f[2]
    BY <1>1, <2>2
  <2>4. f[1] = guid_foreign /\ f[2] = 1
    BY <1>1, <2>1
  <2> QED
    BY <2>3, <2>4
<1>6. m >= o + 2 => cells[o + 1] = guid_actions /\ cells[o + 2] = n
  <2>1. m >= o + 2 => o + 1 \in 1 .. m /\ o + 2 \in 1 .. m
    BY <1>2, <1>3
  <2> QED
    BY <1>1, <2>1
<1>7. m >= o + (4 + n) => cells[o + (3 + n)] = guid_port /\ cells[o + (4 + n)] = 4
  <2>1. m >= o + (4 + n) => o + (3 + n) \in 1 .. m /\ o + (4 + n) \in 1 .. m
    BY <1>2, <1>3
  <2> QED
    BY <1>1, <2>1
<1>8. m >= o + (8 + n) => Number(o + (5 + n)) = saved.port
  <2>1. SUFFICES ASSUME m >= o + (8 + n) PROVE Number(o + (5 + n)) = saved.port
    OBVIOUS
  <2> DEFINE i == o + (4 + n)
  <2>2. i \in Nat /\ i + 1 = o + (5 + n) /\ \A k \in 1 .. 4 : i + k \in 1 .. m
    BY <1>2, <1>3, <2>1
  <2> HIDE DEF i
  <2>3. \A k \in 1 .. 4 : cells[i + k] = f[i + k]
    BY <1>1, <2>2
  <2>4. Number(i + 1) = Word(f, i)
    BY <2>2, <2>3, NumberIs
  <2> QED
    BY <1>1, <2>2, <2>4 DEF i
<1>9. m <= o + (8 + n) /\ (~ torn => m = o + (8 + n))
  BY <1>1
<1> QED
  BY <1>1, <1>2, <1>3, <1>4, <1>5, <1>6, <1>7, <1>8, <1>9 DEF n, m

-----------------------------------------------------------------------------
(* Steps of the process.                                                   *)

\* After a start, nothing is read.
LEMMA NothingRead ==
  ASSUME StoreTypes
  PROVE  <<>> \in Seq(AnyEntries) /\ (size_t = 4 => <<>> \in Lists)
         /\ IsPrefix(<<>>, saved.list)
<1>1. <<>> \in Seq(AnyEntries)
  OBVIOUS
<1>2. IsPrefix(<<>>, saved.list)
  BY EmptyFront DEF StoreTypes
<1>3. size_t = 4 => <<>> \in Lists
  BY <1>1, <1>2, FrontIsList DEF StoreTypes
<1> QED
  BY <1>1, <1>2, <1>3

\* What is written is a file, alone and behind a block of another version.
LEMMA FilesHold ==
  ASSUME NEW l \in Seq(AnyEntries), NEW p \in Ints, size_t \in {4, 8}, size_t = 4 => l \in Lists
  PROVE  \E d, off :
           /\ IsFile(config_write_file(l, p), d, p, 0)
           /\ IsFile(Block(guid_foreign, <<7>>) \o config_write_file(l, p), d, p, 3)
           /\ size_t = 4 => Encodes(d, l, off)
<1> DEFINE c == config_write_file(l, p)
           g == Block(guid_foreign, <<7>>) \o config_write_file(l, p)
           d == get_data_raw(l)
<1>1. IsFile(c, d, p, 0) /\ IsFile(g, d, p, 3)
  BY FileLayout
<1>2. \E off : size_t = 4 => Encodes(d, l, off)
  BY DataLayout
<1> HIDE DEF c, g, d
<1>3. \E x, off : IsFile(c, x, p, 0) /\ IsFile(g, x, p, 3) /\ (size_t = 4 => Encodes(x, l, off))
  BY <1>1, <1>2
<1> QED
  BY <1>3 DEF c, g

LEMMA InitStore == StoreInit => StoreInv
<1> SUFFICES ASSUME StoreInit PROVE StoreInv
  OBVIOUS
<1>1. PICK l \in Lists, p \in Ints :
        /\ cells \in {config_write_file(l, p), Block(guid_foreign, <<7>>) \o config_write_file(l, p)}
        /\ saved = [list |-> l, port |-> p]
  BY DEF StoreInit
<1>2. size_t \in {4, 8} /\ size_t \in SizeTs
  BY SizeTsAssumption DEF StoreInit
<1>3. l \in Seq(AnyEntries)
  BY ListsAreAny
<1>4. PICK d, off :
        /\ IsFile(config_write_file(l, p), d, p, 0)
        /\ IsFile(Block(guid_foreign, <<7>>) \o config_write_file(l, p), d, p, 3)
        /\ size_t = 4 => Encodes(d, l, off)
  BY <1>2, <1>3, FilesHold
<1>6. PICK o : IsFile(cells, d, p, o)
  BY <1>1, <1>4
<1>7. cells \in Seq(Int) /\ Len(cells) \in Nat
  <2>1. cells \in Seq(Int)
    BY <1>6 DEF IsFile
  <2> QED
    BY <2>1, LenProperties
<1>8. saved.port = p /\ saved.list = l
  BY <1>1
<1>9. Stored(cells, d, o, off)
  BY <1>4, <1>6, <1>7, <1>8 DEF Stored, StoreInit
<1>10. Reading(d, o, off)
  BY DEF Reading, StoreInit
<1>11. StoreTypes
  <2>1. <<>> \in Seq(AnyEntries) /\ DefaultInt \in Ints
    BY IntsAssumption
  <2>2. <<>> \in Lists
    <3>1. IsPrefix(<<>>, l)
      BY <1>3, EmptyFront
    <3> QED
      BY <2>1, <3>1, FrontIsList
  <2>3. /\ phase = "off" /\ pos = 1 /\ end = 0 /\ todo = 0 /\ list = <<>>
        /\ g_config_port = DefaultInt /\ torn = FALSE
    BY DEF StoreInit
  <2>4. saved.port \in Ints /\ saved.list \in Lists /\ saved.list \in Seq(AnyEntries)
    BY <1>3, <1>8
  <2>5. pos \in 1 .. Len(cells) + 1
    BY <1>7, <2>3
  <2>6. end \in Nat /\ todo \in Int
    BY <2>3
  <2> QED
    BY <1>2, <2>1, <2>2, <2>3, <2>4, <2>5, <2>6 DEF StoreTypes
<1> QED
  BY <1>9, <1>10, <1>11 DEF StoreInv

LEMMA StartsInv ==
  ASSUME StoreTypes, NEW f, NEW d, NEW o, NEW off,
         Stored(f, d, o, off), Reading(d, o, off), Starts
  PROVE  StoreTypes' /\ Reading(d, o, off)'
<1>1. <<>> \in Seq(AnyEntries) /\ (size_t = 4 => <<>> \in Lists) /\ DefaultInt \in Ints
  BY NothingRead, IntsAssumption
<1>2. Len(cells) \in Nat
  BY Cells
<1> QED
  BY <1>1, <1>2 DEF Starts, StoreTypes, Reading, store

LEMMA RunsInv ==
  ASSUME StoreTypes, NEW d, NEW o, NEW off, Reading(d, o, off), Runs
  PROVE  StoreTypes' /\ Reading(d, o, off)'
BY DEF Runs, StoreTypes, Reading, store, values

LEMMA EditsInv ==
  ASSUME StoreTypes, NEW d, NEW o, NEW off, Reading(d, o, off), Edits
  PROVE  StoreTypes' /\ Reading(d, o, off)'
<1>1. list' \in Seq(AnyEntries)
  BY ListsAreAny DEF Edits
<1> QED
  BY <1>1 DEF Edits, StoreTypes, Reading, store

LEMMA ExitsInv ==
  ASSUME StoreTypes, Exits
  PROVE  StoreInv'
<1>1. PICK l, p, c : l = list /\ p = g_config_port /\ c = config_write_file(list, g_config_port)
  OBVIOUS
<1>2. /\ size_t \in {4, 8} /\ size_t \in SizeTs /\ p \in Ints
      /\ l \in Seq(AnyEntries) /\ (size_t = 4 => l \in Lists)
  BY <1>1, SizeTsAssumption DEF StoreTypes
<1>3. PICK d, off :
        /\ IsFile(c, d, p, 0)
        /\ size_t = 4 => Encodes(d, l, off)
  BY <1>1, <1>2, FilesHold
<1>4. /\ cells' = c /\ torn' = FALSE /\ phase' = "off" /\ pos' = 1 /\ end' = 0 /\ todo' = 0
      /\ size_t' = size_t /\ list' = l /\ g_config_port' = p
  BY <1>1 DEF Exits, values
<1>5. saved'.port = p /\ saved'.list = l
  BY <1>1 DEF Exits
<1>6. c \in Seq(Int) /\ Len(c) \in Nat
  <2>1. c \in Seq(Int)
    BY <1>3 DEF IsFile
  <2> QED
    BY <2>1, LenProperties
<1>7. StoreTypes'
  <2>1. pos' \in 1 .. Len(cells') + 1
    BY <1>4, <1>6
  <2>2. end' \in Nat /\ todo' \in Int
    BY <1>4
  <2> QED
    BY <1>2, <1>4, <1>5, <2>1, <2>2 DEF StoreTypes
<1>8. Stored(c, d, 0, off)'
  <2>1. /\ IsFile(c, d, saved'.port, 0)
        /\ size_t' = 4 => Encodes(d, saved'.list, off)
    BY <1>3, <1>4, <1>5
  <2>2. /\ cells' \in Seq(Int) /\ Len(cells') <= Len(c) /\ Len(cells') = Len(c)
        /\ \A i \in 1 .. Len(cells') : cells'[i] = c[i]
    BY <1>4, <1>6
  <2> QED
    BY <2>1, <2>2 DEF Stored
<1>9. Reading(d, 0, off)'
  BY <1>4 DEF Reading
<1> QED
  BY <1>7, <1>8, <1>9 DEF StoreInv

LEMMA TearsInv ==
  ASSUME StoreTypes, NEW f, NEW d, NEW o, NEW off,
         Stored(f, d, o, off), Reading(d, o, off), Tears
  PROVE  StoreTypes' /\ Stored(f, d, o, off)' /\ Reading(d, o, off)'
<1>1. PICK k \in 0 .. Len(cells) - 1 : cells' = SubSeq(cells, 1, k)
  BY DEF Tears
<1>2. cells \in Seq(Int) /\ Len(cells) \in Nat /\ \A i \in 1 .. Len(cells) : cells[i] \in Int
  BY Cells, ElementOfSeq
<1>3. k \in Nat /\ k < Len(cells) /\ \A i \in 1 .. k : i \in 1 .. Len(cells)
  BY <1>2
<1>4. cells' \in Seq(Int) /\ Len(cells') = k /\ \A i \in 1 .. k : cells'[i] = cells[i]
  <2>1. /\ SubSeq(cells, 1, k) \in Seq(Int)
        /\ Len(SubSeq(cells, 1, k)) = IF 1 <= k THEN k - 1 + 1 ELSE 0
        /\ \A i \in 1 .. k - 1 + 1 : SubSeq(cells, 1, k)[i] = cells[1 + i - 1]
    BY <1>2, <1>3, SubSeqProperties
  <2>2. k - 1 + 1 = k /\ \A i \in 1 .. k : 1 + i - 1 = i
    BY <1>3
  <2> QED
    BY <1>1, <1>3, <2>1, <2>2
<1>5. Stored(f, d, o, off)'
  <2>1. /\ IsFile(f, d, saved.port, o) /\ Len(cells) <= Len(f)
        /\ \A i \in 1 .. Len(cells) : cells[i] = f[i]
        /\ size_t = 4 => Encodes(d, saved.list, off)
    BY DEF Stored
  <2>2. Len(f) \in Nat
    <3>1. f \in Seq(Int)
      BY <2>1 DEF IsFile
    <3> QED
      BY <3>1, LenProperties
  <2>3. Len(cells') <= Len(f) /\ \A i \in 1 .. Len(cells') : cells'[i] = f[i]
    BY <1>2, <1>3, <1>4, <2>1, <2>2
  <2>4. torn' /\ size_t' = size_t /\ saved' = saved
    BY DEF Tears
  <2> QED
    BY <1>4, <2>1, <2>3, <2>4 DEF Stored
<1>6. StoreTypes' /\ Reading(d, o, off)'
  <2>1. phase = "off" /\ pos = 1
    BY DEF Tears, Reading
  <2> QED
    BY <1>3, <1>4, <2>1 DEF Tears, StoreTypes, Reading, values
<1> QED
  BY <1>5, <1>6

-----------------------------------------------------------------------------
(* Steps of config_read_file.                                              *)

\* Between two blocks a front of the list has been read.
LEMMA BetweenBlocks ==
  ASSUME StoreTypes, NEW d, NEW o, NEW off, Reading(d, o, off), phase = "guid"
  PROVE  ListBegun /\ g_config_port \in {saved.port, DefaultInt}
<1>1. IsPrefix(<<>>, saved.list)
  BY NothingRead
<1>2. ListRead => ListBegun
  BY WholeFront DEF ListRead, ListBegun, StoreTypes
<1> QED
  BY <1>1, <1>2 DEF Reading, ListBegun

LEMMA FileEndsInv ==
  ASSUME StoreTypes, NEW f, NEW d, NEW o, NEW off,
         Stored(f, d, o, off), Reading(d, o, off), FileEnds
  PROVE  StoreTypes' /\ Reading(d, o, off)'
<1> DEFINE n == Len(d)
           m == Len(cells)
<1>1. n \in Nat /\ m \in Nat /\ o \in Nat /\ (~ torn => m = o + (8 + n))
  BY Cells
<1>2. /\ phase = "guid" /\ pos > m /\ phase' = "done"
      /\ UNCHANGED <<cells, saved, torn, size_t, pos, end, todo, list, g_config_port>>
  BY DEF FileEnds, Goes, store, values
<1>3. \/ pos \in {1, o + 1}
      \/ pos = o + (3 + n)
      \/ pos = o + (9 + n) /\ ListRead /\ g_config_port = saved.port
  BY <1>2 DEF Reading
<1> HIDE DEF n, m
<1>4. ~ torn => ListRead /\ g_config_port = saved.port
  BY <1>1, <1>2, <1>3
<1>5. ListBegun /\ g_config_port \in {saved.port, DefaultInt}
  BY <1>2, BetweenBlocks
<1>6. StoreTypes'
  BY <1>2 DEF StoreTypes
<1>7. Reading(d, o, off)'
  BY <1>2, <1>4, <1>5 DEF Reading, ListRead, ListBegun
<1> QED
  BY <1>6, <1>7

LEMMA SizeThrowsInv ==
  ASSUME StoreTypes, NEW f, NEW d, NEW o, NEW off,
         Stored(f, d, o, off), Reading(d, o, off), SizeThrows
  PROVE  StoreTypes' /\ Reading(d, o, off)'
<1> DEFINE n == Len(d)
           m == Len(cells)
<1>1. n \in Nat /\ m \in Nat /\ o \in Nat /\ (~ torn => m = o + (8 + n)) /\ torn \in BOOLEAN
  BY Cells DEF StoreTypes
<1>2. /\ phase = "guid" /\ pos = m /\ phase' = "thrown"
      /\ UNCHANGED <<cells, saved, torn, size_t, pos, end, todo, list, g_config_port>>
  BY DEF SizeThrows, Goes, store, values
<1>3. \/ pos = 1 \/ pos = o + 1
      \/ pos = o + (3 + n) \/ pos = o + (9 + n)
  BY <1>2 DEF Reading
<1> HIDE DEF n, m
<1>4. torn
  BY <1>1, <1>2, <1>3
<1>5. ListBegun /\ g_config_port \in {saved.port, DefaultInt}
  BY <1>2, BetweenBlocks
<1>6. StoreTypes'
  BY <1>2 DEF StoreTypes
<1>7. Reading(d, o, off)'
  BY <1>2, <1>4, <1>5 DEF Reading, ListRead, ListBegun
<1> QED
  BY <1>6, <1>7

LEMMA FindsVariableInv ==
  ASSUME StoreTypes, NEW f, NEW d, NEW o, NEW off,
         Stored(f, d, o, off), Reading(d, o, off), FindsVariable
  PROVE  StoreTypes' /\ Reading(d, o, off)'
<1> DEFINE n == Len(d)
           m == Len(cells)
<1>1. /\ n \in Nat /\ m \in Nat /\ o \in Nat /\ (o = 0 \/ o = 3)
      /\ m <= o + (8 + n)
      /\ m >= 2 /\ o = 3 => cells[1] = guid_foreign
      /\ m >= o + 2 => cells[o + 1] = guid_actions /\ cells[o + 2] = n
      /\ m >= o + (4 + n) => cells[o + (3 + n)] = guid_port /\ cells[o + (4 + n)] = 4
  BY Cells
<1>2. /\ phase = "guid" /\ pos < m
      /\ UNCHANGED <<cells, saved, torn, size_t, todo, g_config_port>>
      /\ pos' = pos + 2 /\ end' = pos + 1 + cells[pos + 1]
      /\ \/ cells[pos] = guid_actions /\ phase' = "count" /\ list' = <<>>
         \/ cells[pos] = guid_port /\ phase' = "int" /\ list' = list
  BY DEF FindsVariable, Goes, store
<1>3. \/ pos = 1 /\ g_config_port = DefaultInt
      \/ pos = o + 1 /\ g_config_port = DefaultInt
      \/ pos = o + (3 + n) /\ ListRead /\ g_config_port = DefaultInt
      \/ pos = o + (9 + n)
  BY <1>2 DEF Reading
<1>4. pos \in Nat /\ pos >= 1
  BY <1>1 DEF StoreTypes
<1>5. guid_actions # guid_port /\ guid_foreign # guid_port /\ guid_foreign # guid_actions
  BY DEF guid_actions, guid_port, guid_foreign
<1>6. <<>> \in Seq(AnyEntries) /\ (size_t = 4 => <<>> \in Lists)
  BY NothingRead
<1> HIDE DEF n, m
<1>7. pos' \in 1 .. m + 1
  BY <1>1, <1>2, <1>4
<1>8. \/ /\ pos = o + 1 /\ cells[pos] = guid_actions /\ cells[pos + 1] = n
         /\ g_config_port = DefaultInt
      \/ /\ pos = o + (3 + n) /\ cells[pos] = guid_port /\ cells[pos + 1] = 4
         /\ ListRead /\ g_config_port = DefaultInt
  <2>1. CASE pos = o + 1 /\ g_config_port = DefaultInt
    <3>1. m >= o + 2 /\ pos + 1 = o + 2
      BY <1>1, <1>2, <2>1
    <3> QED
      BY <1>1, <2>1, <3>1
  <2>2. CASE pos = 1 /\ g_config_port = DefaultInt /\ pos # o + 1
    <3>1. o = 3 /\ m >= 2
      BY <1>1, <1>2, <2>2
    <3> QED
      BY <1>1, <1>2, <1>5, <2>2, <3>1
  <2>3. CASE pos = o + (3 + n) /\ ListRead /\ g_config_port = DefaultInt
    <3>1. m >= o + (4 + n) /\ pos + 1 = o + (4 + n)
      BY <1>1, <1>2, <2>3
    <3> QED
      BY <1>1, <2>3, <3>1
  <2>4. CASE pos = o + (9 + n)
    BY <1>1, <1>2, <2>4
  <2> QED
    BY <1>3, <2>1, <2>2, <2>3, <2>4
<1>9. CASE pos = o + 1 /\ cells[pos] = guid_actions /\ cells[pos + 1] = n /\ g_config_port = DefaultInt
  <2>1. phase' = "count" /\ list' = <<>> /\ pos' = o + 3 /\ end' = o + (2 + n) /\ end' \in Nat
    BY <1>1, <1>2, <1>5, <1>9
  <2>2. StoreTypes'
    BY <1>2, <1>6, <1>7, <2>1 DEF StoreTypes, m
  <2>3. Reading(d, o, off)'
    BY <1>2, <1>9, <2>1 DEF Reading, n
  <2> QED
    BY <2>2, <2>3
<1>10. CASE /\ pos = o + (3 + n) /\ cells[pos] = guid_port /\ cells[pos + 1] = 4
            /\ ListRead /\ g_config_port = DefaultInt
  <2>1. phase' = "int" /\ list' = list /\ pos' = o + (5 + n) /\ end' = o + (8 + n) /\ end' \in Nat
    BY <1>1, <1>2, <1>5, <1>10
  <2>2. StoreTypes'
    BY <1>2, <1>7, <2>1 DEF StoreTypes, m
  <2>3. Reading(d, o, off)'
    BY <1>2, <1>10, <2>1 DEF Reading, ListRead, n
  <2> QED
    BY <2>2, <2>3
<1> QED
  BY <1>8, <1>9, <1>10

LEMMA SkipsForeignInv ==
  ASSUME StoreTypes, NEW f, NEW d, NEW o, NEW off,
         Stored(f, d, o, off), Reading(d, o, off), SkipsForeign
  PROVE  StoreTypes' /\ Reading(d, o, off)'
<1> DEFINE n == Len(d)
           m == Len(cells)
           last == pos + 1 + cells[pos + 1]
<1>1. /\ n \in Nat /\ m \in Nat /\ o \in Nat /\ (o = 0 \/ o = 3)
      /\ m <= o + (8 + n) /\ (~ torn => m = o + (8 + n)) /\ torn \in BOOLEAN
      /\ m >= 2 /\ o = 3 => cells[1] = guid_foreign /\ cells[2] = 1
      /\ m >= o + 2 => cells[o + 1] = guid_actions
      /\ m >= o + (4 + n) => cells[o + (3 + n)] = guid_port
  BY Cells DEF StoreTypes
<1>2. /\ phase = "guid" /\ pos < m
      /\ UNCHANGED <<cells, saved, torn, size_t, end, todo, list, g_config_port>>
      /\ cells[pos] # guid_actions /\ cells[pos] # guid_port
      /\ IF last <= m THEN phase' = "guid" /\ pos' = last + 1
                      ELSE phase' = "thrown" /\ pos' = pos
  BY DEF SkipsForeign, store, values
<1>3. \/ pos = 1 /\ list = <<>> /\ g_config_port = DefaultInt
      \/ pos = o + 1
      \/ pos = o + (3 + n)
      \/ pos = o + (9 + n)
  BY <1>2 DEF Reading
<1>4. ListBegun /\ g_config_port \in {saved.port, DefaultInt}
  BY <1>2, BetweenBlocks
<1> HIDE DEF n, m
<1>5. pos # o + 1 /\ pos # o + (3 + n) /\ pos # o + (9 + n)
  <2>1. pos = o + 1 => m >= o + 2
    BY <1>1, <1>2
  <2>2. pos = o + (3 + n) => m >= o + (4 + n)
    BY <1>1, <1>2
  <2>3. pos # o + (9 + n)
    BY <1>1, <1>2
  <2> QED
    BY <1>1, <1>2, <2>1, <2>2, <2>3
<1>6. pos = 1 /\ list = <<>> /\ g_config_port = DefaultInt /\ o = 3 /\ last = 3
  <2>1. pos = 1 /\ list = <<>> /\ g_config_port = DefaultInt /\ o = 3 /\ m >= 2
    BY <1>1, <1>2, <1>3, <1>5
  <2>2. cells[pos + 1] = 1
    BY <1>1, <2>1
  <2> QED
    BY <2>1, <2>2
<1> HIDE DEF last
<1>7. CASE last <= m
  <2>1. phase' = "guid" /\ pos' = o + 1 /\ pos' \in 1 .. m + 1
    BY <1>1, <1>2, <1>6, <1>7
  <2>2. StoreTypes'
    BY <1>2, <2>1 DEF StoreTypes, m
  <2>3. Reading(d, o, off)'
    BY <1>2, <1>6, <2>1 DEF Reading
  <2> QED
    BY <2>2, <2>3
<1>8. CASE ~ (last <= m)
  <2>1. phase' = "thrown" /\ pos' = pos /\ torn
    BY <1>1, <1>2, <1>6, <1>8
  <2>2. StoreTypes'
    BY <1>2, <2>1 DEF StoreTypes
  <2>3. Reading(d, o, off)'
    BY <1>2, <1>4, <2>1 DEF Reading, ListBegun, ListRead
  <2> QED
    BY <2>2, <2>3
<1> QED
  BY <1>7, <1>8

LEMMA FlushesInv ==
  ASSUME StoreTypes, NEW f, NEW d, NEW o, NEW off,
         Stored(f, d, o, off), Reading(d, o, off), Flushes
  PROVE  StoreTypes' /\ Reading(d, o, off)'
<1> DEFINE n == Len(d)
           m == Len(cells)
<1>1. /\ n \in Nat /\ m \in Nat /\ o \in Nat /\ (~ torn => m = o + (8 + n)) /\ torn \in BOOLEAN
      /\ end \in Nat
  BY Cells DEF StoreTypes
<1>2. /\ phase = "flush"
      /\ UNCHANGED <<cells, saved, torn, size_t, end, todo, list, g_config_port>>
      /\ IF end <= m THEN phase' = "guid" /\ pos' = end + 1
                     ELSE phase' = "thrown" /\ pos' = pos
  BY DEF Flushes, store, values
<1>3. \/ /\ end = o + (2 + n) /\ ListBegun /\ g_config_port = DefaultInt
         /\ end <= m => ListRead
      \/ /\ end = o + (8 + n) /\ ListRead /\ g_config_port \in {saved.port, DefaultInt}
         /\ end <= m => g_config_port = saved.port
  BY <1>2 DEF Reading
<1>4. ListBegun /\ g_config_port \in {saved.port, DefaultInt}
  <2>1. ListRead => ListBegun
    BY WholeFront DEF ListRead, ListBegun, StoreTypes
  <2> QED
    BY <1>3, <2>1
<1> HIDE DEF n, m
<1>5. CASE end <= m
  <2>1. phase' = "guid" /\ pos' = end + 1 /\ pos' \in 1 .. m + 1
    BY <1>1, <1>2, <1>5
  <2>2. \/ pos' = o + (3 + n) /\ ListRead /\ g_config_port = DefaultInt
        \/ pos' = o + (9 + n) /\ ListRead /\ g_config_port = saved.port
    BY <1>1, <1>3, <1>5, <2>1
  <2>3. StoreTypes'
    BY <1>2, <2>1 DEF StoreTypes, m
  <2>4. Reading(d, o, off)'
    BY <1>2, <2>1, <2>2 DEF Reading, ListRead, n
  <2> QED
    BY <2>3, <2>4
<1>6. CASE ~ (end <= m)
  <2>1. phase' = "thrown" /\ pos' = pos /\ torn
    BY <1>1, <1>2, <1>3, <1>6
  <2>2. StoreTypes'
    BY <1>2, <2>1 DEF StoreTypes
  <2>3. Reading(d, o, off)'
    BY <1>2, <1>4, <2>1 DEF Reading, ListBegun, ListRead
  <2> QED
    BY <2>2, <2>3
<1> QED
  BY <1>5, <1>6

-----------------------------------------------------------------------------
(* Steps of set_data_raw.                                                  *)

LEMMA ReadsCountInv ==
  ASSUME StoreTypes, NEW f, NEW d, NEW o, NEW off,
         Stored(f, d, o, off), Reading(d, o, off), ReadsCount
  PROVE  StoreTypes' /\ Reading(d, o, off)'
<1> DEFINE n == Len(d)
           m == Len(cells)
           top == Limit
<1>1. n \in Nat /\ m \in Nat /\ o \in Nat /\ cells \in Seq(Int) /\ d \in Seq(Nat)
  BY Cells
<1>2. /\ phase = "count" /\ CanRead(pos, 4) /\ phase' = "entry"
      /\ UNCHANGED <<cells, saved, torn, size_t, end, list, g_config_port>>
      /\ todo' = Signed(pos) /\ pos' = pos + 4
  BY DEF ReadsCount, Goes, store, values
<1>3. pos = o + 3 /\ end = o + (2 + n) /\ list = <<>> /\ g_config_port = DefaultInt
  BY <1>2 DEF Reading
<1>4. top \in Nat /\ top <= end /\ top <= m
  BY <1>1, LimitIs DEF StoreTypes
<1>5. pos + 4 - 1 <= top
  BY <1>2 DEF CanRead
<1> HIDE DEF n, m, top
<1>6. ASSUME NEW k \in 1 .. 4 PROVE cells[o + 2 + k] = d[0 + k] /\ cells[o + 2 + k] \in Nat
  <2> DEFINE x == o + 2 + k
  <2>1. x \in Nat /\ x >= o + 3 /\ x <= o + (2 + n) /\ x <= m /\ x - (o + 2) = 0 + k
    BY <1>1, <1>3, <1>4, <1>5
  <2> HIDE DEF x
  <2>2. cells[x] = d[x - (o + 2)] /\ cells[x] \in Nat
    BY <2>1, DataCell DEF n, m
  <2> QED
    BY <2>1, <2>2 DEF x
<1>7. o + 2 \in Nat /\ o + 2 + 1 = pos
  BY <1>1, <1>3
<1>8. todo' \in Int /\ (size_t = 4 => todo' = Word(d, 0))
  <2> DEFINE x == o + 2
  <2>1. /\ x \in Nat /\ x + 1 = pos /\ 0 \in Nat
        /\ \A k \in 1 .. 4 : cells[x + k] = d[0 + k] /\ cells[x + k] \in Nat
    BY <1>6, <1>7
  <2> HIDE DEF x
  <2>2. Signed(x + 1) \in Int /\ (Word(d, 0) <= MaxInt => Signed(x + 1) = Word(d, 0))
    BY <2>1, SignedIs
  <2>3. size_t = 4 => Word(d, 0) <= MaxInt
    BY DEF Stored, Encodes
  <2>4. todo' = Signed(x + 1)
    BY <1>2, <2>1
  <2> QED
    BY <2>2, <2>3, <2>4
<1>9. StoreTypes'
  <2>1. pos' \in 1 .. m + 1
    BY <1>1, <1>2, <1>3, <1>4, <1>5
  <2> QED
    BY <1>2, <1>8, <2>1 DEF StoreTypes, m
<1>10. Reading(d, o, off)'
  <2>1. pos' = o + 7 /\ pos' >= o + 3
    BY <1>1, <1>2, <1>3
  <2>2. IsPrefix(<<>>, saved.list)
    BY NothingRead
  <2>3. ASSUME size_t = 4
        PROVE  todo' = Len(saved.list) - Len(list) /\ pos' = o + (3 + off[Len(list)])
    <3>1. off[0] = 4 /\ Word(d, 0) = Len(saved.list) /\ Len(list) = 0
      BY <1>3, <2>3 DEF Stored, Encodes
    <3>2. Len(saved.list) \in Nat
      BY LenProperties DEF StoreTypes
    <3>3. pos' = o + (3 + 4)
      BY <1>1, <2>1
    <3>4. todo' = Len(saved.list) - Len(list)
      BY <1>8, <2>3, <3>1, <3>2
    <3>5. pos' = o + (3 + off[Len(list)])
      BY <3>1, <3>3
    <3> QED
      BY <3>4, <3>5
  <2> QED
    BY <1>2, <1>3, <2>1, <2>2, <2>3 DEF Reading, ListBegun, n
<1> QED
  BY <1>9, <1>10

\* A read that fails leaves everything but the phase.
LEMMA ThrowsTypes ==
  ASSUME StoreTypes, NEW from, ReadThrows(from)
  PROVE  /\ StoreTypes' /\ phase = from /\ phase' = "flush"
         /\ UNCHANGED <<cells, saved, torn, size_t, pos, end, todo, list, g_config_port>>
BY DEF ReadThrows, StoreTypes, Goes, store, values

LEMMA CountThrowsInv ==
  ASSUME StoreTypes, NEW f, NEW d, NEW o, NEW off,
         Stored(f, d, o, off), Reading(d, o, off), CountThrows
  PROVE  StoreTypes' /\ Reading(d, o, off)'
<1> DEFINE n == Len(d)
           m == Len(cells)
           top == Limit
<1>1. n \in Nat /\ m \in Nat /\ o \in Nat /\ cells \in Seq(Int) /\ (size_t = 4 => n >= 4)
  BY Cells
<1>2. /\ StoreTypes' /\ phase = "count" /\ phase' = "flush"
      /\ UNCHANGED <<cells, saved, torn, size_t, pos, end, todo, list, g_config_port>>
  BY ThrowsTypes DEF CountThrows
<1>3. pos = o + 3 /\ end = o + (2 + n) /\ list = <<>> /\ g_config_port = DefaultInt
  BY <1>2 DEF Reading
<1>4. top \in Nat /\ (end <= m => top = end)
  BY <1>1, LimitIs DEF StoreTypes
<1>5. ~ (pos + 4 - 1 <= top)
  BY DEF CountThrows, CanRead
<1> HIDE DEF n, m, top
<1>6. ~ (size_t = 4 /\ end <= m)
  BY <1>1, <1>3, <1>4, <1>5
<1>7. end <= m => ListRead
  BY <1>6 DEF ListRead
<1>8. ListBegun
  BY <1>3, NothingRead DEF ListBegun
<1>9. Reading(d, o, off)'
  BY <1>2, <1>3, <1>7, <1>8 DEF Reading, ListBegun, ListRead, n, m
<1> QED
  BY <1>2, <1>9

\* How far the reader is in the list.
LEMMA InList ==
  ASSUME StoreTypes, NEW d, NEW o, NEW off, Reading(d, o, off), phase = "entry", size_t = 4
  PROVE  /\ Len(list) \in Nat /\ Len(saved.list) \in Nat /\ IsPrefix(list, saved.list)
         /\ Len(list) <= Len(saved.list) /\ todo = Len(saved.list) - Len(list)
         /\ pos = o + (3 + off[Len(list)])
<1>1. /\ IsPrefix(list, saved.list) /\ todo = Len(saved.list) - Len(list)
      /\ pos = o + (3 + off[Len(list)])
  BY DEF Reading, ListBegun
<1>2. list \in Seq(AnyEntries) /\ saved.list \in Seq(AnyEntries)
  BY DEF StoreTypes
<1> QED
  BY <1>1, <1>2, LenProperties, FrontIs

\* The data from a place to another one are bytes.
LEMMA DataBytes ==
  ASSUME NEW f, NEW d, NEW o, NEW off, Stored(f, d, o, off), o \in Nat, Len(d) \in Nat,
         NEW a \in Nat, a >= o + 3, NEW b \in Int, b <= o + (2 + Len(d)), b <= Len(cells)
  PROVE  SubSeq(cells, a, b) \in Seq(Nat)
<1>1. ASSUME NEW i \in a .. b PROVE cells[i] \in Nat
  <2>1. i \in Nat /\ i >= o + 3 /\ i <= o + (2 + Len(d)) /\ i <= Len(cells)
    <3>1. Len(cells) \in Nat
      <4>1. cells \in Seq(Int)
        BY DEF Stored
      <4> QED
        BY <4>1, LenProperties
    <3> QED
      BY <3>1
  <2> QED
    BY <2>1, DataCell
<1>2. a \in Int
  OBVIOUS
<1> QED
  BY <1>1, <1>2, SubSeqProperties

LEMMA ReadsEntryInv ==
  ASSUME StoreTypes, NEW f, NEW d, NEW o, NEW off,
         Stored(f, d, o, off), Reading(d, o, off), ReadsEntry
  PROVE  StoreTypes' /\ Reading(d, o, off)'
<1> DEFINE n == Len(d)
           m == Len(cells)
           top == Limit
<1>1. n \in Nat /\ m \in Nat /\ o \in Nat /\ cells \in Seq(Int)
  BY Cells
<1>2. PICK ends \in EntryAt :
        /\ todo > 0 /\ phase = "entry" /\ phase' = "entry"
        /\ list' = Append(list, [rn |-> SubSeq(cells, pos + 12, ends[1] - 1),
                                 kn |-> SubSeq(cells, ends[1] + 1, ends[2] - 1),
                                 naction |-> Signed(ends[2] + 1)])
        /\ pos' = ends[2] + 5 /\ todo' = todo - 1
        /\ UNCHANGED <<cells, saved, torn, size_t, end, g_config_port>>
  BY DEF ReadsEntry, Goes, store
<1> DEFINE i == ends[1]
           j == ends[2]
           rn == SubSeq(cells, pos + 12, i - 1)
           kn == SubSeq(cells, i + 1, j - 1)
           e == [rn |-> rn, kn |-> kn, naction |-> Signed(j + 1)]
<1>3. pos >= o + 3 /\ end = o + (2 + n) /\ g_config_port = DefaultInt
  BY <1>2 DEF Reading
<1>4. top \in Nat /\ top <= end /\ top <= m
  BY <1>1, LimitIs DEF StoreTypes
<1>5. pos \in Nat /\ todo \in Int /\ pos >= 1
  BY <1>1 DEF StoreTypes
<1>6. i \in pos .. top /\ j \in pos .. top /\ j >= i + 1 /\ j + 1 + 4 - 1 <= top
  BY <1>2 DEF EntryAt, Nul, CanRead
<1> HIDE DEF n, m, top, i, j, rn, kn, e
<1>7. i \in Nat /\ j \in Nat /\ i >= o + 3 /\ j + 4 <= top /\ j >= o + 3
  BY <1>1, <1>3, <1>4, <1>5, <1>6
<1>8. e \in AnyEntries
  <2>1. pos + 12 \in Nat /\ pos + 12 >= o + 3 /\ i - 1 \in Int /\ i - 1 <= o + (2 + n) /\ i - 1 <= m
    BY <1>1, <1>3, <1>4, <1>5, <1>6, <1>7
  <2>2. rn \in Seq(Nat)
    BY <1>1, <2>1, DataBytes DEF rn, n, m
  <2>3. i + 1 \in Nat /\ i + 1 >= o + 3 /\ j - 1 \in Int /\ j - 1 <= o + (2 + n) /\ j - 1 <= m
    BY <1>1, <1>3, <1>4, <1>7
  <2>4. kn \in Seq(Nat)
    BY <1>1, <2>3, DataBytes DEF kn, n, m
  <2>5. ASSUME NEW k \in 1 .. 4 PROVE cells[j + k] \in Nat
    <3>1. j + k \in Nat /\ j + k >= o + 3 /\ j + k <= o + (2 + n) /\ j + k <= m
      BY <1>1, <1>3, <1>4, <1>7
    <3> QED
      BY <3>1, DataCell DEF n, m
  <2>6. Signed(j + 1) \in Int
    BY <1>7, <2>5, SignedIs
  <2> QED
    BY <2>2, <2>4, <2>6 DEF e, AnyEntries
<1>9. list' = Append(list, e) /\ pos' = j + 5
  BY <1>2 DEF e, rn, kn, i, j
<1>10. list' \in Seq(AnyEntries) /\ Len(list') = Len(list) + 1
  BY <1>8, <1>9, AppendProperties DEF StoreTypes
<1>11. pos' \in 1 .. m + 1 /\ pos' >= o + 3 /\ todo' \in Int /\ todo' = todo - 1
  BY <1>1, <1>2, <1>4, <1>5, <1>7, <1>9
<1>12. ASSUME size_t = 4
       PROVE  /\ IsPrefix(list', saved.list) /\ list' \in Lists
              /\ todo' = Len(saved.list) - Len(list')
              /\ pos' = o + (3 + off[Len(list')])
  <2> DEFINE k == Len(list) + 1
  <2>1. /\ Len(list) \in Nat /\ Len(saved.list) \in Nat /\ IsPrefix(list, saved.list)
        /\ Len(list) <= Len(saved.list) /\ todo = Len(saved.list) - Len(list)
        /\ pos = o + (3 + off[Len(list)])
    BY <1>2, <1>12, InList
  <2>2. k \in 1 .. Len(saved.list) /\ k - 1 = Len(list) /\ Len(list) < Len(saved.list)
    BY <1>2, <2>1
  <2>3. saved.list \in Lists /\ saved.list \in Seq(AnyEntries) /\ list \in Seq(AnyEntries) /\ end \in Nat
    BY <1>12 DEF StoreTypes
  <2> HIDE DEF k
  <2>4. pos = o + (3 + off[k - 1]) /\ end = o + (2 + Len(d))
    BY <1>3, <2>1, <2>2 DEF n
  <2>5. /\ j + 5 = o + (3 + off[k])
        /\ rn = saved.list[k].rn /\ kn = saved.list[k].kn
        /\ Signed(j + 1) = saved.list[k].naction
    <3>1. \A x \in EntryAt :
            /\ x[2] + 5 = o + (3 + off[k])
            /\ o + (2 + off[k]) <= Len(cells)
            /\ SubSeq(cells, pos + 12, x[1] - 1) = saved.list[k].rn
            /\ SubSeq(cells, x[1] + 1, x[2] - 1) = saved.list[k].kn
            /\ Signed(x[2] + 1) = saved.list[k].naction
      BY <1>12, <2>2, <2>3, <2>4, EntryAtIs
    <3> QED
      BY <3>1 DEF i, j, rn, kn
  <2>6. saved.list[k] \in AnyEntries
    BY <2>2, <2>3, ElementOfSeq
  <2>7. e = saved.list[k]
    BY <2>5, <2>6 DEF e, AnyEntries
  <2>8. IsPrefix(list', saved.list)
    <3>1. IsPrefix(list, saved.list) /\ Len(list) < Len(saved.list) /\ e = saved.list[Len(list) + 1]
      BY <2>1, <2>2, <2>7 DEF k
    <3>2. IsPrefix(Append(list, e), saved.list)
      BY <2>3, <3>1, NextFront
    <3> QED
      BY <1>9, <3>2
  <2>9. list' \in Lists
    BY <1>10, <2>3, <2>8, FrontIsList
  <2>10. todo' = Len(saved.list) - Len(list')
    BY <1>10, <1>11, <2>1
  <2>11. pos' = o + (3 + off[Len(list')])
    BY <1>9, <1>10, <2>5 DEF k
  <2> QED
    BY <2>8, <2>9, <2>10, <2>11
<1>13. StoreTypes'
  BY <1>2, <1>10, <1>11, <1>12 DEF StoreTypes, m
<1>14. Reading(d, o, off)'
  BY <1>2, <1>3, <1>11, <1>12 DEF Reading, ListBegun, n
<1> QED
  BY <1>13, <1>14

LEMMA EntryThrowsInv ==
  ASSUME StoreTypes, NEW f, NEW d, NEW o, NEW off,
         Stored(f, d, o, off), Reading(d, o, off), EntryThrows
  PROVE  StoreTypes' /\ Reading(d, o, off)'
<1> DEFINE n == Len(d)
           m == Len(cells)
           top == Limit
<1>1. n \in Nat /\ m \in Nat /\ o \in Nat /\ cells \in Seq(Int)
  BY Cells
<1>2. /\ StoreTypes' /\ phase = "entry" /\ phase' = "flush" /\ todo > 0 /\ EntryAt = {}
      /\ UNCHANGED <<cells, saved, torn, size_t, pos, end, todo, list, g_config_port>>
  BY ThrowsTypes DEF EntryThrows
<1>3. end = o + (2 + n) /\ g_config_port = DefaultInt /\ ListBegun
  BY <1>2 DEF Reading
<1>4. top \in Nat /\ (end <= m => top = end) /\ end \in Nat
  BY <1>1, LimitIs DEF StoreTypes
<1> HIDE DEF n, m, top
<1>5. ASSUME size_t = 4 PROVE ~ (end <= m)
  <2> DEFINE k == Len(list) + 1
  <2>1. /\ Len(list) \in Nat /\ Len(saved.list) \in Nat
        /\ Len(list) <= Len(saved.list) /\ todo = Len(saved.list) - Len(list)
        /\ pos = o + (3 + off[Len(list)])
    BY <1>2, <1>5, InList
  <2>2. k \in 1 .. Len(saved.list) /\ k - 1 = Len(list) /\ k \in 0 .. Len(saved.list)
    BY <1>2, <2>1
  <2>3. saved.list \in Lists
    BY <1>5 DEF StoreTypes
  <2> HIDE DEF k
  <2>4. pos = o + (3 + off[k - 1]) /\ end = o + (2 + Len(d))
    BY <1>3, <2>1, <2>2 DEF n
  <2>5. top < o + (2 + off[k])
    BY <1>2, <1>4, <1>5, <2>2, <2>3, <2>4, EntryAtIs DEF top
  <2>6. off[k] \in Nat /\ off[k] <= n
    BY <1>5, <2>2 DEF Stored, Encodes, n
  <2> QED
    BY <1>1, <1>3, <1>4, <2>5, <2>6
<1>6. end <= m => ListRead
  BY <1>5 DEF ListRead
<1>7. Reading(d, o, off)'
  BY <1>2, <1>3, <1>6 DEF Reading, ListBegun, ListRead, n, m
<1> QED
  BY <1>2, <1>7

LEMMA LastEntryInv ==
  ASSUME StoreTypes, NEW d, NEW o, NEW off, Reading(d, o, off), LastEntry
  PROVE  StoreTypes' /\ Reading(d, o, off)'
<1>1. /\ phase = "entry" /\ phase' = "flush" /\ todo <= 0
      /\ UNCHANGED <<cells, saved, torn, size_t, pos, end, todo, list, g_config_port>>
  BY DEF LastEntry, Goes, store, values
<1>2. end = o + (2 + Len(d)) /\ g_config_port = DefaultInt /\ ListBegun
  BY <1>1 DEF Reading
<1>3. ASSUME size_t = 4 PROVE list = saved.list
  <2>1. /\ Len(list) \in Nat /\ Len(saved.list) \in Nat /\ IsPrefix(list, saved.list)
        /\ Len(list) <= Len(saved.list) /\ todo = Len(saved.list) - Len(list)
    BY <1>1, <1>3, InList
  <2>2. Len(list) = Len(saved.list)
    BY <1>1, <2>1
  <2> QED
    BY <2>1, <2>2, WholeFront DEF StoreTypes
<1>4. StoreTypes'
  BY <1>1 DEF StoreTypes
<1>5. Reading(d, o, off)'
  BY <1>1, <1>2, <1>3 DEF Reading, ListBegun, ListRead
<1> QED
  BY <1>4, <1>5

LEMMA ReadsIntInv ==
  ASSUME StoreTypes, NEW f, NEW d, NEW o, NEW off,
         Stored(f, d, o, off), Reading(d, o, off), ReadsInt
  PROVE  StoreTypes' /\ Reading(d, o, off)'
<1> DEFINE n == Len(d)
           m == Len(cells)
           top == Limit
<1>1. /\ n \in Nat /\ m \in Nat /\ o \in Nat /\ cells \in Seq(Int)
      /\ m >= o + (8 + n) => Number(o + (5 + n)) = saved.port
  BY Cells
<1>2. /\ phase = "int" /\ CanRead(pos, 4) /\ phase' = "flush"
      /\ UNCHANGED <<cells, saved, torn, size_t, end, todo, list>>
      /\ g_config_port' = Number(pos) /\ pos' = pos + 4
  BY DEF ReadsInt, Goes, store
<1>3. pos = o + (5 + n) /\ end = o + (8 + n) /\ ListRead
  BY <1>2 DEF Reading
<1>4. top \in Nat /\ top <= m
  BY <1>1, LimitIs DEF StoreTypes
<1>5. pos + 4 - 1 <= top
  BY <1>2 DEF CanRead
<1> HIDE DEF n, m, top
<1>6. m >= o + (8 + n) /\ pos' \in 1 .. m + 1
  BY <1>1, <1>2, <1>3, <1>4, <1>5
<1>7. g_config_port' = saved.port
  BY <1>1, <1>2, <1>3, <1>6
<1>8. StoreTypes'
  BY <1>2, <1>6, <1>7 DEF StoreTypes, m
<1>9. Reading(d, o, off)'
  BY <1>2, <1>3, <1>7 DEF Reading, ListRead, n
<1> QED
  BY <1>8, <1>9

LEMMA IntThrowsInv ==
  ASSUME StoreTypes, NEW f, NEW d, NEW o, NEW off,
         Stored(f, d, o, off), Reading(d, o, off), IntThrows
  PROVE  StoreTypes' /\ Reading(d, o, off)'
<1> DEFINE n == Len(d)
           m == Len(cells)
           top == Limit
<1>1. n \in Nat /\ m \in Nat /\ o \in Nat /\ cells \in Seq(Int)
  BY Cells
<1>2. /\ StoreTypes' /\ phase = "int" /\ phase' = "flush"
      /\ UNCHANGED <<cells, saved, torn, size_t, pos, end, todo, list, g_config_port>>
  BY ThrowsTypes DEF IntThrows
<1>3. pos = o + (5 + n) /\ end = o + (8 + n) /\ ListRead /\ g_config_port = DefaultInt
  BY <1>2 DEF Reading
<1>4. top \in Nat /\ (end <= m => top = end)
  BY <1>1, LimitIs DEF StoreTypes
<1>5. ~ (pos + 4 - 1 <= top)
  BY DEF IntThrows, CanRead
<1> HIDE DEF n, m, top
<1>6. ~ (end <= m)
  BY <1>1, <1>3, <1>4, <1>5
<1>7. Reading(d, o, off)'
  BY <1>2, <1>3, <1>6 DEF Reading, ListBegun, ListRead, n, m
<1> QED
  BY <1>2, <1>7

-----------------------------------------------------------------------------
(* Every step, and what follows for the properties.                        *)

LEMMA NextStore ==
  ASSUME StoreInv, [StoreNext]_StoreVars
  PROVE  StoreInv'
<1>1. StoreTypes
  BY DEF StoreInv
<1>2. PICK f, d, o, off : Stored(f, d, o, off) /\ Reading(d, o, off)
  BY DEF StoreInv
<1>3. CASE Exits
  BY <1>1, <1>3, ExitsInv
<1>4. CASE Tears
  <2>1. StoreTypes' /\ Stored(f, d, o, off)' /\ Reading(d, o, off)'
    BY <1>1, <1>2, <1>4, TearsInv
  <2> QED
    BY <2>1 DEF StoreInv
<1>5. ASSUME UNCHANGED store, StoreTypes' /\ Reading(d, o, off)' PROVE StoreInv'
  <2>1. Stored(f, d, o, off)'
    BY <1>2, <1>5, StoreStays
  <2> QED
    BY <1>5, <2>1 DEF StoreInv
<1>6. CASE Starts
  <2>1. StoreTypes' /\ Reading(d, o, off)' /\ UNCHANGED store
    BY <1>1, <1>2, <1>6, StartsInv DEF Starts
  <2> QED
    BY <1>5, <2>1
<1>7. CASE Runs
  <2>1. StoreTypes' /\ Reading(d, o, off)' /\ UNCHANGED store
    BY <1>1, <1>2, <1>7, RunsInv DEF Runs, store
  <2> QED
    BY <1>5, <2>1
<1>8. CASE Edits
  <2>1. StoreTypes' /\ Reading(d, o, off)' /\ UNCHANGED store
    BY <1>1, <1>2, <1>8, EditsInv DEF Edits, store
  <2> QED
    BY <1>5, <2>1
<1>9. CASE FileEnds
  <2>1. StoreTypes' /\ Reading(d, o, off)' /\ UNCHANGED store
    BY <1>1, <1>2, <1>9, FileEndsInv DEF FileEnds, store
  <2> QED
    BY <1>5, <2>1
<1>10. CASE SizeThrows
  <2>1. StoreTypes' /\ Reading(d, o, off)' /\ UNCHANGED store
    BY <1>1, <1>2, <1>10, SizeThrowsInv DEF SizeThrows, store
  <2> QED
    BY <1>5, <2>1
<1>11. CASE FindsVariable
  <2>1. StoreTypes' /\ Reading(d, o, off)' /\ UNCHANGED store
    BY <1>1, <1>2, <1>11, FindsVariableInv DEF FindsVariable, store
  <2> QED
    BY <1>5, <2>1
<1>12. CASE SkipsForeign
  <2>1. StoreTypes' /\ Reading(d, o, off)' /\ UNCHANGED store
    BY <1>1, <1>2, <1>12, SkipsForeignInv DEF SkipsForeign, store
  <2> QED
    BY <1>5, <2>1
<1>13. CASE ReadsCount
  <2>1. StoreTypes' /\ Reading(d, o, off)' /\ UNCHANGED store
    BY <1>1, <1>2, <1>13, ReadsCountInv DEF ReadsCount, store
  <2> QED
    BY <1>5, <2>1
<1>14. CASE CountThrows
  <2>1. StoreTypes' /\ Reading(d, o, off)' /\ UNCHANGED store
    BY <1>1, <1>2, <1>14, CountThrowsInv DEF CountThrows, ReadThrows, store
  <2> QED
    BY <1>5, <2>1
<1>15. CASE ReadsEntry
  <2>1. StoreTypes' /\ Reading(d, o, off)' /\ UNCHANGED store
    BY <1>1, <1>2, <1>15, ReadsEntryInv DEF ReadsEntry, store
  <2> QED
    BY <1>5, <2>1
<1>16. CASE EntryThrows
  <2>1. StoreTypes' /\ Reading(d, o, off)' /\ UNCHANGED store
    BY <1>1, <1>2, <1>16, EntryThrowsInv DEF EntryThrows, ReadThrows, store
  <2> QED
    BY <1>5, <2>1
<1>17. CASE LastEntry
  <2>1. StoreTypes' /\ Reading(d, o, off)' /\ UNCHANGED store
    BY <1>1, <1>2, <1>17, LastEntryInv DEF LastEntry, store
  <2> QED
    BY <1>5, <2>1
<1>18. CASE ReadsInt
  <2>1. StoreTypes' /\ Reading(d, o, off)' /\ UNCHANGED store
    BY <1>1, <1>2, <1>18, ReadsIntInv DEF ReadsInt, store
  <2> QED
    BY <1>5, <2>1
<1>19. CASE IntThrows
  <2>1. StoreTypes' /\ Reading(d, o, off)' /\ UNCHANGED store
    BY <1>1, <1>2, <1>19, IntThrowsInv DEF IntThrows, ReadThrows, store
  <2> QED
    BY <1>5, <2>1
<1>20. CASE Flushes
  <2>1. StoreTypes' /\ Reading(d, o, off)' /\ UNCHANGED store
    BY <1>1, <1>2, <1>20, FlushesInv DEF Flushes, store
  <2> QED
    BY <1>5, <2>1
<1>21. CASE UNCHANGED StoreVars
  <2>1. UNCHANGED store /\ UNCHANGED <<phase, pos, end, todo, list, g_config_port>>
    BY <1>21 DEF StoreVars, values
  <2>2. StoreTypes' /\ Reading(d, o, off)'
    BY <1>1, <1>2, <2>1 DEF StoreTypes, Reading, ListBegun, ListRead, store
  <2> QED
    BY <1>5, <2>1, <2>2
<1> QED
  BY <1>3, <1>4, <1>6, <1>7, <1>8, <1>9, <1>10, <1>11, <1>12, <1>13, <1>14, <1>15, <1>16,
     <1>17, <1>18, <1>19, <1>20, <1>21 DEF StoreNext

\* What is on the disk is the front of a file of what was saved, and the reader
\* is at one of its places with what stands before it.
THEOREM FileIsRead == StoreSpec => []StoreInv
<1>1. StoreInit => StoreInv
  BY InitStore
<1>2. StoreInv /\ [StoreNext]_StoreVars => StoreInv'
  BY NextStore
<1> QED
  BY <1>1, <1>2, PTL DEF StoreSpec

\* Types: the reader stays in the file, and the integer is always one that the
\* program stored, or the default.
THEOREM StoredTypes == StoreSpec => []StoreTypeOK
<1>1. StoreInv => StoreTypeOK
  <2>1. SUFFICES ASSUME StoreTypes PROVE StoreTypeOK
    BY DEF StoreInv
  <2>2. ASSUME NEW i \in DOMAIN list PROVE list[i].naction \in Int
    <3>1. list \in Seq(AnyEntries) /\ i \in 1 .. Len(list)
      <4>1. list \in Seq(AnyEntries)
        BY <2>1 DEF StoreTypes
      <4> QED
        BY <4>1, LenProperties
    <3>2. list[i] \in AnyEntries
      BY <3>1, ElementOfSeq
    <3> QED
      BY <3>2 DEF AnyEntries
  <2> QED
    BY <2>1, <2>2 DEF StoreTypes, StoreTypeOK
<1> QED
  BY <1>1, FileIsRead, PTL

\* With a size_t of four bytes the assignments that were stored are read back.
THEOREM ListComesBack == StoreSpec => []ReadBack32
<1>1. StoreInv => ReadBack32
  BY DEF StoreInv, Reading, ListRead, ReadBack32, ReadBack, HasRead
<1> QED
  BY <1>1, FileIsRead, PTL

\* A file cut off anywhere gives complete assignments from the front of the
\* list, and the stored port or the default.
THEOREM FrontComesBack == StoreSpec => []TornIsPrefix
<1>1. StoreInv => TornIsPrefix
  BY DEF StoreInv, Reading, ListBegun, TornIsPrefix, HasRead
<1> QED
  BY <1>1, FileIsRead, PTL

\* With any size_t the variable behind the assignments is found and read.
THEOREM PortComesBack == StoreSpec => []NextBlockFound
<1>1. StoreInv => NextBlockFound
  BY DEF StoreInv, Reading, NextBlockFound, HasRead
<1> QED
  BY <1>1, FileIsRead, PTL
=============================================================================
