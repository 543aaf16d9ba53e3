--------------------------- MODULE RemoteKeyProofs ---------------------------
(***************************************************************************)
(* Proofs about RemoteKey, for every set of keys, remote controls and      *)
(* actions, and every number of lines and of commands that throw.          *)
(***************************************************************************)
EXTENDS RemoteKey, SequenceTheorems, TLAPS

(***************************************************************************)
(* The inductive invariant. NoTornPair and NeverStale speak of what the    *)
(* main thread has read; they hold because of what is in lirc while nobody *)
(* is in global_cs, and of the messages that may be waiting.               *)
(***************************************************************************)

\* global_cs is held between the two stores and between the two reads.
Sections ==
  /\ cs = "net" <=> net = "store rn"
  /\ cs = "main" <=> main \in {"hook rn", "remotekey rn"}

\* lirc holds one line, but between the two stores; it is the last line from
\* the stores on, and it is never older than a message.
Stored ==
  /\ lirc.rn <= lirc.kn /\ lirc.kn <= Line
  /\ net # "store rn" => lirc.kn = lirc.rn
  /\ net \notin {"recv", "store"} => lirc.kn = Line
  /\ net \notin {"recv"} => 1 <= Line
  /\ net \in {"check", "lookup", "try", "post", "release", "dialog"} => lirc.rn = Line

Posted == \A m \in queue : m.line <= lirc.rn

\* What the main thread has read so far of the line it handles.
Handled ==
  /\ job.for <= lirc.rn /\ job.kn <= lirc.kn /\ job.rn <= lirc.kn
  /\ main # "idle" => 1 <= job.for
  /\ main = "hook rn" => job.for <= job.kn /\ job.kn = lirc.kn
  /\ main \in {"find", "try", "command"} => job.for <= job.kn /\ job.kn = job.rn

Shown ==
  /\ fields.kn <= lirc.kn /\ fields.rn <= lirc.kn
  /\ main # "remotekey rn" => fields.kn = fields.rn
  /\ main = "remotekey rn" => fields.kn = lirc.kn /\ job.for <= fields.kn

\* Each command that threw leaves global_execute_cs entered once more.
Executes ==
  /\ exec.owner = "none" <=> exec.count = 0
  /\ exec.owner = "net" => exec.count = 1
  /\ exec.owner = "main" => exec.count = thrown + (IF main = "command" THEN 1 ELSE 0)

IInv ==
  /\ TypeOK
  /\ Sections
  /\ Stored
  /\ Posted
  /\ Handled
  /\ Shown
  /\ Executes
  /\ ExecuteOwned
  /\ RunsAssigned

LEMMA InitIInv == Init => IInv
<1> SUFFICES ASSUME Init PROVE IInv
  OBVIOUS
<1> USE BoundsAssumption DEF Init, NoLine, Free
<1>1. Line = 0
  BY EmptySeq DEF Line
<1>2. TypeOK
  <2>1. received \in Seq(Pairs)
    BY EmptySeq
  <2>2. queue \subseteq Messages
    OBVIOUS
  <2>3. exec \in [owner : {"none", "net", "main"}, count : 0 .. MaxThrows + 1]
    OBVIOUS
  <2>4. lirc \in Infos /\ fields \in Infos
    BY DEF Infos
  <2>5. job \in [for : 0 .. MaxLines, kn : 0 .. MaxLines, rn : 0 .. MaxLines]
    OBVIOUS
  <2>6. Line <= MaxLines
    BY <1>1
  <2>7. /\ net = "recv" /\ main = "idle" /\ cs = "none" /\ action = NoAction
        /\ bind \in [Pairs -> Actions \cup {NoAction}]
        /\ config = FALSE /\ raced = FALSE /\ crashed = FALSE /\ thrown \in 0 .. MaxThrows
    OBVIOUS
  <2> HIDE DEF Init
  <2> QED
    BY <2>1, <2>2, <2>3, <2>4, <2>5, <2>6, <2>7 DEF TypeOK
<1>3. Sections /\ Stored /\ Posted /\ Handled /\ Shown
  BY <1>1 DEF Sections, Stored, Posted, Handled, Shown
<1>4. Executes /\ ExecuteOwned /\ RunsAssigned
  BY DEF Executes, ExecuteOwned, RunsAssigned
<1> QED
  BY <1>2, <1>3, <1>4 DEF IInv

\* The numbers of lines, and the messages, in a state of the right type.
LEMMA Types ==
  ASSUME TypeOK
  PROVE  /\ lirc \in Infos /\ fields \in Infos
         /\ job \in [for : 0 .. MaxLines, kn : 0 .. MaxLines, rn : 0 .. MaxLines]
         /\ exec \in [owner : {"none", "net", "main"}, count : 0 .. MaxThrows + 1]
BY DEF TypeOK

LEMMA Numbers ==
  ASSUME TypeOK
  PROVE  /\ Line \in Nat /\ Line <= MaxLines
         /\ lirc.kn \in Nat /\ lirc.rn \in Nat /\ fields.kn \in Nat /\ fields.rn \in Nat
         /\ job.for \in Nat /\ job.kn \in Nat /\ job.rn \in Nat
         /\ exec.count \in Nat /\ thrown \in Nat /\ thrown <= MaxThrows
<1>1. Line \in Nat /\ Line <= MaxLines
  <2>1. received \in Seq(Pairs) /\ Line <= MaxLines
    BY DEF TypeOK
  <2> QED
    BY <2>1, LenProperties DEF Line
<1>2. lirc.kn \in Nat /\ lirc.rn \in Nat /\ fields.kn \in Nat /\ fields.rn \in Nat
  BY BoundsAssumption, Types DEF Infos
<1>3. job.for \in Nat /\ job.kn \in Nat /\ job.rn \in Nat /\ exec.count \in Nat
  BY BoundsAssumption, Types
<1>4. thrown \in Nat /\ thrown <= MaxThrows
  <2>1. thrown \in 0 .. MaxThrows
    BY DEF TypeOK
  <2> QED
    BY <2>1, BoundsAssumption
<1> QED
  BY <1>1, <1>2, <1>3, <1>4

LEMMA QueueTypes ==
  ASSUME TypeOK
  PROVE  \A m \in queue : m.line \in 1 .. MaxLines /\ m.to \in {"main", "config"}
BY DEF TypeOK, Messages

\* The pair of a lirc_info that holds lines.
LEMMA PairTypes ==
  ASSUME TypeOK, NEW info, info.kn \in 1 .. Line, info.rn \in 1 .. Line
  PROVE  PairOf(info) \in Pairs
<1>1. received \in Seq(Pairs)
  BY DEF TypeOK
<1>2. received[info.kn] \in Pairs /\ received[info.rn] \in Pairs
  BY <1>1, ElementOfSeq DEF Line
<1> QED
  BY <1>2 DEF PairOf, Pairs

LEMMA NextIInv == IInv /\ [Next]_vars => IInv'
<1> SUFFICES ASSUME TypeOK, Sections, Stored, Posted, Handled, Shown, Executes,
                    ExecuteOwned, RunsAssigned, [Next]_vars
             PROVE  IInv'
  BY DEF IInv
<1> USE BoundsAssumption, NoActionAssumption
    DEF NetGoes, MainGoes, netVars, mainVars, uiVars, faults, Free, NoLine
<1>nat. /\ Line \in Nat /\ Line <= MaxLines
        /\ lirc.kn \in Nat /\ lirc.rn \in Nat /\ fields.kn \in Nat /\ fields.rn \in Nat
        /\ job.for \in Nat /\ job.kn \in Nat /\ job.rn \in Nat
        /\ exec.count \in Nat /\ thrown \in Nat /\ thrown <= MaxThrows
  BY Numbers
<1>ord. /\ lirc.rn <= lirc.kn /\ lirc.kn <= Line
        /\ job.for <= lirc.rn /\ job.kn <= lirc.kn /\ job.rn <= lirc.kn
        /\ fields.kn <= lirc.kn /\ fields.rn <= lirc.kn
  BY DEF Stored, Handled, Shown
<1>line. /\ lirc.rn <= Line /\ job.for <= lirc.kn
         /\ job.for <= Line /\ job.kn <= Line /\ job.rn <= Line
         /\ fields.kn <= Line /\ fields.rn <= Line
  BY ONLY <1>nat, <1>ord
<1>1. CASE ReceiveLine
  <2> USE <1>1 DEF ReceiveLine
  <2>1. /\ received' \in Seq(Pairs) /\ Line' = Line + 1
        /\ \A i \in 1 .. Line : received'[i] = received[i]
    <3>1. PICK p \in Pairs : received' = Append(received, p)
      OBVIOUS
    <3>2. received \in Seq(Pairs)
      BY DEF TypeOK
    <3> QED
      BY <3>1, <3>2, AppendProperties DEF Line
  <2>2. TypeOK'
    <3>1. received' \in Seq(Pairs) /\ Line' <= MaxLines
      BY <2>1, <1>nat
    <3>2. net' \in {"recv", "store", "store rn", "check", "lookup", "try", "post",
                     "release", "dialog"}
      OBVIOUS
    <3>3. UNCHANGED <<lirc, cs, exec, config, queue, main, job, action,
                      fields, bind, raced, thrown, crashed>>
      OBVIOUS
    <3> QED
      BY ONLY TypeOK, <2>1, <3>1, <3>2, <3>3 DEF TypeOK
  <2>3. Sections'
    BY DEF Sections
  <2>4. Stored'
    BY <2>1, <1>nat DEF Stored
  <2>5. Posted'
    BY <2>1, <1>nat, QueueTypes DEF Posted
  <2>6. Handled'
    BY <2>1, <1>nat DEF Handled
  <2>7. Shown'
    BY <2>1, <1>nat DEF Shown
  <2>8. Executes' /\ ExecuteOwned'
    BY <1>nat DEF Executes, ExecuteOwned
  <2>9. RunsAssigned'
    <3> SUFFICES ASSUME main \in {"try", "command"}
                 PROVE  action \in Actions /\ action = bind[PairOf(job)']
      BY DEF RunsAssigned
    <3>1. job.kn \in 1 .. Line /\ job.rn \in 1 .. Line
      <4>1. 1 <= job.for /\ job.for <= job.kn /\ job.kn = job.rn /\ job.kn <= lirc.kn
        BY DEF Handled
      <4>2. lirc.kn <= Line
        BY DEF Stored
      <4> QED
        BY ONLY <4>1, <4>2, <1>nat
    <3>2. PairOf(job)' = PairOf(job)
      BY <2>1, <3>1 DEF PairOf
    <3> QED
      BY <3>2 DEF RunsAssigned
  <2> QED
    BY <2>2, <2>3, <2>4, <2>5, <2>6, <2>7, <2>8, <2>9 DEF IInv
<1>2. CASE NetStoresKn
  <2> USE <1>2 DEF NetStoresKn
  <2>1. Line' = Line /\ lirc'.kn = Line /\ lirc'.rn = lirc.rn
    BY DEF Line, TypeOK, Infos
  <2>2. /\ net = "store" /\ net' = "store rn" /\ cs = "none" /\ cs' = "net"
        /\ main' = main /\ job' = job /\ fields' = fields /\ queue' = queue
    OBVIOUS
  <2>3. main \notin {"hook rn", "remotekey rn"}
    BY DEF Sections
  <2>4. 1 <= Line
    BY DEF Stored
  <2>5. TypeOK'
    <3>1. lirc' \in Infos
      <4>1. Line \in 0 .. MaxLines
        BY ONLY <1>nat, BoundsAssumption
      <4> QED
        BY <4>1, Types DEF Infos
    <3>2. /\ net' \in {"recv", "store", "store rn", "check", "lookup", "try", "post",
                     "release", "dialog"}
          /\ cs' \in {"none", "net", "main"}
      OBVIOUS
    <3>3. UNCHANGED <<received, exec, config, queue, main, job, action,
                      fields, bind, raced, thrown, crashed>>
      OBVIOUS
    <3> QED
      BY ONLY TypeOK, <2>1, <3>1, <3>2, <3>3 DEF TypeOK
  <2>6. Sections'
    BY DEF Sections
  <2>7. Stored'
    <3>1. Line <= Line
      BY ONLY <1>nat
    <3> QED
      BY ONLY <2>1, <2>2, <2>4, <3>1, <1>line DEF Stored
  <2>8. Posted'
    BY <2>1, <1>nat, QueueTypes DEF Posted
  <2>9. Handled'
    BY ONLY Handled, <2>1, <2>2, <2>3, <1>ord, <1>line DEF Handled
  <2>10. Shown'
    BY ONLY Shown, <2>1, <2>2, <2>3, <1>ord, <1>line DEF Shown
  <2>11. Executes' /\ ExecuteOwned'
    BY <1>nat DEF Executes, ExecuteOwned
  <2>12. RunsAssigned'
    BY DEF RunsAssigned, PairOf
  <2> QED
    BY <2>5, <2>6, <2>7, <2>8, <2>9, <2>10, <2>11, <2>12 DEF IInv
<1>3. CASE NetStoresRn
  <2> USE <1>3 DEF NetStoresRn
  <2>1. Line' = Line /\ lirc'.rn = Line /\ lirc'.kn = lirc.kn
    BY DEF Line, TypeOK, Infos
  <2>2. /\ net = "store rn" /\ net' = "check" /\ cs' = "none"
        /\ main' = main /\ job' = job /\ fields' = fields /\ queue' = queue
    OBVIOUS
  <2>3. lirc.kn = Line /\ 1 <= Line
    BY <2>2, <1>nat DEF Stored
  <2>4. TypeOK'
    <3>1. lirc' \in Infos
      <4>1. Line \in 0 .. MaxLines
        BY ONLY <1>nat, BoundsAssumption
      <4> QED
        BY <4>1, Types DEF Infos
    <3>2. /\ net' \in {"recv", "store", "store rn", "check", "lookup", "try", "post",
                     "release", "dialog"}
          /\ cs' \in {"none", "net", "main"}
      OBVIOUS
    <3>3. UNCHANGED <<received, exec, config, queue, main, job, action,
                      fields, bind, raced, thrown, crashed>>
      OBVIOUS
    <3> QED
      BY ONLY TypeOK, <2>1, <3>1, <3>2, <3>3 DEF TypeOK
  <2>5. Sections'
    BY DEF Sections
  <2>6. Stored'
    <3>1. Line <= Line
      BY ONLY <1>nat
    <3> QED
      BY ONLY <2>1, <2>2, <2>3, <3>1 DEF Stored
  <2>7. Posted'
    <3>1. \A m \in queue : m.line <= lirc.rn
      BY DEF Posted
    <3>2. \A m \in queue : m.line <= Line
      BY ONLY TypeOK, <3>1, <1>line, <1>nat, QueueTypes
    <3> QED
      BY ONLY <2>1, <2>2, <3>2 DEF Posted
  <2>8. Handled'
    BY ONLY Handled, <2>1, <2>2, <2>3, <1>line, <1>ord DEF Handled
  <2>9. Shown'
    BY ONLY Shown, <2>1, <2>2, <2>3, <1>line DEF Shown
  <2>10. Executes' /\ ExecuteOwned'
    BY <1>nat DEF Executes, ExecuteOwned
  <2>11. RunsAssigned'
    BY DEF RunsAssigned, PairOf
  <2> QED
    BY <2>4, <2>5, <2>6, <2>7, <2>8, <2>9, <2>10, <2>11 DEF IInv
<1>4. CASE NetChecksDialog
  <2> USE <1>4 DEF NetChecksDialog
  <2>1. Line' = Line
    BY DEF Line
  <2>2. TypeOK'
    <3>1. net' \in {"recv", "store", "store rn", "check", "lookup", "try", "post",
                     "release", "dialog"}
      OBVIOUS
    <3>2. UNCHANGED <<received, lirc, cs, exec, config, queue, main, job,
                      action, fields, bind, raced, thrown, crashed>>
      OBVIOUS
    <3> QED
      BY ONLY TypeOK, <2>1, <3>1, <3>2 DEF TypeOK
  <2>3. Sections' /\ Stored'
    BY <2>1, <1>nat DEF Sections, Stored
  <2>4. Posted'
    BY <2>1, <1>nat, QueueTypes DEF Posted
  <2>5. Handled'
    BY <2>1, <1>nat DEF Handled
  <2>6. Shown'
    BY <2>1, <1>nat DEF Shown
  <2>7. Executes' /\ ExecuteOwned'
    BY <1>nat DEF Executes, ExecuteOwned
  <2>8. RunsAssigned'
    BY DEF RunsAssigned, PairOf
  <2> QED
    BY <2>2, <2>3, <2>4, <2>5, <2>6, <2>7, <2>8 DEF IInv
<1>5. CASE NetLooksUp
  <2> USE <1>5 DEF NetLooksUp
  <2>1. Line' = Line
    BY DEF Line
  <2>2. TypeOK'
    <3>1. net' \in {"recv", "store", "store rn", "check", "lookup", "try", "post",
                     "release", "dialog"}
      OBVIOUS
    <3>2. UNCHANGED <<received, lirc, cs, exec, config, queue, main, job,
                      action, fields, bind, raced, thrown, crashed>>
      OBVIOUS
    <3> QED
      BY ONLY TypeOK, <2>1, <3>1, <3>2 DEF TypeOK
  <2>3. Sections' /\ Stored'
    BY <2>1, <1>nat DEF Sections, Stored
  <2>4. Posted'
    BY <2>1, <1>nat, QueueTypes DEF Posted
  <2>5. Handled'
    BY <2>1, <1>nat DEF Handled
  <2>6. Shown'
    BY <2>1, <1>nat DEF Shown
  <2>7. Executes' /\ ExecuteOwned'
    BY <1>nat DEF Executes, ExecuteOwned
  <2>8. RunsAssigned'
    BY DEF RunsAssigned, PairOf
  <2> QED
    BY <2>2, <2>3, <2>4, <2>5, <2>6, <2>7, <2>8 DEF IInv
<1>6. CASE NetLookupRaces
  <2> USE <1>6 DEF NetLookupRaces
  <2>1. Line' = Line
    BY DEF Line
  <2>2. TypeOK'
    <3>1. /\ raced' \in BOOLEAN
          /\ net' \in {"recv", "store", "store rn", "check", "lookup", "try", "post",
                     "release", "dialog"}
          /\ crashed' \in BOOLEAN
      BY DEF TypeOK
    <3>2. UNCHANGED <<received, lirc, cs, exec, config, queue, main, job,
                      action, fields, bind, thrown>>
      OBVIOUS
    <3> QED
      BY ONLY TypeOK, <2>1, <3>1, <3>2 DEF TypeOK
  <2>3. Sections' /\ Stored'
    BY <2>1, <1>nat DEF Sections, Stored
  <2>4. Posted'
    BY <2>1, <1>nat, QueueTypes DEF Posted
  <2>5. Handled'
    BY <2>1, <1>nat DEF Handled
  <2>6. Shown'
    BY <2>1, <1>nat DEF Shown
  <2>7. Executes' /\ ExecuteOwned'
    BY <1>nat DEF Executes, ExecuteOwned
  <2>8. RunsAssigned'
    BY DEF RunsAssigned, PairOf
  <2> QED
    BY <2>2, <2>3, <2>4, <2>5, <2>6, <2>7, <2>8 DEF IInv
<1>7. CASE NetTriesExecute
  <2> USE <1>7 DEF NetTriesExecute
  <2>1. Line' = Line
    BY DEF Line
  <2>2. TypeOK'
    <3>1. exec' \in [owner : {"none", "net", "main"}, count : 0 .. MaxThrows + 1]
      BY Types, <1>nat
    <3>2. net' \in {"recv", "store", "store rn", "check", "lookup", "try", "post",
                     "release", "dialog"}
      OBVIOUS
    <3>3. UNCHANGED <<received, lirc, cs, config, queue, main, job, action,
                      fields, bind, raced, thrown, crashed>>
      OBVIOUS
    <3> QED
      BY ONLY TypeOK, <2>1, <3>1, <3>2, <3>3 DEF TypeOK
  <2>3. Sections' /\ Stored'
    BY <2>1, <1>nat DEF Sections, Stored
  <2>4. Posted'
    BY <2>1, <1>nat, QueueTypes DEF Posted
  <2>5. Handled'
    BY <2>1, <1>nat DEF Handled
  <2>6. Shown'
    BY <2>1, <1>nat DEF Shown
  <2>7. Executes' /\ ExecuteOwned'
    BY <1>nat DEF Executes, ExecuteOwned
  <2>8. RunsAssigned'
    BY DEF RunsAssigned, PairOf
  <2> QED
    BY <2>2, <2>3, <2>4, <2>5, <2>6, <2>7, <2>8 DEF IInv
<1>8. CASE NetPostsToMain
  <2> USE <1>8 DEF NetPostsToMain
  <2>1. Line' = Line
    BY DEF Line
  <2>2. TypeOK'
    <3>1. queue' \subseteq Messages
      <4>1. queue \subseteq Messages
        BY DEF TypeOK
      <4>2. [to |-> "main", line |-> Line] \in Messages
        BY <1>nat DEF Stored, Messages
      <4> QED
        BY <4>1, <4>2
    <3>2. net' \in {"recv", "store", "store rn", "check", "lookup", "try", "post",
                     "release", "dialog"}
      OBVIOUS
    <3>3. UNCHANGED <<received, lirc, cs, exec, config, main, job, action,
                      fields, bind, raced, thrown, crashed>>
      OBVIOUS
    <3> QED
      BY ONLY TypeOK, <2>1, <3>1, <3>2, <3>3 DEF TypeOK
  <2>3. Sections' /\ Stored'
    BY <2>1, <1>nat DEF Sections, Stored
  <2>4. Posted'
    BY <2>1, <1>nat, QueueTypes DEF Stored, Posted
  <2>5. Handled'
    BY <2>1, <1>nat DEF Handled
  <2>6. Shown'
    BY <2>1, <1>nat DEF Shown
  <2>7. Executes' /\ ExecuteOwned'
    BY <1>nat DEF Executes, ExecuteOwned
  <2>8. RunsAssigned'
    BY DEF RunsAssigned, PairOf
  <2> QED
    BY <2>2, <2>3, <2>4, <2>5, <2>6, <2>7, <2>8 DEF IInv
<1>9. CASE NetReleasesExecute
  <2> USE <1>9 DEF NetReleasesExecute
  <2>1. Line' = Line
    BY DEF Line
  <2>2. TypeOK'
    <3>1. exec' \in [owner : {"none", "net", "main"}, count : 0 .. MaxThrows + 1]
      BY Types, <1>nat
    <3>2. net' \in {"recv", "store", "store rn", "check", "lookup", "try", "post",
                     "release", "dialog"}
      OBVIOUS
    <3>3. UNCHANGED <<received, lirc, cs, config, queue, main, job, action,
                      fields, bind, raced, thrown, crashed>>
      OBVIOUS
    <3> QED
      BY ONLY TypeOK, <2>1, <3>1, <3>2, <3>3 DEF TypeOK
  <2>3. Sections' /\ Stored'
    BY <2>1, <1>nat DEF Sections, Stored
  <2>4. Posted'
    BY <2>1, <1>nat, QueueTypes DEF Posted
  <2>5. Handled'
    BY <2>1, <1>nat DEF Handled
  <2>6. Shown'
    BY <2>1, <1>nat DEF Shown
  <2>7. Executes' /\ ExecuteOwned'
    BY <1>nat DEF Executes, ExecuteOwned
  <2>8. RunsAssigned'
    BY DEF RunsAssigned, PairOf
  <2> QED
    BY <2>2, <2>3, <2>4, <2>5, <2>6, <2>7, <2>8 DEF IInv
<1>10. CASE NetPostsToDialog
  <2> USE <1>10 DEF NetPostsToDialog
  <2>1. Line' = Line
    BY DEF Line
  <2>2. TypeOK'
    <3>1. queue' \subseteq Messages
      <4>1. queue \subseteq Messages
        BY DEF TypeOK
      <4>2. [to |-> "config", line |-> Line] \in Messages
        BY <1>nat DEF Stored, Messages
      <4> QED
        BY <4>1, <4>2
    <3>2. net' \in {"recv", "store", "store rn", "check", "lookup", "try", "post",
                     "release", "dialog"}
      OBVIOUS
    <3>3. UNCHANGED <<received, lirc, cs, exec, config, main, job, action,
                      fields, bind, raced, thrown, crashed>>
      OBVIOUS
    <3> QED
      BY ONLY TypeOK, <2>1, <3>1, <3>2, <3>3 DEF TypeOK
  <2>3. Sections' /\ Stored'
    BY <2>1, <1>nat DEF Sections, Stored
  <2>4. Posted'
    BY <2>1, <1>nat, QueueTypes DEF Stored, Posted
  <2>5. Handled'
    BY <2>1, <1>nat DEF Handled
  <2>6. Shown'
    BY <2>1, <1>nat DEF Shown
  <2>7. Executes' /\ ExecuteOwned'
    BY <1>nat DEF Executes, ExecuteOwned
  <2>8. RunsAssigned'
    BY DEF RunsAssigned, PairOf
  <2> QED
    BY <2>2, <2>3, <2>4, <2>5, <2>6, <2>7, <2>8 DEF IInv
<1>11. CASE GetMessage
  <2> USE <1>11 DEF GetMessage
  <2>1. PICK m \in queue : /\ main = "idle" /\ main' \in {"hook", "remotekey"}
                           /\ job' = [job EXCEPT !.for = m.line]
    OBVIOUS
  <2>2. m.line \in 1 .. MaxLines /\ m.line <= lirc.rn
    BY QueueTypes DEF Posted
  <2>3. Line' = Line /\ job'.for = m.line /\ job'.kn = job.kn /\ job'.rn = job.rn
    BY <2>1, Types DEF Line
  <2>4. TypeOK'
    <3>1. job' \in [for : 0 .. MaxLines, kn : 0 .. MaxLines, rn : 0 .. MaxLines]
      BY <2>1, <2>2, Types
    <3>2. queue' \subseteq Messages
      BY DEF TypeOK
    <3>3. main' \in {"idle", "hook", "hook rn", "find", "try", "command", "remotekey",
                      "remotekey rn"}
      OBVIOUS
    <3>4. UNCHANGED <<received, net, lirc, cs, exec, config, action, fields,
                      bind, raced, thrown, crashed>>
      OBVIOUS
    <3> QED
      BY ONLY TypeOK, <2>3, <3>1, <3>2, <3>3, <3>4 DEF TypeOK
  <2>5. Sections' /\ Stored'
    BY <2>3, <1>nat DEF Sections, Stored
  <2>6. Posted'
    BY <2>3, <1>nat, QueueTypes DEF Posted
  <2>7. Handled'
    <3>1. lirc' = lirc
      OBVIOUS
    <3>2. 1 <= m.line
      BY ONLY <2>2, BoundsAssumption
    <3> QED
      BY ONLY Handled, <2>3, <2>1, <2>2, <3>1, <3>2 DEF Handled
  <2>8. Shown'
    BY <2>3, <1>nat DEF Shown
  <2>9. Executes' /\ ExecuteOwned'
    BY <1>nat DEF Executes, ExecuteOwned
  <2>10. RunsAssigned'
    BY DEF RunsAssigned, PairOf
  <2> QED
    BY <2>4, <2>5, <2>6, <2>7, <2>8, <2>9, <2>10 DEF IInv
<1>12. CASE HookCopiesKn
  <2> USE <1>12 DEF HookCopiesKn
  <2>1. Line' = Line /\ job'.for = job.for /\ job'.kn = lirc.kn /\ job'.rn = job.rn
    BY Types DEF Line
  <2>2. main = "hook" /\ main' = "hook rn" /\ lirc' = lirc
    OBVIOUS
  <2>3. TypeOK'
    <3>1. job' \in [for : 0 .. MaxLines, kn : 0 .. MaxLines, rn : 0 .. MaxLines]
      BY Types, <1>nat DEF Infos
    <3>2. /\ main' \in {"idle", "hook", "hook rn", "find", "try", "command", "remotekey",
                      "remotekey rn"}
          /\ cs' \in {"none", "net", "main"}
      OBVIOUS
    <3>3. UNCHANGED <<received, net, lirc, exec, config, queue, action,
                      fields, bind, raced, thrown, crashed>>
      OBVIOUS
    <3> QED
      BY ONLY TypeOK, <2>1, <3>1, <3>2, <3>3 DEF TypeOK
  <2>4. Sections' /\ Stored'
    BY <2>1, <1>nat DEF Sections, Stored
  <2>5. Posted'
    BY <2>1, <1>nat, QueueTypes DEF Posted
  <2>6. Handled'
    <3>1. lirc.kn <= lirc.kn
      BY ONLY <1>nat
    <3> QED
      BY ONLY Handled, <2>1, <2>2, <3>1, <1>ord, <1>line DEF Handled
  <2>7. Shown'
    BY <2>1, <1>nat DEF Shown
  <2>8. Executes' /\ ExecuteOwned'
    BY <1>nat DEF Executes, ExecuteOwned
  <2>9. RunsAssigned'
    BY DEF RunsAssigned, PairOf
  <2> QED
    BY <2>3, <2>4, <2>5, <2>6, <2>7, <2>8, <2>9 DEF IInv
<1>13. CASE HookCopiesRn
  <2> USE <1>13 DEF HookCopiesRn
  <2>1. Line' = Line /\ job'.for = job.for /\ job'.kn = job.kn /\ job'.rn = lirc.rn
    BY Types DEF Line
  <2>2. TypeOK'
    <3>1. job' \in [for : 0 .. MaxLines, kn : 0 .. MaxLines, rn : 0 .. MaxLines]
      BY Types, <1>nat DEF Infos
    <3>2. /\ main' \in {"idle", "hook", "hook rn", "find", "try", "command", "remotekey",
                      "remotekey rn"}
          /\ cs' \in {"none", "net", "main"}
      OBVIOUS
    <3>3. UNCHANGED <<received, net, lirc, exec, config, queue, action,
                      fields, bind, raced, thrown, crashed>>
      OBVIOUS
    <3> QED
      BY ONLY TypeOK, <2>1, <3>1, <3>2, <3>3 DEF TypeOK
  <2>3. Sections' /\ Stored'
    BY <2>1, <1>nat DEF Sections, Stored
  <2>4. Posted'
    BY <2>1, <1>nat, QueueTypes DEF Posted
  <2>5. Handled'
    BY <2>1, <1>nat DEF Sections, Stored, Handled
  <2>6. Shown'
    BY <2>1, <1>nat DEF Shown
  <2>7. Executes' /\ ExecuteOwned'
    BY <1>nat DEF Executes, ExecuteOwned
  <2>8. RunsAssigned'
    BY DEF RunsAssigned, PairOf
  <2> QED
    BY <2>2, <2>3, <2>4, <2>5, <2>6, <2>7, <2>8 DEF IInv
<1>14. CASE HookFinds
  <2> USE <1>14 DEF HookFinds
  <2>1. Line' = Line
    BY DEF Line
  <2>2. TypeOK'
    <3>1. action' \in Actions \cup {NoAction}
      <4>1. 1 <= job.for /\ job.for <= job.kn /\ job.kn = job.rn /\ job.kn <= lirc.kn
        BY DEF Handled
      <4>2. lirc.kn <= Line
        BY DEF Stored
      <4>3. job.kn \in 1 .. Line /\ job.rn \in 1 .. Line
        BY ONLY <4>1, <4>2, <1>nat
      <4>4. PairOf(job) \in Pairs
        BY <4>3, PairTypes
      <4>5. bind \in [Pairs -> Actions \cup {NoAction}]
        BY DEF TypeOK
      <4> QED
        BY <4>4, <4>5
    <3>2. main' \in {"idle", "hook", "hook rn", "find", "try", "command", "remotekey",
                      "remotekey rn"}
      OBVIOUS
    <3>3. UNCHANGED <<received, net, lirc, cs, exec, config, queue, job,
                      fields, bind, raced, thrown, crashed>>
      OBVIOUS
    <3> QED
      BY ONLY TypeOK, <2>1, <3>1, <3>2, <3>3 DEF TypeOK
  <2>3. Sections' /\ Stored'
    BY <2>1, <1>nat DEF Sections, Stored
  <2>4. Posted'
    BY <2>1, <1>nat, QueueTypes DEF Posted
  <2>5. Handled'
    BY <2>1, <1>nat DEF Handled
  <2>6. Shown'
    BY <2>1, <1>nat DEF Shown
  <2>7. Executes' /\ ExecuteOwned'
    BY <1>nat DEF Executes, ExecuteOwned
  <2>8. RunsAssigned'
    <3>1. PairOf(job)' = PairOf(job)
      BY DEF PairOf
    <3>2. action' # NoAction => action' \in Actions
      BY <2>2 DEF TypeOK
    <3> QED
      BY <3>1, <3>2 DEF RunsAssigned
  <2> QED
    BY <2>2, <2>3, <2>4, <2>5, <2>6, <2>7, <2>8 DEF IInv
<1>15. CASE CommandTries
  <2> USE <1>15 DEF CommandTries
  <2>1. Line' = Line
    BY DEF Line
  <2>2. TypeOK'
    <3>1. exec' \in [owner : {"none", "net", "main"}, count : 0 .. MaxThrows + 1]
      BY Types, <1>nat DEF Executes
    <3>2. main' \in {"idle", "hook", "hook rn", "find", "try", "command", "remotekey",
                      "remotekey rn"}
      OBVIOUS
    <3>3. UNCHANGED <<received, net, lirc, cs, config, queue, job, action,
                      fields, bind, raced, thrown, crashed>>
      OBVIOUS
    <3> QED
      BY ONLY TypeOK, <2>1, <3>1, <3>2, <3>3 DEF TypeOK
  <2>3. Sections' /\ Stored'
    BY <2>1, <1>nat DEF Sections, Stored
  <2>4. Posted'
    BY <2>1, <1>nat, QueueTypes DEF Posted
  <2>5. Handled'
    BY <2>1, <1>nat DEF Handled
  <2>6. Shown'
    BY <2>1, <1>nat DEF Shown
  <2>7. Executes' /\ ExecuteOwned'
    <3>0. main = "try" /\ thrown' = thrown /\ net' = net
      OBVIOUS
    <3>1. CASE /\ exec.owner # "net" /\ main' = "command"
               /\ exec' = [owner |-> "main", count |-> exec.count + 1]
      <4>1. exec'.owner = "main" /\ exec'.count = exec.count + 1
        BY <3>1
      <4>2. exec.owner = "none" => exec.count = 0 /\ ~ thrown > 0
        BY <3>0 DEF Executes, ExecuteOwned
      <4>3. exec.owner = "main" => exec.count = thrown
        BY <3>0, <1>nat DEF Executes
      <4>4. exec.owner = "none" \/ exec.owner = "main"
        BY <3>1, Types
      <4>5. exec'.count = thrown + 1 /\ exec'.count # 0
        BY ONLY <4>1, <4>2, <4>3, <4>4, <1>nat
      <4>6. net \notin {"post", "release"}
        BY <3>1 DEF ExecuteOwned
      <4> QED
        BY <3>0, <3>1, <4>1, <4>5, <4>6 DEF Executes, ExecuteOwned
    <3>2. CASE exec.owner = "net" /\ main' = "idle" /\ exec' = exec
      <4>1. ~ thrown > 0
        BY <3>2 DEF ExecuteOwned
      <4> QED
        BY <3>0, <3>2, <4>1 DEF Executes, ExecuteOwned
    <3> QED
      BY <3>1, <3>2
  <2>8. RunsAssigned'
    BY DEF RunsAssigned, PairOf
  <2> QED
    BY <2>2, <2>3, <2>4, <2>5, <2>6, <2>7, <2>8 DEF IInv
<1>16. CASE CommandReturns
  <2> USE <1>16 DEF CommandReturns
  <2>1. Line' = Line
    BY DEF Line
  <2>2. TypeOK'
    <3>1. exec' \in [owner : {"none", "net", "main"}, count : 0 .. MaxThrows + 1]
      BY Types, <1>nat DEF Executes, ExecuteOwned
    <3>2. main' \in {"idle", "hook", "hook rn", "find", "try", "command", "remotekey",
                      "remotekey rn"}
      OBVIOUS
    <3>3. UNCHANGED <<received, net, lirc, cs, config, queue, job, action,
                      fields, bind, raced, thrown, crashed>>
      OBVIOUS
    <3> QED
      BY ONLY TypeOK, <2>1, <3>1, <3>2, <3>3 DEF TypeOK
  <2>3. Sections' /\ Stored'
    BY <2>1, <1>nat DEF Sections, Stored
  <2>4. Posted'
    BY <2>1, <1>nat, QueueTypes DEF Posted
  <2>5. Handled'
    BY <2>1, <1>nat DEF Handled
  <2>6. Shown'
    BY <2>1, <1>nat DEF Shown
  <2>7. Executes' /\ ExecuteOwned'
    BY <1>nat DEF Executes, ExecuteOwned
  <2>8. RunsAssigned'
    BY DEF RunsAssigned, PairOf
  <2> QED
    BY <2>2, <2>3, <2>4, <2>5, <2>6, <2>7, <2>8 DEF IInv
<1>17. CASE CommandThrows
  <2> USE <1>17 DEF CommandThrows
  <2>1. Line' = Line
    BY DEF Line
  <2>2. TypeOK'
    <3>1. thrown' \in 0 .. MaxThrows
      BY <1>nat
    <3>2. main' \in {"idle", "hook", "hook rn", "find", "try", "command", "remotekey",
                      "remotekey rn"}
      OBVIOUS
    <3>3. UNCHANGED <<received, net, lirc, cs, exec, config, queue, job,
                      action, fields, bind, raced, crashed>>
      OBVIOUS
    <3> QED
      BY ONLY TypeOK, <2>1, <3>1, <3>2, <3>3 DEF TypeOK
  <2>3. Sections' /\ Stored'
    BY <2>1, <1>nat DEF Sections, Stored
  <2>4. Posted'
    BY <2>1, <1>nat, QueueTypes DEF Posted
  <2>5. Handled'
    BY <2>1, <1>nat DEF Handled
  <2>6. Shown'
    BY <2>1, <1>nat DEF Shown
  <2>7. Executes' /\ ExecuteOwned'
    BY <1>nat DEF Executes, ExecuteOwned
  <2>8. RunsAssigned'
    BY DEF RunsAssigned, PairOf
  <2> QED
    BY <2>2, <2>3, <2>4, <2>5, <2>6, <2>7, <2>8 DEF IInv
<1>18. CASE RemoteKeyShowsKn
  <2> USE <1>18 DEF RemoteKeyShowsKn
  <2>1. Line' = Line /\ fields'.kn = lirc.kn /\ fields'.rn = fields.rn
    BY Types DEF Line, Infos
  <2>2. TypeOK'
    <3>1. fields' \in Infos
      BY Types, <1>nat, <2>1 DEF Infos
    <3>2. /\ main' \in {"idle", "hook", "hook rn", "find", "try", "command", "remotekey",
                      "remotekey rn"}
          /\ cs' \in {"none", "net", "main"}
      OBVIOUS
    <3>3. UNCHANGED <<received, net, lirc, exec, config, queue, job, action,
                      bind, raced, thrown, crashed>>
      OBVIOUS
    <3> QED
      BY ONLY TypeOK, <2>1, <3>1, <3>2, <3>3 DEF TypeOK
  <2>3. Sections' /\ Stored'
    BY <2>1, <1>nat DEF Sections, Stored
  <2>4. Posted'
    BY <2>1, <1>nat, QueueTypes DEF Posted
  <2>5. Handled'
    BY <2>1, <1>nat DEF Handled
  <2>6. Shown'
    <3>1. lirc.kn <= lirc.kn
      BY ONLY <1>nat
    <3>2. main' = "remotekey rn" /\ lirc' = lirc /\ job' = job
      OBVIOUS
    <3> QED
      BY ONLY <2>1, <3>1, <3>2, <1>ord, <1>line DEF Shown
  <2>7. Executes' /\ ExecuteOwned'
    BY <1>nat DEF Executes, ExecuteOwned
  <2>8. RunsAssigned'
    BY DEF RunsAssigned, PairOf
  <2> QED
    BY <2>2, <2>3, <2>4, <2>5, <2>6, <2>7, <2>8 DEF IInv
<1>19. CASE RemoteKeyShowsRn
  <2> USE <1>19 DEF RemoteKeyShowsRn
  <2>1. Line' = Line /\ fields'.kn = fields.kn /\ fields'.rn = lirc.rn
    BY Types DEF Line, Infos
  <2>2. TypeOK'
    <3>1. fields' \in Infos
      BY Types, <1>nat, <2>1 DEF Infos
    <3>2. /\ main' \in {"idle", "hook", "hook rn", "find", "try", "command", "remotekey",
                      "remotekey rn"}
          /\ cs' \in {"none", "net", "main"}
      OBVIOUS
    <3>3. UNCHANGED <<received, net, lirc, exec, config, queue, job, action,
                      bind, raced, thrown, crashed>>
      OBVIOUS
    <3> QED
      BY ONLY TypeOK, <2>1, <3>1, <3>2, <3>3 DEF TypeOK
  <2>3. Sections' /\ Stored'
    BY <2>1, <1>nat DEF Sections, Stored
  <2>4. Posted'
    BY <2>1, <1>nat, QueueTypes DEF Posted
  <2>5. Handled'
    BY <2>1, <1>nat DEF Handled
  <2>6. Shown'
    BY <2>1, <1>nat DEF Sections, Stored, Shown
  <2>7. Executes' /\ ExecuteOwned'
    BY <1>nat DEF Executes, ExecuteOwned
  <2>8. RunsAssigned'
    BY DEF RunsAssigned, PairOf
  <2> QED
    BY <2>2, <2>3, <2>4, <2>5, <2>6, <2>7, <2>8 DEF IInv
<1>20. CASE OpenDialog
  <2> USE <1>20 DEF OpenDialog
  <2>1. Line' = Line
    BY DEF Line
  <2>2. TypeOK'
    <3>1. fields' \in Infos
      BY Types, <1>nat, <2>1 DEF Infos
    <3>2. config' \in BOOLEAN
      OBVIOUS
    <3>3. UNCHANGED <<received, net, lirc, cs, exec, queue, main, job, action,
                      bind, raced, thrown, crashed>>
      OBVIOUS
    <3> QED
      BY ONLY TypeOK, <2>1, <3>1, <3>2, <3>3, ZenonT(60) DEF TypeOK
  <2>3. Sections' /\ Stored'
    BY <2>1, <1>nat DEF Sections, Stored
  <2>4. Posted'
    BY <2>1, <1>nat, QueueTypes DEF Posted
  <2>5. Handled'
    BY <2>1, <1>nat DEF Handled
  <2>6. Shown'
    BY <2>1, <1>nat DEF Shown
  <2>7. Executes' /\ ExecuteOwned'
    BY <1>nat DEF Executes, ExecuteOwned
  <2>8. RunsAssigned'
    BY DEF RunsAssigned, PairOf
  <2> QED
    BY <2>2, <2>3, <2>4, <2>5, <2>6, <2>7, <2>8 DEF IInv
<1>21. CASE CloseDialog
  <2> USE <1>21 DEF CloseDialog
  <2>1. Line' = Line
    BY DEF Line
  <2>2. TypeOK'
    <3>1. fields' \in Infos
      BY Types, <1>nat, <2>1 DEF Infos
    <3>2. queue' \subseteq Messages
      BY Types DEF Messages, Stored, TypeOK
    <3>3. config' \in BOOLEAN
      OBVIOUS
    <3>4. UNCHANGED <<received, net, lirc, cs, exec, main, job, action, bind,
                      raced, thrown, crashed>>
      OBVIOUS
    <3> QED
      BY ONLY TypeOK, <2>1, <3>1, <3>2, <3>3, <3>4, ZenonT(60) DEF TypeOK
  <2>3. Sections' /\ Stored'
    BY <2>1, <1>nat DEF Sections, Stored
  <2>4. Posted'
    BY <2>1, <1>nat, QueueTypes DEF Posted
  <2>5. Handled'
    BY <2>1, <1>nat DEF Handled
  <2>6. Shown'
    BY <2>1, <1>nat DEF Shown
  <2>7. Executes' /\ ExecuteOwned'
    BY <1>nat DEF Executes, ExecuteOwned
  <2>8. RunsAssigned'
    BY DEF RunsAssigned, PairOf
  <2> QED
    BY <2>2, <2>3, <2>4, <2>5, <2>6, <2>7, <2>8 DEF IInv
<1>22. CASE OnBnClickedBAdd
  <2> USE <1>22 DEF OnBnClickedBAdd, Edit
  <2>1. Line' = Line
    BY DEF Line
  <2>2. TypeOK'
    <3>1. bind' \in [Pairs -> Actions \cup {NoAction}]
      BY DEF TypeOK, Edit
    <3>2. raced' \in BOOLEAN
      OBVIOUS
    <3>3. UNCHANGED <<received, net, lirc, cs, exec, config, queue, main, job,
                      action, fields, thrown, crashed>>
      OBVIOUS
    <3> QED
      BY ONLY TypeOK, <2>1, <3>1, <3>2, <3>3, ZenonT(60) DEF TypeOK
  <2>3. Sections' /\ Stored'
    BY <2>1, <1>nat DEF Sections, Stored
  <2>4. Posted'
    BY <2>1, <1>nat, QueueTypes DEF Posted
  <2>5. Handled'
    BY <2>1, <1>nat DEF Handled
  <2>6. Shown'
    BY <2>1, <1>nat DEF Shown
  <2>7. Executes' /\ ExecuteOwned'
    BY <1>nat DEF Executes, ExecuteOwned
  <2>8. RunsAssigned'
    BY DEF RunsAssigned, PairOf
  <2> QED
    BY <2>2, <2>3, <2>4, <2>5, <2>6, <2>7, <2>8 DEF IInv
<1>23. CASE OnBnClickedBRemove
  <2> USE <1>23 DEF OnBnClickedBRemove, Edit
  <2>1. Line' = Line
    BY DEF Line
  <2>2. TypeOK'
    <3>1. bind' \in [Pairs -> Actions \cup {NoAction}]
      BY DEF TypeOK, Edit
    <3>2. raced' \in BOOLEAN
      OBVIOUS
    <3>3. UNCHANGED <<received, net, lirc, cs, exec, config, queue, main, job,
                      action, fields, thrown, crashed>>
      OBVIOUS
    <3> QED
      BY ONLY TypeOK, <2>1, <3>1, <3>2, <3>3, ZenonT(60) DEF TypeOK
  <2>3. Sections' /\ Stored'
    BY <2>1, <1>nat DEF Sections, Stored
  <2>4. Posted'
    BY <2>1, <1>nat, QueueTypes DEF Posted
  <2>5. Handled'
    BY <2>1, <1>nat DEF Handled
  <2>6. Shown'
    BY <2>1, <1>nat DEF Shown
  <2>7. Executes' /\ ExecuteOwned'
    BY <1>nat DEF Executes, ExecuteOwned
  <2>8. RunsAssigned'
    BY DEF RunsAssigned, PairOf
  <2> QED
    BY <2>2, <2>3, <2>4, <2>5, <2>6, <2>7, <2>8 DEF IInv
<1>24. CASE OnBnClickedBReset
  <2> USE <1>24 DEF OnBnClickedBReset, Edit
  <2>1. Line' = Line
    BY DEF Line
  <2>2. TypeOK'
    <3>1. bind' \in [Pairs -> Actions \cup {NoAction}]
      BY DEF TypeOK, Edit
    <3>2. raced' \in BOOLEAN
      OBVIOUS
    <3>3. UNCHANGED <<received, net, lirc, cs, exec, config, queue, main, job,
                      action, fields, thrown, crashed>>
      OBVIOUS
    <3> QED
      BY ONLY TypeOK, <2>1, <3>1, <3>2, <3>3, ZenonT(60) DEF TypeOK
  <2>3. Sections' /\ Stored'
    BY <2>1, <1>nat DEF Sections, Stored
  <2>4. Posted'
    BY <2>1, <1>nat, QueueTypes DEF Posted
  <2>5. Handled'
    BY <2>1, <1>nat DEF Handled
  <2>6. Shown'
    BY <2>1, <1>nat DEF Shown
  <2>7. Executes' /\ ExecuteOwned'
    BY <1>nat DEF Executes, ExecuteOwned
  <2>8. RunsAssigned'
    BY DEF RunsAssigned, PairOf
  <2> QED
    BY <2>2, <2>3, <2>4, <2>5, <2>6, <2>7, <2>8 DEF IInv
<1>25. CASE UNCHANGED vars
  <2> USE <1>25 DEF vars
  <2>0. Line' = Line
    BY DEF Line
  <2>1. TypeOK'
    BY ONLY TypeOK, <1>25, <2>0, ZenonT(60) DEF TypeOK, vars
  <2>2. Sections' /\ Stored' /\ Posted' /\ Handled' /\ Shown'
    BY <2>0 DEF Sections, Stored, Posted, Handled, Shown
  <2>3. Executes' /\ ExecuteOwned' /\ RunsAssigned'
    BY DEF Executes, ExecuteOwned, RunsAssigned, PairOf
  <2> QED
    BY <2>1, <2>2, <2>3 DEF IInv
<1> QED
  BY <1>1, <1>2, <1>3, <1>4, <1>5, <1>6, <1>7, <1>8, <1>9, <1>10, <1>11,
     <1>12, <1>13, <1>14, <1>15, <1>16, <1>17, <1>18, <1>19, <1>20, <1>21,
     <1>22, <1>23, <1>24, <1>25
  DEF Next, NetStep, MainStep, UserStep, Crashed

LEMMA Invariance == Spec => []IInv
<1>1. Init => IInv
  BY InitIInv
<1>2. IInv /\ [Next]_vars => IInv'
  BY NextIInv
<1> QED
  BY <1>1, <1>2, PTL DEF Spec

-----------------------------------------------------------------------------
\* Every variable keeps its type; no thread enters global_execute_cs more often
\* than commands have thrown, and once more.
THEOREM TypeCorrect == Spec => []TypeOK
<1>1. IInv => TypeOK
  BY DEF IInv
<1> QED
  BY <1>1, Invariance, PTL

\* The two names that the hook looks up, and those that the dialog would
\* assign, come from one line, however many lines follow each other.
THEOREM PairNotTorn == Spec => []NoTornPair
<1>1. IInv => NoTornPair
  BY DEF IInv, Handled, Shown, NoTornPair
<1> QED
  BY <1>1, Invariance, PTL

\* A posted line is handled as itself or as a later line.
THEOREM LineNotStale == Spec => []NeverStale
<1>1. IInv => NeverStale
  BY DEF IInv, Handled, Shown, NeverStale
<1> QED
  BY <1>1, Invariance, PTL

\* A command is the one assigned to the pair the hook has read.
THEOREM AssignedCommandRuns == Spec => []RunsAssigned
<1>1. IInv => RunsAssigned
  BY DEF IInv
<1> QED
  BY <1>1, Invariance, PTL

\* Who owns global_execute_cs, and that a command which threw keeps it.
THEOREM ExecuteOwnership == Spec => []ExecuteOwned
<1>1. IInv => ExecuteOwned
  BY DEF IInv
<1> QED
  BY <1>1, Invariance, PTL

\* While a command runs the network thread posts no key to the main window.
THEOREM NoKeyQueuedBehindCommand == Spec => NoKeyBehindCommand
<1>1. IInv /\ [Next]_vars => [main = "command" => KeysWaiting' \subseteq KeysWaiting]_vars
  <2> SUFFICES ASSUME ExecuteOwned, Next, main = "command"
               PROVE  KeysWaiting' \subseteq KeysWaiting
    BY DEF IInv
  <2>1. net \notin {"post", "release"}
    BY DEF ExecuteOwned
  <2>2. CASE NetPostsToMain
    BY <2>1, <2>2 DEF NetPostsToMain, NetGoes
  <2>3. CASE NetPostsToDialog
    BY <2>3 DEF NetPostsToDialog, KeysWaiting
  <2>4. CASE GetMessage
    BY <2>4 DEF GetMessage, KeysWaiting
  <2>5. CASE CloseDialog
    BY <2>5 DEF CloseDialog, KeysWaiting
  <2>6. CASE queue' = queue
    BY <2>6 DEF KeysWaiting
  <2>7. NetStep => NetPostsToMain \/ NetPostsToDialog \/ queue' = queue
    BY DEF NetStep, NetStoresKn, NetStoresRn, NetChecksDialog, NetLooksUp, NetLookupRaces,
       NetTriesExecute, NetReleasesExecute
  <2>8. MainStep => GetMessage \/ queue' = queue
    BY DEF MainStep, HookCopiesKn, HookCopiesRn, HookFinds, CommandTries, CommandReturns,
       CommandThrows, RemoteKeyShowsKn, RemoteKeyShowsRn
  <2>9. UserStep => CloseDialog \/ queue' = queue
    BY DEF UserStep, OpenDialog, OnBnClickedBAdd, OnBnClickedBRemove, OnBnClickedBReset, Edit
  <2>10. ReceiveLine \/ Crashed => queue' = queue
    BY DEF ReceiveLine, Crashed, vars
  <2> QED
    BY <2>2, <2>3, <2>4, <2>5, <2>6, <2>7, <2>8, <2>9, <2>10 DEF Next
<1> QED
  BY <1>1, Invariance, PTL DEF Spec, NoKeyBehindCommand
=============================================================================
