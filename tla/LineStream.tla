------------------------------ MODULE LineStream ------------------------------
(***************************************************************************)
(* From the bytes of the connection to the names of a key: readn of        *)
(* wdevnetlib.cpp and the sscanf_s of wdevlircthread_callback.             *)
(*                                                                         *)
(* TCP keeps the bytes in order and not the lines: what arrives at a time  *)
(* may end anywhere. readn takes what has arrived until there is no more,  *)
(* and the thread parses the front of what it got as one line. What it     *)
(* does with the names is RemoteKey; the end of a connection, which loses  *)
(* what was not parsed, is LircThread.                                     *)
(***************************************************************************)
EXTENDS Integers, SequencesExt

CONSTANTS
  Buttons,   \* names of buttons: sequences of characters with no space
  Remotes,   \* names of remote controls: they may have spaces inside
  BUF_SIZ,   \* size of the buffer
  MaxLines   \* bound: lines the daemon sends

ASSUME SizeAssumption == BUF_SIZ \in Nat \ {0} /\ MaxLines \in Nat

Blank == " "
Newline == "\n"
Space == {Blank, Newline}

\* The names of a LIRC configuration: none is empty, a button has no space, and
\* the name of a remote control neither begins with one nor ends a line.
ASSUME NamesAssumption ==
  /\ \A kn \in Buttons :
       kn \in Seq(STRING) /\ kn # <<>> /\ \A i \in DOMAIN kn : kn[i] \notin Space
  /\ \A rn \in Remotes :
       rn \in Seq(STRING) /\ rn # <<>> /\ rn[1] # Blank /\ \A i \in DOMAIN rn : rn[i] # Newline

VARIABLES
  sent,     \* lines of the daemon: the names they hold
  stream,   \* their characters
  arrived,  \* how many of them have arrived
  start,    \* how many were read before the buffer was cleared
  pos,      \* how many were read
  last,     \* what was last parsed: where it was, and the names
  off,      \* the component was switched off
  cuts      \* the network cuts lines into pieces

vars == <<sent, stream, arrived, start, pos, last, off, cuts>>

Hex == {"0", "1", "e"}

\* The code of the button, the repeat count, and the names.
LineOf(names) ==
  <<"0", "1", Blank, "0", Blank>> \o names.kn \o <<Blank>> \o names.rn \o <<Newline>>

NoNames == [kn |-> <<>>, rn |-> <<>>]

Init ==
  /\ sent = <<>> /\ stream = <<>>
  /\ arrived = 0 /\ start = 0 /\ pos = 0
  /\ last = [from |-> 0, to |-> 0, names |-> NoNames]
  /\ off = FALSE
  /\ cuts \in BOOLEAN

-----------------------------------------------------------------------------
(* The daemon and the network.                                             *)

DaemonSends ==
  /\ Len(sent) < MaxLines
  /\ \E names \in [kn : Buttons, rn : Remotes] :
       sent' = Append(sent, names) /\ stream' = stream \o LineOf(names)
  /\ UNCHANGED <<arrived, start, pos, last, off, cuts>>

Arrives ==
  /\ \E n \in arrived + 1 .. Len(stream) :
       (cuts \/ stream[n] = Newline) /\ arrived' = n
  /\ UNCHANGED <<sent, stream, start, pos, last, off, cuts>>

-----------------------------------------------------------------------------
(* sscanf_s with "%I64x %x %s %[^\n]".                                     *)

\* The first place from i on that does not hold one of chars.
After(buf, i, chars) ==
  Min({j \in i .. Len(buf) + 1 : j > Len(buf) \/ buf[j] \notin chars})

\* The first place from i on that holds one of chars, or the end.
Until(buf, i, chars) ==
  Min({j \in i .. Len(buf) + 1 : j > Len(buf) \/ buf[j] \in chars})

\* Faulty variant: the results of the conversions before the names do not
\* count.
ParsesOn(buf) ==
  LET count == After(buf, After(buf, After(buf, 1, Space), Hex), Space)
      kn == After(buf, After(buf, count, Hex), Space)
      rn == After(buf, Until(buf, kn, Space), Space)
  IN  [kn |-> SubSeq(buf, kn, Until(buf, kn, Space) - 1),
       rn |-> SubSeq(buf, rn, Until(buf, rn, {Newline}) - 1)]

\* Faulty variant: the name of a remote control ends at a space.
RemoteIsWord(buf) ==
  LET code == After(buf, 1, Space)
      count == After(buf, After(buf, code, Hex), Space)
      kn == After(buf, After(buf, count, Hex), Space)
      rn == After(buf, Until(buf, kn, Space), Space)
      Number(i) == i <= Len(buf) /\ buf[i] \in Hex
  IN  IF Number(code) /\ Number(count)
      THEN [kn |-> SubSeq(buf, kn, Until(buf, kn, Space) - 1),
            rn |-> SubSeq(buf, rn, Until(buf, rn, Space) - 1)]
      ELSE NoNames

\* A conversion that finds nothing ends it: names not reached are empty, as the
\* buffers were cleared. A space of the format passes the end of a line too.
sscanf(buf) ==
  LET code == After(buf, 1, Space)
      count == After(buf, After(buf, code, Hex), Space)
      kn == After(buf, After(buf, count, Hex), Space)
      rn == After(buf, Until(buf, kn, Space), Space)
      Number(i) == i <= Len(buf) /\ buf[i] \in Hex
  IN  IF Number(code) /\ Number(count)
      THEN [kn |-> SubSeq(buf, kn, Until(buf, kn, Space) - 1),
            rn |-> SubSeq(buf, rn, Until(buf, rn, {Newline}) - 1)]
      ELSE NoNames

-----------------------------------------------------------------------------
(* The thread.                                                             *)

Got == pos - start

\* recv in readn: what has arrived, up to the rest of the buffer.
Receives ==
  /\ ~ off /\ pos < arrived /\ Got < BUF_SIZ
  /\ pos' = IF arrived - start < BUF_SIZ THEN arrived ELSE start + BUF_SIZ
  /\ UNCHANGED <<sent, stream, arrived, start, last, off, cuts>>

\* Faulty variant: the buffer keeps the characters it has got.
KeepsBuffer ==
  /\ ~ off /\ pos = arrived /\ Got \in 1 .. BUF_SIZ - 1
  /\ last' = [from |-> start, to |-> pos, names |-> sscanf(SubSeq(stream, start + 1, pos))]
  /\ UNCHANGED <<sent, stream, arrived, start, pos, off, cuts>>

\* readn returns what it got, of which the front is parsed.
Parses ==
  /\ ~ off /\ pos = arrived /\ Got \in 1 .. BUF_SIZ - 1
  /\ last' = [from |-> start, to |-> pos, names |-> sscanf(SubSeq(stream, start + 1, pos))]
  /\ start' = pos
  /\ UNCHANGED <<sent, stream, arrived, pos, off, cuts>>

Disables ==
  /\ ~ off /\ Got = BUF_SIZ
  /\ off' = TRUE
  /\ UNCHANGED <<sent, stream, arrived, start, pos, last, cuts>>

\* select has nothing to report, or the component is off.
SelectsNothing ==
  /\ off \/ start = arrived
  /\ UNCHANGED vars

Next == DaemonSends \/ Arrives \/ Receives \/ Parses \/ Disables \/ SelectsNothing

Spec == Init /\ [][Next]_vars

-----------------------------------------------------------------------------
(* Properties.                                                             *)

TypeOK ==
  /\ sent \in Seq([kn : Buttons, rn : Remotes]) /\ Len(sent) <= MaxLines
  /\ arrived \in 0 .. Len(stream)
  /\ pos \in 0 .. arrived
  /\ start \in 0 .. pos /\ Got <= BUF_SIZ
  /\ last.from \in 0 .. start /\ last.to \in last.from .. start
  /\ off \in BOOLEAN /\ cuts \in BOOLEAN

\* Lines that end among the first n characters.
Ends(n) == Cardinality({i \in 1 .. n : stream[i] = Newline})

AtLineStart(n) == n = 0 \/ stream[n] = Newline

\* A read that begins with a line and holds all of it gives the names of that
\* line, wherever the pieces before it were cut and whatever follows it.
ExactUnlessCut ==
  AtLineStart(last.from) /\ Ends(last.from) < Ends(last.to)
    => last.names = sent[Ends(last.from) + 1]

\* What sscanf_s may make of a line that was cut.
IsFrontOf(names, line) ==
  \/ names.kn = line.kn /\ IsPrefix(names.rn, line.rn)
  \/ names.rn = <<>> /\ IsPrefix(names.kn, line.kn)

\* No word of the name could be taken for a number.
IsPlain(name) == \A i \in DOMAIN name : (i = 1 \/ name[i - 1] = Blank) => name[i] \notin Hex

\* Neither can the end of a line, of which a cut leaves any part: with the code
\* of the next line for its count, that line would have its count for a button.
IsPlainLine(line) == IsPlain(line.kn) /\ IsPlain(line.rn) /\ Last(line.rn) \notin Hex \cup Space

\* However the network cuts the lines, the two names are from one line and the
\* button is never paired with the remote control of another one, as long as no
\* word of a name begins with a hexadecimal digit and no name of a remote
\* control ends in one.
FrontsOfLines ==
  last.to > 0 /\ (\A i \in DOMAIN sent : IsPlainLine(sent[i]))
    => \E i \in DOMAIN sent : IsFrontOf(last.names, sent[i])

\* When lines arrive as wholes, every read gives the first key that was not
\* read, whatever the names are: a key is lost only behind another one of the
\* same read, and none is given twice.
KeyPerRead ==
  [][~ cuts /\ last' # last => last'.names = sent[Ends(last.to) + 1]]_vars
=============================================================================
