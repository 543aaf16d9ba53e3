------------------------------- MODULE CfgStore -------------------------------
(***************************************************************************)
(* How the plug-in's variables are stored: config_write_file and           *)
(* config_read_file of the SDK (cfg_var.cpp), with get_data_raw and        *)
(* set_data_raw of the assignments and of an integer, byte by byte.        *)
(*                                                                         *)
(* A file is a sequence of blocks: a GUID, the size of the data and the    *)
(* data. GUIDs and sizes are one cell here, the data has one cell per      *)
(* byte. A write that was cut off leaves the front of the file, and a file *)
(* may hold blocks that this version of the plug-in does not know.         *)
(*                                                                         *)
(* Its names are other ones than those of Settings, so that one module can *)
(* extend both: cells is the file, one integer stands for all of them.     *)
(***************************************************************************)
EXTENDS Integers, SequencesExt

CONSTANTS
  SizeTs,     \* bytes of a size_t: 4 in a 32-bit build, 8 in a 64-bit one
  Lists,      \* lists of assignments, each an entry [kn, rn, naction]
  Ints,       \* values of g_config_port, which stands for the integers
  DefaultInt  \* 8765

\* The largest int.
MaxInt == 2147483647

\* Names are bytes without the 0 that ends them, numbers those of an int.
Entries == [kn : Seq(1 .. 255), rn : Seq(1 .. 255), naction : 0 .. MaxInt]

ASSUME SizeTsAssumption == SizeTs \subseteq {4, 8}

\* They are unsigned: less than 2 * (MaxInt + 1).
ASSUME IntsAssumption == DefaultInt \in Ints /\ \A x \in Ints : x \in Nat /\ x \div 2 <= MaxInt

\* What a read that ends early leaves is a list as well.
ASSUME ListsAssumption ==
  \A l \in Lists :
    /\ l \in Seq(Entries) /\ Len(l) <= MaxInt
    /\ \A k \in 0 .. Len(l) : SubSeq(l, 1, k) \in Lists

\* GUIDs are told apart from bytes.
guid_actions == -1
guid_port == -2
guid_foreign == -3

VARIABLES
  size_t,        \* bytes of a size_t in this build
  phase,         \* where config_read_file is, or the process
  cells,         \* the cells of the file
  pos,           \* next cell to read
  end,           \* last cell of the block that is read
  todo,          \* entries still to read
  list,          \* lactions of g_config_actions
  g_config_port, \* the value of that variable
  saved,         \* what was stored
  torn           \* the file was cut off

values == <<list, g_config_port>>
store == <<cells, saved, torn, size_t>>
StoreVars == <<phase, store, pos, end, todo, values>>

-----------------------------------------------------------------------------
(* Writing.                                                                *)

\* The n bytes of a number, the lowest first.
lendian(x, n) ==
  [i \in 1 .. n |-> CASE i = 1 -> x % 256
                      [] i = 2 -> x \div 256 % 256
                      [] i = 3 -> x \div 65536 % 256
                      [] i = 4 -> x \div 16777216 % 256
                      [] OTHER -> 0]

\* Faulty variant: the names in the order of the class, not of the reader.
StoresKeyFirst(e) ==
  lendian(0, 8) \o lendian(0, 4) \o e.kn \o <<0>> \o e.rn \o <<0>> \o lendian(e.naction, 4)

\* kc and rc are always 0.
Entry(e) ==
  lendian(0, 8) \o lendian(0, 4) \o e.rn \o <<0>> \o e.kn \o <<0>> \o lendian(e.naction, 4)

\* What has been written after each entry: the count, and the entries so far.
Written(l) ==
  LET data[i \in 0 .. Len(l)] ==
        IF i = 0 THEN lendian(Len(l), size_t) ELSE data[i - 1] \o Entry(l[i])
  IN  data

get_data_raw(l) == Written(l)[Len(l)]

Block(guid, data) == <<guid, Len(data)>> \o data

\* The variables are chained last first.
config_write_file(l, p) ==
  Block(guid_actions, get_data_raw(l)) \o Block(guid_port, lendian(p, 4))

-----------------------------------------------------------------------------
(* The process. An older or newer version may have left a block of its     *)
(* own.                                                                    *)

StoreInit ==
  /\ phase = "off"
  /\ size_t \in SizeTs
  /\ \E l \in Lists, p \in Ints :
       /\ cells \in {config_write_file(l, p), Block(guid_foreign, <<7>>) \o config_write_file(l, p)}
       /\ saved = [list |-> l, port |-> p]
  /\ pos = 1 /\ end = 0 /\ todo = 0
  /\ list = <<>> /\ g_config_port = DefaultInt
  /\ torn = FALSE

Starts ==
  /\ phase = "off" /\ phase' = "guid"
  /\ list' = <<>> /\ g_config_port' = DefaultInt
  /\ pos' = 1 /\ end' = 0 /\ todo' = 0
  /\ UNCHANGED store

\* set_config has returned, or thrown.
Runs ==
  /\ phase \in {"done", "thrown"} /\ phase' = "run"
  /\ UNCHANGED <<store, pos, end, todo, values>>

Edits ==
  /\ phase = "run"
  /\ list' \in Lists /\ g_config_port' \in Ints
  /\ UNCHANGED <<phase, store, pos, end, todo>>

Exits ==
  /\ phase = "run" /\ phase' = "off"
  /\ cells' = config_write_file(list, g_config_port)
  /\ saved' = [list |-> list, port |-> g_config_port]
  /\ torn' = FALSE
  /\ pos' = 1 /\ end' = 0 /\ todo' = 0
  /\ UNCHANGED <<size_t, values>>

\* The write was cut off.
Tears ==
  /\ phase = "off" /\ ~ torn
  /\ \E k \in 0 .. Len(cells) - 1 : cells' = SubSeq(cells, 1, k)
  /\ torn' = TRUE
  /\ UNCHANGED <<phase, size_t, pos, end, todo, values, saved>>

-----------------------------------------------------------------------------
(* Reading.                                                                *)

Goes(from, to) == phase = from /\ phase' = to

\* The last cell that can be read.
Limit == IF end < Len(cells) THEN end ELSE Len(cells)

CanRead(from, n) == from + n - 1 <= Limit

Low(from) == cells[from] + 256 * cells[from + 1] + 65536 * cells[from + 2]

\* The unsigned number at from, and the int.
Number(from) == Low(from) + 16777216 * cells[from + 3]
Signed(from) ==
  LET high == cells[from + 3]
  IN  Low(from) + 16777216 * (IF high < 128 THEN high ELSE high - 256)

\* The end of the file, or a part of a GUID.
FileEnds ==
  /\ pos > Len(cells)
  /\ Goes("guid", "done")
  /\ UNCHANGED <<store, pos, end, todo, values>>

SizeThrows ==
  /\ pos = Len(cells)
  /\ Goes("guid", "thrown")
  /\ UNCHANGED <<store, pos, end, todo, values>>

\* set_data_raw starts: the assignments are deleted before the first is read.
FindsVariable ==
  /\ pos < Len(cells)
  /\ \/ cells[pos] = guid_actions /\ Goes("guid", "count") /\ list' = <<>>
     \/ cells[pos] = guid_port /\ Goes("guid", "int") /\ UNCHANGED list
  /\ pos' = pos + 2
  /\ end' = pos + 1 + cells[pos + 1]
  /\ UNCHANGED <<store, todo, g_config_port>>

SkipsForeign ==
  LET last == pos + 1 + cells[pos + 1]
  IN  /\ phase = "guid" /\ pos < Len(cells)
      /\ cells[pos] \notin {guid_actions, guid_port}
      /\ IF last <= Len(cells) THEN phase' = "guid" /\ pos' = last + 1
                              ELSE phase' = "thrown" /\ UNCHANGED pos
      /\ UNCHANGED <<store, end, todo, values>>

\* A read that fails throws, which is caught; the rest of the block is skipped
\* from wherever the reader is.
ReadThrows(from) ==
  /\ Goes(from, "flush")
  /\ UNCHANGED <<store, pos, end, todo, values>>

ReadsCount ==
  /\ CanRead(pos, 4)
  /\ Goes("count", "entry")
  /\ todo' = Signed(pos)
  /\ pos' = pos + 4
  /\ UNCHANGED <<store, end, values>>

CountThrows == ~ CanRead(pos, 4) /\ ReadThrows("count")

\* Where a string that starts at from ends with 0: none or one place.
Nul(from) ==
  {i \in from .. Limit : cells[i] = 0 /\ \A j \in from .. i - 1 : cells[j] # 0}

\* The ends of the two strings of the entry at pos, when all of it can be read.
EntryAt ==
  {ends \in (pos .. Limit) \X (pos .. Limit) :
     /\ ends[1] \in Nul(pos + 12) /\ ends[2] \in Nul(ends[1] + 1)
     /\ CanRead(ends[2] + 1, 4)}

ReadsEntry ==
  \E ends \in EntryAt :
    LET i == ends[1]
        j == ends[2]
    IN  /\ todo > 0
        /\ Goes("entry", "entry")
        /\ list' = Append(list, [rn |-> SubSeq(cells, pos + 12, i - 1),
                                 kn |-> SubSeq(cells, i + 1, j - 1),
                                 naction |-> Signed(j + 1)])
        /\ pos' = j + 5
        /\ todo' = todo - 1
        /\ UNCHANGED <<store, end, g_config_port>>

\* Faulty variant: the object is in the list before it is read.
AddsIncomplete ==
  /\ todo > 0 /\ EntryAt = {}
  /\ Goes("entry", "flush")
  /\ list' = Append(list, [rn |-> <<>>, kn |-> <<>>, naction |-> -1])
  /\ UNCHANGED <<store, pos, end, todo, g_config_port>>

EntryThrows == todo > 0 /\ EntryAt = {} /\ ReadThrows("entry")

LastEntry ==
  /\ todo <= 0
  /\ Goes("entry", "flush")
  /\ UNCHANGED <<store, pos, end, todo, values>>

ReadsInt ==
  /\ CanRead(pos, 4)
  /\ Goes("int", "flush")
  /\ g_config_port' = Number(pos)
  /\ pos' = pos + 4
  /\ UNCHANGED <<store, end, todo, list>>

\* Faulty variant: the value is read into the variable itself.
IntReadInPlace ==
  /\ ~ CanRead(pos, 4)
  /\ Goes("int", "flush")
  /\ g_config_port' = -1
  /\ UNCHANGED <<store, pos, end, todo, list>>

IntThrows == ~ CanRead(pos, 4) /\ ReadThrows("int")

\* Faulty variant: the next block is looked for where the reader is.
NoFlush ==
  /\ Goes("flush", "guid")
  /\ UNCHANGED <<store, pos, end, todo, values>>

\* Outside of the try: a block that is cut off ends the whole read.
Flushes ==
  /\ phase = "flush"
  /\ IF end <= Len(cells) THEN phase' = "guid" /\ pos' = end + 1
                         ELSE phase' = "thrown" /\ UNCHANGED pos
  /\ UNCHANGED <<store, end, todo, values>>

-----------------------------------------------------------------------------
StoreNext ==
  \/ Starts \/ Runs \/ Edits \/ Exits \/ Tears
  \/ FileEnds \/ SizeThrows \/ FindsVariable \/ SkipsForeign
  \/ ReadsCount \/ CountThrows \/ ReadsEntry \/ EntryThrows \/ LastEntry
  \/ ReadsInt \/ IntThrows \/ Flushes

StoreSpec == StoreInit /\ [][StoreNext]_StoreVars

-----------------------------------------------------------------------------
(* Properties.                                                             *)

StoreTypeOK ==
  /\ phase \in {"off", "guid", "count", "entry", "int", "flush", "done", "thrown", "run"}
  /\ saved.port \in Ints /\ (size_t = 4 => saved.list \in Lists)
  /\ pos \in 1 .. Len(cells) + 1
  /\ end \in Nat /\ todo \in Int
  /\ \A i \in DOMAIN list : list[i].naction \in Int
  /\ g_config_port \in Ints
  /\ torn \in BOOLEAN /\ size_t \in SizeTs

HasRead == phase \in {"done", "thrown"}

\* A complete file gives back the assignments that were stored, after any
\* blocks of other versions. The code does not keep this in a 64-bit build, and
\* no run lists it (README, section 7).
ReadBack == HasRead /\ ~ torn => phase = "done" /\ list = saved.list

\* It does where a size_t has the width of an int.
ReadBack32 == size_t = 4 => ReadBack

\* A file that was cut off anywhere gives a front of the assignments, each of
\* them complete, and the integer or its default: no value is made up (in a
\* 32-bit build).
TornIsPrefix ==
  HasRead /\ torn /\ size_t = 4
    => IsPrefix(list, saved.list) /\ g_config_port \in {saved.port, DefaultInt}

\* Whatever set_data_raw makes of its block, the variables after it are read
\* from where they are.
NextBlockFound == HasRead /\ ~ torn => phase = "done" /\ g_config_port = saved.port
=============================================================================
