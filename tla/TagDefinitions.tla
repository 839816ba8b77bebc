--------------------------- MODULE TagDefinitions ---------------------------
(***************************************************************************)
(* The tag list of src/src/TagDefinitions.cpp: it is read line by line into *)
(* a map of records, which main.cpp then registers with the global maps of  *)
(* status codes and of registers.                                          *)
(*                                                                         *)
(* A file is a sequence of symbols: "=", "\\", "#", CR, LF, and words, each  *)
(* a run of other characters. A record is four fields that follow each      *)
(* other in memory, and sscanf with "%lu" writes a long to where a 4 byte   *)
(* field is; the first 4 bytes of a string are a part of its pointer to the *)
(* characters.                                                             *)
(***************************************************************************)
EXTENDS Integers, Sequences, SequencesExt

CONSTANTS
  Files,        \* the tag lists, each a record with its symbols as text
  ValueOf,      \* the words that "%lu" reads a number from - blanks and a
                \* sign may come before it, anything after it - and what it
                \* reads, below 2^32
  BufferSize,   \* the size of the line buffer (1024)
  LongWords     \* 4 byte words in a long: 2 (64 bit linux) or 1 (windows)

ASSUME FilesAssumption == \A f \in Files : f.text \in Seq(STRING)
ASSUME NumeralAssumption == DOMAIN ValueOf \cap {"=", "\\", "#", "\r", "\n"} = {}
ASSUME LongAssumption == LongWords \in {1, 2}
ASSUME BufferAssumption == BufferSize \in Nat /\ BufferSize > 1

NoFile == [text |-> <<"no file">>]
Dangling == <<"dangling">>     \* a string whose pointer was overwritten

VARIABLES
  stage,          \* "open", "read", "status", "data" or "done"
  inp,            \* the file that is read
  offset,         \* symbols of it that were read
  line_counter,
  tagmap,
  status_map,     \* what was added to the global SpeedwireStatusMap
  data_map        \* and to the global SpeedwireDataMap

vars == <<stage, inp, offset, line_counter, tagmap, status_map, data_map>>

-----------------------------------------------------------------------------
Upto(s, n) == SubSeq(s, 1, n)
From(s, n) == SubSeq(s, n + 1, Len(s))

Places(s, symbols) == {i \in 1 .. Len(s) : s[i] \in symbols}
FirstOf(s, symbols) == IF Places(s, symbols) = {} THEN 0 ELSE Min(Places(s, symbols))

\* fgets: up to the end of the line, if there is room for it.
Line(s) ==
  LET end == FirstOf(s, {"\n"})
      length == IF end = 0 THEN Len(s) ELSE end
  IN Upto(s, Min({length, BufferSize - 1}))

\* Without the comment and the end of the line. (The mutant leaves a CR in.)
LineEnds == {"#", "\n"}
Removed == {"#", "\r", "\n"}
Stripped(line) ==
  IF FirstOf(line, Removed) = 0 THEN line ELSE Upto(line, FirstOf(line, Removed) - 1)

\* sscanf "%lu" into a field: it returns 1 if the first word gives a number.
\* The 4 byte words of a long go to the field and to what follows it in memory.
IsNumber(s) == s # <<>> /\ s[1] \in DOMAIN ValueOf

ScanEnumId(record, s) ==
  IF ~IsNumber(s) THEN record
  ELSE [record EXCEPT !.enum_id = ValueOf[s[1]],
                      !.register_id = IF LongWords = 2 THEN 0 ELSE @]

ScanRegisterId(record, s) ==
  IF ~IsNumber(s) THEN record
  ELSE [record EXCEPT !.register_id = ValueOf[s[1]],
                      !.tagname = IF LongWords = 2 THEN Dangling ELSE @]

TagRecord == [enum_id |-> 0, register_id |-> 0, tagname |-> <<>>, description |-> <<>>]

\* The line, split at its first "=" and then at each "\\". There must be two of
\* these.
SplitAt(line) == FirstOf(line, {"="})
Items(line) ==
  LET desc == From(line, SplitAt(line))
      a == Min(Places(desc, {"\\"}))
      b == Max(Places(desc, {"\\"}))
  IN [tag_id |-> Upto(line, SplitAt(line) - 1), tagname |-> Upto(desc, a - 1),
      register |-> SubSeq(desc, a + 1, b - 1), description |-> From(desc, b)]

HasThreeItems(line) ==
  /\ SplitAt(line) # 0
  /\ Cardinality(Places(From(line, SplitAt(line)), {"\\"})) = 2

RecordOf(line) ==
  LET items == Items(line)
      named == [ScanEnumId(TagRecord, items.tag_id) EXCEPT
                  !.tagname = items.tagname, !.description = items.description]
  IN ScanRegisterId(named, items.register)

IsEntry(line) ==
  HasThreeItems(line) /\ IsNumber(Items(line).tag_id) /\ IsNumber(Items(line).register)

\* tagmap[record.enum_id] = record (The mutant keeps the first one.)
AddIfNew(map, record) ==
  IF record.enum_id \in DOMAIN map THEN map
  ELSE [id \in DOMAIN map \cup {record.enum_id} |->
          IF id = record.enum_id THEN record ELSE map[id]]
Add(map, record) ==
  [id \in DOMAIN map \cup {record.enum_id} |->
     IF id = record.enum_id THEN record ELSE map[id]]

-----------------------------------------------------------------------------
Init ==
  /\ stage = "open"
  /\ inp \in Files \cup {NoFile}
  /\ offset = 0
  /\ line_counter = 0
  /\ tagmap = [id \in {} |-> TagRecord]
  /\ status_map = {}
  /\ data_map = {}

Open ==
  /\ stage = "open"
  /\ stage' = IF inp = NoFile THEN "done" ELSE "read"
  /\ UNCHANGED <<inp, offset, line_counter, tagmap, status_map, data_map>>

ReadLine ==
  /\ stage = "read"
  /\ offset < Len(inp.text)
  /\ LET read == Line(From(inp.text, offset))
         line == Stripped(read)
     IN /\ offset' = offset + Len(read)
        /\ line_counter' = line_counter + 1
        /\ tagmap' = IF IsEntry(line) THEN Add(tagmap, RecordOf(line)) ELSE tagmap
  /\ UNCHANGED <<stage, inp, status_map, data_map>>

\* The maps are filled only if the list has an entry.
Close ==
  /\ stage = "read"
  /\ offset = Len(inp.text)
  /\ stage' = IF tagmap # <<>> THEN "status" ELSE "done"
  /\ UNCHANGED <<inp, offset, line_counter, tagmap, status_map, data_map>>

\* Status codes have no register. (The mutant registers all of the tags.)
AnyTag(record) == TRUE
IsStatus(record) == record.register_id = 0

insertIntoGlobalSpeedwireStatusMap ==
  /\ stage = "status"
  /\ status_map' = status_map \cup
       {[enum_id |-> r.enum_id, tagname |-> r.tagname, description |-> r.description] :
          r \in {s \in {tagmap[id] : id \in DOMAIN tagmap} : IsStatus(s)}}
  /\ stage' = "data"
  /\ UNCHANGED <<inp, offset, line_counter, tagmap, data_map>>

insertIntoGlobalSpeedwireDataMap ==
  /\ stage = "data"
  /\ data_map' = data_map \cup
       {[register_id |-> r.register_id, tagname |-> r.tagname] :
          r \in {s \in {tagmap[id] : id \in DOMAIN tagmap} : s.register_id # 0}}
  /\ stage' = "done"
  /\ UNCHANGED <<inp, offset, line_counter, tagmap, status_map>>

Next == \/ Open \/ ReadLine \/ Close
        \/ insertIntoGlobalSpeedwireStatusMap \/ insertIntoGlobalSpeedwireDataMap

Spec == Init /\ [][Next]_vars

-----------------------------------------------------------------------------
(* A tag list by its layout, without reading it from left to right.         *)

\* The lines of a text, each with the offset before it and that of its end.
Lines(s) ==
  {l \in (0 .. Len(s)) \X (0 .. Len(s)) :
     /\ l[1] < l[2]
     /\ l[1] = 0 \/ s[l[1]] = "\n"
     /\ l[2] = Len(s) \/ s[l[2]] = "\n"
     /\ \A i \in l[1] + 1 .. l[2] - 1 : s[i] # "\n"}

TextOf(s, l) == SubSeq(s, l[1] + 1, l[2])

\* Where the parts of an entry are: after the first "=" there are two "\\"
\* up to the end of what is no comment, and a number is where one belongs.
Layouts(u) ==
  {p \in [split : Places(u, {"="}), first : Places(u, {"\\"}),
          second : Places(u, {"\\"}), end : 0 .. Len(u)] :
     /\ \A i \in 1 .. p.end : u[i] \notin {"#", "\r", "\n"}
     /\ p.end = Len(u) \/ u[p.end + 1] \in {"#", "\r", "\n"}
     /\ p.split < p.first /\ p.first < p.second /\ p.second <= p.end
     /\ \A i \in 1 .. p.split - 1 : u[i] # "="
     /\ \A i \in p.split + 1 .. p.end : u[i] = "\\" => i \in {p.first, p.second}
     /\ u[1] \in DOMAIN ValueOf /\ u[p.first + 1] \in DOMAIN ValueOf}

IsTag(u) == Layouts(u) # {}

TagAt(u) ==
  LET p == CHOOSE q \in Layouts(u) : TRUE
  IN [enum_id     |-> ValueOf[u[1]],
      register_id |-> ValueOf[u[p.first + 1]],
      tagname     |-> SubSeq(u, p.split + 1, p.first - 1),
      description |-> SubSeq(u, p.second + 1, p.end)]

\* What is left of it where a long has 8 bytes, see NamesAreKept.
Held(tag) == IF LongWords = 2 THEN [tag EXCEPT !.tagname = Dangling] ELSE tag

\* The tags on the lines that end within the first n symbols, of each id the
\* last one.
TagLines(s, n) == {l \in Lines(s) : l[2] <= n /\ IsTag(TextOf(s, l))}
IdOn(s, l) == TagAt(TextOf(s, l)).enum_id
LastLines(s, n) ==
  {l \in TagLines(s, n) : \A m \in TagLines(s, n) : m[2] > l[2] => IdOn(s, m) # IdOn(s, l)}

Current(s, n) == {Held(TagAt(TextOf(s, l))) : l \in LastLines(s, n)}

\* A longer line would be read as several.
FitsBuffer(s) == \A l \in Lines(s) : l[2] - l[1] < BufferSize

-----------------------------------------------------------------------------
(* Properties.                                                             *)

(* Line by line, the map holds the tags of the list, each id with its last  *)
(* one, whatever else is in it: comments, empty lines, CR LF, names with    *)
(* "=", entries with a part missing, or one too many                        *)
(* (TagDefinitions.cpp:24-68).                                             *)
ReadBack ==
  FitsBuffer(inp.text) =>
    /\ {tagmap[id] : id \in DOMAIN tagmap} = Current(inp.text, offset)
    /\ \A id \in DOMAIN tagmap : tagmap[id].enum_id = id

(* In the end each tag of the list is known to exactly one of the global    *)
(* maps, those with a register to the one that replies are looked up in     *)
(* (TagDefinitions.cpp:77-100, main.cpp:63-66).                             *)
EachTagOnce ==
  LET tags == Current(inp.text, Len(inp.text))
  IN stage = "done" /\ FitsBuffer(inp.text) =>
       /\ status_map = {[enum_id |-> t.enum_id, tagname |-> t.tagname,
                         description |-> t.description] :
                           t \in {u \in tags : u.register_id = 0}}
       /\ data_map = {[register_id |-> t.register_id, tagname |-> t.tagname] :
                         t \in {u \in tags : u.register_id # 0}}

(* "tag short name" (TagDefinitions.hpp:17): the record of a tag holds the  *)
(* name that the list gives to it.                                         *)
NamesAreKept == \A id \in DOMAIN tagmap : tagmap[id].tagname # Dangling

=============================================================================
