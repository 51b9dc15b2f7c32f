-------------------------------- MODULE IniFile -------------------------------
(***************************************************************************)
(* The configuration file: iniparser.c, which reads it into a dictionary,  *)
(* the functions of get_config_value.cpp on top of it, and what the GLib   *)
(* key file makes of the same text when a value is written back.           *)
(*                                                                         *)
(* A line of the file is a record [form, name, val, more].  A value is a   *)
(* sequence of words and ";"; more: the line ends with a backslash.        *)
(***************************************************************************)
EXTENDS Integers, Sequences, SequencesExt, FiniteSets, FiniteSetsExt

CONSTANTS
  Names, Lower,   \* names of sections and keys, as written; strlwc()
  Words, ToInt,   \* words of values; strtol() of a word
  IniHash,        \* dictionary_hash() of an entry
  MinSize         \* DICTMINSZ

Forms == {"blank", "hash", "semicolon", "section", "quoted", "plain", "junk", "long"}
Mark == ";"      \* begins a comment
LineValues == Seq(Words \cup {Mark})
Lines == [form : Forms, name : Names, val : LineValues, more : BOOLEAN]

\* A section is an entry of its own, a key is entered as section:key.
NoSection == ""
NoValue == <<"NULL">>
Entries == {<<s>> : s \in Names} \cup ({NoSection} \cup Names) \X Names
Values == Seq(Words \cup {Mark} \cup Names)

D == INSTANCE Dictionary WITH
  Key <- Entries, Value <- Values, Hash <- IniHash, DictMinSize <- MinSize,
  NULL <- NoValue

\* What is in lower case is so already, and no name is empty.
IniConstants ==
  /\ D!DictionaryConstants
  /\ Lower \in [Names -> Names] /\ \A n \in Names : Lower[Lower[n]] = Lower[n]
  /\ NoSection \notin Names

------------------------------------------------------------------------------
(* iniparser_load()                                                        *)

\* A value without quotes ends where a comment starts; "key=" has the empty value.
UpToComment(val) ==
  LET marks == {k \in 1..Len(val) : val[k] = Mark}
  IN IF marks = {} THEN val ELSE SubSeq(val, 1, Min(marks) - 1)

\* Mutant: names are entered as they are written.
EnterAsWritten(st, l) ==
  CASE l.form = "section" ->
         [st EXCEPT !.section = l.name, !.d = D!dictionary_set(@, <<l.name>>, NoValue)]
    [] l.form = "quoted" ->
         [st EXCEPT !.d = D!dictionary_set(@, <<st.section, l.name>>, l.val)]
    [] l.form = "plain" ->
         [st EXCEPT !.d = D!dictionary_set(@, <<st.section, l.name>>, UpToComment(l.val))]
    [] l.form = "junk" -> [st EXCEPT !.errs = @ + 1]
    [] OTHER -> st

\* iniparser_line() and what iniparser_load() makes of its status.  The section
\* that was read last stays in its buffer; mistakes are counted.
Enter(st, l) ==
  CASE l.form = "section" ->
         [st EXCEPT !.section = Lower[l.name], !.d = D!dictionary_set(@, <<Lower[l.name]>>, NoValue)]
    [] l.form = "quoted" ->
         [st EXCEPT !.d = D!dictionary_set(@, <<st.section, Lower[l.name]>>, l.val)]
    [] l.form = "plain" ->
         [st EXCEPT !.d = D!dictionary_set(@, <<st.section, Lower[l.name]>>, UpToComment(l.val))]
    [] l.form = "junk" -> [st EXCEPT !.errs = @ + 1]
    [] OTHER -> st

\* A line (never the head of a section) that ends with a backslash goes on with the
\* text of the next one.
JoinLine(first, l) ==
  [first EXCEPT !.val = IF l.form = "blank" THEN @ ELSE @ \o <<l.name>> \o l.val, !.more = l.more]

LoadLine(st, l) ==
  LET line == IF st.last = <<>> THEN l ELSE JoinLine(st.last[1], l)
  IN IF st.failed THEN st
     ELSE IF l.form = "long" THEN [st EXCEPT !.failed = TRUE]
     ELSE IF line.more THEN [st EXCEPT !.last = <<line>>]
     ELSE Enter([st EXCEPT !.last = <<>>], line)

NothingLoaded ==
  [d |-> D!dictionary_new, section |-> NoSection, last |-> <<>>, errs |-> 0, failed |-> FALSE]

Loaded(file) == FoldLeft(LoadLine, NothingLoaded, file)

\* iniparser_load() returns a dictionary; GetProfileString(), GetProfileInteger() -1.
Readable(file) == ~Loaded(file).failed /\ Loaded(file).errs = 0

NotThere == <<"not there">>

iniparser_getstring(d, e) == D!dictionary_get(d, e, NotThere)

Lookup(file, section, key) ==
  iniparser_getstring(Loaded(file).d, <<Lower[section], Lower[key]>>)

\* KeyVal of GetProfileString() and GetProfileInteger(): what it was when the key or
\* the file is not to be read, though an integer that is not there is 0.
GetProfileString(file, section, key, old) ==
  IF Readable(file) /\ Lookup(file, section, key) # NotThere
  THEN Lookup(file, section, key) ELSE old

strtol(val) == IF val = <<>> THEN 0 ELSE ToInt[val[1]]

GetProfileInteger(file, section, key, old) ==
  IF ~Readable(file) THEN old
  ELSE IF Lookup(file, section, key) = NotThere THEN 0
  ELSE strtol(Lookup(file, section, key))

------------------------------------------------------------------------------
(* iniparser_dump_ini()                                                    *)

IsSection(e) == Len(e) = 1

\* Mutant: one slot too few.
SlotsShort(d) == [k \in 1..d.size-1 |-> d.slot[k-1]]

Slots(d) == [k \in 1..d.size |-> d.slot[k-1]]

IniLine(form, name, val) == [form |-> form, name |-> name, val |-> val, more |-> FALSE]
KeyLine(t) == IniLine("plain", t.key[2], IF t.val = NoValue THEN <<>> ELSE t.val)

\* The keys of a section in the order of their slots, holes left out; the sections in that
\* of theirs (iniparser_getsecname()).  Keys without one are not saved with them.
KeysOf(t, s) ==
  IF t.key # NoValue /\ ~IsSection(t.key) /\ t.key[1] = s THEN <<KeyLine(t)>> ELSE <<>>

iniparser_dumpsection_ini(d, s) ==
  <<IniLine("section", s, <<>>)>> \o FlattenSeq([k \in 1..Len(Slots(d)) |-> KeysOf(Slots(d)[k], s)])

SectionAt(d, t) ==
  IF t.key # NoValue /\ IsSection(t.key) THEN iniparser_dumpsection_ini(d, t.key[1]) ELSE <<>>

iniparser_dump_ini(d) ==
  FlattenSeq([k \in 1..Len(Slots(d)) |-> SectionAt(d, Slots(d)[k])])

------------------------------------------------------------------------------
(* GLib                                                                    *)

\* g_key_file_load_from_file() stops at the first line it does not take, and its
\* caller goes on with what was read until then.
GlibTakes(file, k) ==
  /\ file[k].form \in {"blank", "hash", "section", "plain", "quoted"}
  /\ file[k].form \in {"plain", "quoted"} => \E j \in 1..k-1 : file[j].form = "section"
GlibReads(file) == \A k \in 1..Len(file) : GlibTakes(file, k)
GlibLoad(file) ==
  LET bad == {k \in 1..Len(file) : ~GlibTakes(file, k)}
  IN IF bad = {} THEN file ELSE SubSeq(file, 1, Min(bad) - 1)

\* g_key_file_set_value(): in its group, in the place of the old value or at the end.
GroupOf(file, k) ==
  LET heads == {j \in 1..k : file[j].form = "section"}
  IN IF heads = {} THEN NoSection ELSE file[Max(heads)].name

\* Mutant: a key that is not there goes to the end of the file.
SetValueAtEnd(file, group, key, val) ==
  LET mine == {k \in 1..Len(file) : GroupOf(file, k) = group}
      old == {k \in mine : file[k].form \in {"plain", "quoted"} /\ file[k].name = key}
  IN IF old # {} THEN [file EXCEPT ![Max(old)] = IniLine("plain", key, val)]
     ELSE file \o <<IniLine("plain", key, val)>>

SetValue(file, group, key, val) ==
  LET mine == {k \in 1..Len(file) : GroupOf(file, k) = group}
      old == {k \in mine : file[k].form \in {"plain", "quoted"} /\ file[k].name = key}
  IN IF old # {} THEN [file EXCEPT ![Max(old)] = IniLine("plain", key, val)]
     ELSE IF mine # {} THEN InsertAt(file, Max(mine) + 1, IniLine("plain", key, val))
     ELSE file \o <<IniLine("section", group, <<>>), IniLine("plain", key, val)>>
==============================================================================
