----------------------------- MODULE Configuration ----------------------------
(***************************************************************************)
(* A dictionary in use, and any text as a configuration file: what they    *)
(* are to their readers.                                                   *)
(***************************************************************************)
EXTENDS IniFile

CONSTANTS
  TextLines,     \* the lines texts are made of
  DictKeys, DictValues,   \* what the dictionary in use holds
  MaxText        \* bound

ConfigurationConstants ==
  IniConstants /\ DictKeys \subseteq Entries /\ DictValues \subseteq Values /\ TextLines \subseteq Lines

VARIABLES dict, text

ConfigurationInit == dict = D!dictionary_new /\ text = <<>>

------------------------------------------------------------------------------
(* A client of the dictionary, a writer of texts                           *)

Set == \E k \in DictKeys, v \in DictValues \cup {NoValue} : dict' = D!dictionary_set(dict, k, v)
Unset == \E k \in DictKeys : dict' = D!dictionary_unset(dict, k)

AddLine == Len(text) < MaxText /\ \E l \in TextLines : text' = Append(text, l)

ConfigurationNext ==
  \/ text = <<>> /\ (Set \/ Unset) /\ UNCHANGED text
  \/ dict = D!dictionary_new /\ AddLine /\ UNCHANGED dict

ConfigurationSpec == ConfigurationInit /\ [][ConfigurationNext]_<<dict, text>>

------------------------------------------------------------------------------
(* Properties                                                              *)

\* Each slot that is taken is counted and no key is there twice, so the search for a
\* hole ends ("because d->n < d->size this will necessarily terminate").
CountsEntries ==
  /\ dict.n = Cardinality({i \in 0..dict.size-1 : dict.slot[i].key # NoValue})
  /\ dict.n = Cardinality(D!Keys(dict))

\* Setting or removing a key changes what is read under that key and under no other,
\* whatever was removed before, whatever collides and however the table grew.
IsMap ==
  [][LET m == D!Map(dict)
         w == D!Map(dict)'
     IN \A k \in DictKeys :
          /\ \A v \in DictValues \cup {NoValue} :
               dict' = D!dictionary_set(dict, k, v) =>
                 w = [x \in DOMAIN m \cup {k} |-> IF x = k THEN v ELSE m[x]]
          /\ dict' = D!dictionary_unset(dict, k) => w = [x \in DOMAIN m \ {k} |-> m[x]]]_dict

\* The section and the key of a line that stands for itself; what it says of the key.
SectionOf(k) ==
  LET heads == {j \in 1..k : text[j].form = "section"}
  IN IF heads = {} THEN NoSection ELSE Lower[text[Max(heads)].name]
Says(k, s, key) ==
  text[k].form \in {"plain", "quoted"} /\ SectionOf(k) = s /\ Lower[text[k].name] = Lower[key]
Said(k) == IF text[k].form = "quoted" THEN text[k].val ELSE UpToComment(text[k].val)

\* A reader gets what the last line says of the key, in the section or sections of that
\* name, in upper or lower case; nothing if any line is not understood.
ReadsLastLine ==
  (\A k \in 1..Len(text) : ~text[k].more) =>
    \A s \in Names, key \in Names :
      LET says == {k \in 1..Len(text) : Says(k, Lower[s], key)}
      IN GetProfileString(text, s, key, NotThere) =
           IF says = {} \/ \E k \in 1..Len(text) : text[k].form \in {"junk", "long"}
           THEN NotThere ELSE Said(Max(says))

\* What iniparser_dump_ini() saves is a "loadable ini file" that reads the same, as long
\* as keys have a section and no value a comment mark.
Saveable(d) ==
  \A k \in D!Keys(d) :
    /\ ~IsSection(k) => k[1] # NoSection
    /\ D!Map(d)[k] # NoValue => UpToComment(D!Map(d)[k]) = D!Map(d)[k]
DumpReloads ==
  LET d == Loaded(text).d
         saved == iniparser_dump_ini(d)
  IN Readable(text) /\ Saveable(d) => Readable(saved) /\ D!Map(Loaded(saved).d) = D!Map(d)

\* The settings a thread reads are those of the file, and what the table is told, it keeps.
SettingsRead == IsMap /\ [](CountsEntries /\ ReadsLastLine /\ DumpReloads)
==============================================================================
