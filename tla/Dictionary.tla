------------------------------- MODULE Dictionary -----------------------------
(***************************************************************************)
(* dictionary.c: the table the parser of the configuration file fills.     *)
(* Entries are found by hash and key; removed ones leave holes.            *)
(***************************************************************************)
EXTENDS Integers, FiniteSets, FiniteSetsExt

CONSTANTS
  Key, Value,
  Hash,          \* Hash[k]: dictionary_hash(), which may collide
  DictMinSize,   \* DICTMINSZ
  NULL

DictionaryConstants ==
  /\ DictMinSize \in Nat \ {0}
  /\ \A k \in Key : Hash[k] \in Nat
  /\ NULL \notin Key /\ NULL \notin Value

\* A dictionary is a record [n, size, slot], a slot [key, val, hash].
Hole == [key |-> NULL, val |-> NULL, hash |-> 0]

dictionary_new == [n |-> 0, size |-> DictMinSize, slot |-> [i \in 0..DictMinSize-1 |-> Hole]]

\* Mutant: the hash is taken for the key.
FindByHash(d, k) ==
  {i \in 0..d.size-1 : d.slot[i].key # NULL /\ d.slot[i].hash = Hash[k]}

Find(d, k) ==
  {i \in 0..d.size-1 : d.slot[i].key # NULL /\ d.slot[i].hash = Hash[k] /\ d.slot[i].key = k}

dictionary_get(d, k, def) == IF Find(d, k) = {} THEN def ELSE d.slot[Min(Find(d, k))].val

dictionary_grow(d) ==
  [d EXCEPT !.size = 2 * @,
            !.slot = [i \in 0..2*d.size-1 |-> IF i < d.size THEN d.slot[i] ELSE Hole]]

\* The first hole from slot n on, past the end from slot 0.
FirstHole(d) ==
  LET holes == {i \in 0..d.size-1 : d.slot[i].key = NULL}
      after == {i \in holes : i >= d.n}
  IN Min(IF after # {} THEN after ELSE holes)

Insert(d, k, v) ==
  [d EXCEPT !.slot[FirstHole(d)] = [key |-> k, val |-> v, hash |-> Hash[k]], !.n = @ + 1]

dictionary_set(d, k, v) ==
  IF Find(d, k) # {} THEN [d EXCEPT !.slot[Min(Find(d, k))].val = v]
  ELSE Insert(IF d.n = d.size THEN dictionary_grow(d) ELSE d, k, v)

\* Mutant: the entry is still counted.
dictionary_unset_counted(d, k) ==
  IF Find(d, k) = {} THEN d
  ELSE [d EXCEPT !.slot[Min(Find(d, k))] = Hole]

dictionary_unset(d, k) ==
  IF Find(d, k) = {} THEN d
  ELSE [d EXCEPT !.slot[Min(Find(d, k))] = Hole, !.n = @ - 1]

Keys(d) == {d.slot[i].key : i \in 0..d.size-1} \ {NULL}
Map(d) == [k \in Keys(d) |-> dictionary_get(d, k, NULL)]
==============================================================================
