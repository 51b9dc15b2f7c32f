----------------------------- MODULE JsonProofs ------------------------------
(***************************************************************************)
(* The JSON of the UDP server.                                             *)
(*                                                                         *)
(* The two parsers of rapidjson go together: the state and the stack of    *)
(* the iterative one are a function of the call stack of the other, its    *)
(* frames, and remain so with every token.                                 *)
(*                                                                         *)
(* What has been read so far is laid out along the frames: each has a part *)
(* of the document, and the text of it, spelled out, is a part of the text *)
(* that was read.  Spelling a value out takes as many steps as it is deep, *)
(* so a text becomes another one in so many steps; texts one behind the    *)
(* other become what each becomes.  At the end of a compound its part of   *)
(* the document becomes a value, and the text of it stays.                 *)
(*                                                                         *)
(* A string is read back from its escapes one character after the other.   *)
(* A number is read as an integer by stages, each of which takes digits    *)
(* while the value stays within its limit.                                 *)
(*                                                                         *)
(* The Writer's levels tell where the parser stands that reads what it     *)
(* writes: a level whose count is odd is an object between a name and its  *)
(* value.  So what the Writer puts next may come next.                     *)
(*                                                                         *)
(* The first lemmas, up to those on sequences of whatever, are those of    *)
(* ServicesProofs: the prover takes all that is in scope along with each   *)
(* step, so that two modules are checked faster than one that extends the  *)
(* other.                                                                  *)
(***************************************************************************)
EXTENDS Json, SequenceTheorems, FiniteSetTheorems, WellFoundedInduction, TLAPS

------------------------------------------------------------------------------
(* Induction over numbers, by a least counterexample                        *)

Less == OpToRel(<, Nat)

LEMMA LessWellFounded == IsWellFoundedOn(Less, Nat)
  BY NatLessThanWellFounded DEF Less

LEMMA LessIs == Less = {p \in Nat \X Nat : p[1] < p[2]}
  BY DEF Less, OpToRel

LEMMA Least ==
  ASSUME NEW T \in SUBSET Nat, T # {}
  PROVE  \E n \in T : \A m \in T : n <= m
<1>1. PICK n \in T : \A m \in T : <<m, n>> \notin Less
  BY LessWellFounded, WFMin
<1>2. ASSUME NEW m \in T PROVE n <= m
  <2>1. ~(m < n)
    BY <1>1, LessIs
  <2>2. QED
    BY <2>1
<1>3. QED
  BY <1>2

\* A set of numbers with 0 and the successor of each of its members has them all.
LEMMA Induction ==
  ASSUME NEW T, 0 \in T, \A n \in Nat : n \in T => n + 1 \in T
  PROVE  Nat \subseteq T
<1> SUFFICES ASSUME Nat \ T # {} PROVE FALSE
  OBVIOUS
<1>1. PICK n \in Nat \ T : \A m \in Nat \ T : n <= m
  BY Least
<1>2. n # 0 /\ n - 1 \in Nat
  BY <1>1
<1>3. n - 1 \in T
  BY <1>1, <1>2
<1>4. (n - 1) + 1 \in T
  BY <1>2, <1>3
<1>5. QED
  BY <1>4

------------------------------------------------------------------------------
(* Sequences laid end to end                                                *)

\* f[k] holds the contents of the first k of n buffers.
Flattens(f, seqs, n) ==
  f = [k \in 1..n |-> IF k = 1 THEN seqs[k] ELSE f[k - 1] \o seqs[k]]

LEMMA FlattenIs ==
  ASSUME NEW seqs
  PROVE  FlattenSeq(seqs) = IF Len(seqs) = 0 THEN seqs
                            ELSE (CHOOSE f : Flattens(f, seqs, Len(seqs)))[Len(seqs)]
  BY Zenon DEF FlattenSeq, Flattens

LEMMA FlattensExists ==
  ASSUME NEW seqs
  PROVE  \A n \in Nat : \E f : Flattens(f, seqs, n)
<1> DEFINE T == {n \in Nat : \E f : Flattens(f, seqs, n)}
<1>1. 0 \in T
  <2>1. Flattens([k \in {} |-> <<>>], seqs, 0)
    BY DEF Flattens
  <2>2. QED
    BY <2>1
<1>2. ASSUME NEW n \in Nat, n \in T PROVE n + 1 \in T
  <2>1. PICK f : Flattens(f, seqs, n)
    BY <1>2
  <2> DEFINE value == IF n = 0 THEN seqs[1] ELSE f[n] \o seqs[n + 1]
             g == [k \in 1..(n + 1) |-> IF k = n + 1 THEN value ELSE f[k]]
  <2>2. ASSUME NEW k \in 1..(n + 1)
        PROVE  g[k] = IF k = 1 THEN seqs[k] ELSE g[k - 1] \o seqs[k]
    <3>1. CASE k = n + 1
      BY <3>1
    <3>2. CASE k # n + 1
      <4>1. k \in 1..n /\ (k # 1 => k - 1 \in 1..n)
        BY <3>2
      <4>2. f[k] = IF k = 1 THEN seqs[k] ELSE f[k - 1] \o seqs[k]
        BY <2>1, <4>1, Zenon DEF Flattens
      <4>3. g[k] = f[k] /\ (k # 1 => g[k - 1] = f[k - 1])
        BY <4>1
      <4>4. QED
        BY <4>2, <4>3
    <3>3. QED
      BY <3>1, <3>2
  <2>3. Flattens(g, seqs, n + 1)
    BY <2>2, Zenon DEF Flattens
  <2>4. QED
    BY <2>3
<1> HIDE DEF T
<1>3. Nat \subseteq T
  BY <1>1, <1>2, Induction
<1>4. QED
  BY <1>3 DEF T

\* What the k-th entry is; there is only one such function.
LEMMA FlattensAt ==
  ASSUME NEW seqs, NEW n \in Nat, NEW f, Flattens(f, seqs, n), NEW k \in 1..n
  PROVE  f[k] = IF k = 1 THEN seqs[k] ELSE f[k - 1] \o seqs[k]
  BY Zenon DEF Flattens

\* Two sequences with the same beginning flatten to the same there.
LEMMA FlattensSame ==
  ASSUME NEW s, NEW t, NEW m \in Nat, NEW n \in Nat, NEW f, NEW g,
         Flattens(f, s, m), Flattens(g, t, n),
         m <= n, \A k \in 1..m : s[k] = t[k]
  PROVE  \A k \in 1..m : f[k] = g[k]
<1> DEFINE T == {k \in Nat : k \in 1..m => f[k] = g[k]}
<1>1. 0 \in T
  OBVIOUS
<1>2. ASSUME NEW k \in Nat, k \in T PROVE k + 1 \in T
  <2> SUFFICES ASSUME k + 1 \in 1..m PROVE f[k + 1] = g[k + 1]
    OBVIOUS
  <2>1. k + 1 \in 1..m /\ k + 1 \in 1..n /\ s[k + 1] = t[k + 1]
    OBVIOUS
  <2>2. /\ f[k + 1] = IF k + 1 = 1 THEN s[k + 1] ELSE f[(k + 1) - 1] \o s[k + 1]
        /\ g[k + 1] = IF k + 1 = 1 THEN t[k + 1] ELSE g[(k + 1) - 1] \o t[k + 1]
    BY <2>1, FlattensAt
  <2>3. (k + 1) - 1 = k /\ (k + 1 # 1 => f[k] = g[k])
    BY <1>2
  <2>4. QED
    BY <2>1, <2>2, <2>3
<1> HIDE DEF T
<1>3. Nat \subseteq T
  BY <1>1, <1>2, Induction
<1>4. QED
  BY <1>3 DEF T

\* The entries of a flattening function are sequences.
LEMMA FlattensType ==
  ASSUME NEW S, NEW s \in Seq(Seq(S)), NEW f, Flattens(f, s, Len(s))
  PROVE  \A k \in 1..Len(s) : f[k] \in Seq(S)
<1> DEFINE T == {k \in Nat : k \in 1..Len(s) => f[k] \in Seq(S)}
<1>1. 0 \in T
  OBVIOUS
<1>2. ASSUME NEW k \in Nat, k \in T PROVE k + 1 \in T
  <2> SUFFICES ASSUME k + 1 \in 1..Len(s) PROVE f[k + 1] \in Seq(S)
    OBVIOUS
  <2>1. s[k + 1] \in Seq(S)
    OBVIOUS
  <2>2. f[k + 1] = IF k + 1 = 1 THEN s[k + 1] ELSE f[(k + 1) - 1] \o s[k + 1]
    BY FlattensAt
  <2>3. (k + 1) - 1 = k /\ (k + 1 # 1 => f[k] \in Seq(S))
    BY <1>2
  <2>4. QED
    BY <2>1, <2>2, <2>3
<1> HIDE DEF T
<1>3. Nat \subseteq T
  BY <1>1, <1>2, Induction
<1>4. QED
  BY <1>3 DEF T

\* FlattenSeq by such a function.
LEMMA FlattenBy ==
  ASSUME NEW S, NEW s \in Seq(Seq(S)), s # <<>>
  PROVE  \E f : Flattens(f, s, Len(s)) /\ FlattenSeq(s) = f[Len(s)]
<1>1. Len(s) \in Nat /\ Len(s) # 0
  OBVIOUS
<1>2. \E f : Flattens(f, s, Len(s))
  BY <1>1, FlattensExists
<1>3. Flattens(CHOOSE f : Flattens(f, s, Len(s)), s, Len(s))
  BY <1>2
<1>4. QED
  BY <1>1, <1>3, FlattenIs

LEMMA FlattenEmpty == FlattenSeq(<<>>) = <<>>
  BY FlattenIs

LEMMA FlattenType ==
  ASSUME NEW S, NEW s \in Seq(Seq(S))
  PROVE  FlattenSeq(s) \in Seq(S)
<1>1. CASE s = <<>>
  <2>1. FlattenSeq(s) = <<>>
    BY <1>1, FlattenEmpty
  <2>2. QED
    BY <2>1
<1>2. CASE s # <<>>
  <2>1. PICK f : Flattens(f, s, Len(s)) /\ FlattenSeq(s) = f[Len(s)]
    BY <1>2, FlattenBy
  <2>2. Len(s) \in 1..Len(s)
    BY <1>2
  <2>3. QED
    BY <2>1, <2>2, FlattensType
<1>3. QED
  BY <1>1, <1>2

\* One more buffer.
LEMMA FlattenAppend ==
  ASSUME NEW S, NEW s \in Seq(Seq(S)), NEW x \in Seq(S)
  PROVE  FlattenSeq(Append(s, x)) = FlattenSeq(s) \o x
<1> DEFINE t == Append(s, x)
<1>1. /\ t \in Seq(Seq(S)) /\ t # <<>> /\ Len(t) = Len(s) + 1 /\ Len(s) \in Nat
      /\ t[Len(t)] = x /\ \A k \in 1..Len(s) : t[k] = s[k]
  <2>1. ASSUME NEW B, s \in Seq(B), x \in B
        PROVE  /\ t \in Seq(B) /\ t # <<>> /\ Len(t) = Len(s) + 1 /\ Len(s) \in Nat
               /\ t[Len(t)] = x /\ \A k \in 1..Len(s) : t[k] = s[k]
    BY <2>1
  <2>2. QED
    BY <2>1
<1> HIDE DEF t
<1>2. PICK g : Flattens(g, t, Len(t)) /\ FlattenSeq(t) = g[Len(t)]
  BY <1>1, FlattenBy
<1>3. Len(t) \in Nat /\ Len(t) \in 1..Len(t)
  BY <1>1
<1>4. g[Len(t)] = IF Len(t) = 1 THEN x ELSE g[Len(t) - 1] \o x
  BY <1>1, <1>2, <1>3, FlattensAt
<1>5. CASE s = <<>>
  <2>1. FlattenSeq(s) = <<>> /\ Len(t) = 1
    BY <1>1, <1>5, FlattenEmpty
  <2>2. QED
    BY <1>2, <1>4, <2>1 DEF t
<1>6. CASE s # <<>>
  <2>1. PICK f : Flattens(f, s, Len(s)) /\ FlattenSeq(s) = f[Len(s)]
    BY <1>6, FlattenBy
  <2>2. Len(s) \in 1..Len(s) /\ Len(s) <= Len(t)
    BY <1>1, <1>6
  <2>3. \A k \in 1..Len(s) : f[k] = g[k]
    <3>1. ASSUME NEW m \in Nat, NEW n \in Nat, m = Len(s), n = Len(t)
          PROVE  \A k \in 1..m : f[k] = g[k]
      <4>1. Flattens(f, s, m) /\ Flattens(g, t, n)
        BY <1>2, <2>1, <3>1
      <4>2. m <= n /\ \A k \in 1..m : s[k] = t[k]
        BY <1>1, <3>1
      <4>3. QED
        BY <4>1, <4>2, FlattensSame
    <3>2. QED
      BY <1>1, <1>3, <3>1
  <2>4. Len(t) - 1 = Len(s) /\ Len(t) # 1
    BY <1>1, <2>2
  <2>5. QED
    BY <1>2, <1>4, <2>1, <2>2, <2>3, <2>4 DEF t
<1>7. QED
  BY <1>5, <1>6

\* The contents of buffers, and of more of them.
LEMMA FlattenConcat ==
  ASSUME NEW S, NEW s \in Seq(Seq(S)), NEW t \in Seq(Seq(S))
  PROVE  FlattenSeq(s \o t) = FlattenSeq(s) \o FlattenSeq(t)
<1> DEFINE T == {n \in Nat : \A u \in Seq(Seq(S)) :
                   Len(u) = n => FlattenSeq(s \o u) = FlattenSeq(s) \o FlattenSeq(u)}
<1>1. 0 \in T
  <2> SUFFICES ASSUME NEW u \in Seq(Seq(S)), Len(u) = 0
               PROVE  FlattenSeq(s \o u) = FlattenSeq(s) \o FlattenSeq(u)
    OBVIOUS
  <2>1. u = <<>> /\ s \o u = s /\ FlattenSeq(s) \o <<>> = FlattenSeq(s)
    BY FlattenType
  <2>2. QED
    BY <2>1, FlattenEmpty
<1>2. ASSUME NEW n \in Nat, n \in T PROVE n + 1 \in T
  <2> SUFFICES ASSUME NEW u \in Seq(Seq(S)), Len(u) = n + 1
               PROVE  FlattenSeq(s \o u) = FlattenSeq(s) \o FlattenSeq(u)
    OBVIOUS
  <2> DEFINE B == Seq(S)
  <2>0. s \in Seq(B) /\ u \in Seq(B) /\ u # <<>>
    OBVIOUS
  <2> HIDE DEF B
  <2>1. PICK v \in Seq(B), x \in B : u = Append(v, x)
    BY <2>0, SequenceEmptyOrAppend
  <2>2. Len(v) = n /\ s \o v \in Seq(B) /\ s \o u = Append(s \o v, x)
    BY <2>0, <2>1
  <2> USE DEF B
  <2>3. FlattenSeq(s \o v) = FlattenSeq(s) \o FlattenSeq(v)
    BY <1>2, <2>2
  <2>4. FlattenSeq(s \o u) = (FlattenSeq(s) \o FlattenSeq(v)) \o x
    BY <2>2, <2>3, FlattenAppend
  <2>5. FlattenSeq(u) = FlattenSeq(v) \o x
    BY <2>1, FlattenAppend
  <2>6. FlattenSeq(s) \in Seq(S) /\ FlattenSeq(v) \in Seq(S) /\ x \in Seq(S)
    BY FlattenType
  <2>7. (FlattenSeq(s) \o FlattenSeq(v)) \o x = FlattenSeq(s) \o (FlattenSeq(v) \o x)
    <3>1. ASSUME NEW p \in Seq(S), NEW q \in Seq(S), NEW r \in Seq(S)
          PROVE  (p \o q) \o r = p \o (q \o r)
      BY ConcatAssociative, SMTT(60)
    <3>2. QED
      BY <2>6, <3>1
  <2>8. QED
    BY <2>4, <2>5, <2>7
<1> HIDE DEF T
<1>3. Nat \subseteq T
  BY <1>1, <1>2, Induction
<1>4. Len(t) \in T
  BY <1>3
<1>5. QED
  BY <1>4 DEF T

LEMMA FlattenOne ==
  ASSUME NEW S, NEW x \in Seq(S)
  PROVE  FlattenSeq(<<x>>) = x
<1>1. <<x>> = Append(<<>>, x) /\ <<>> \in Seq(Seq(S))
  OBVIOUS
<1>2. FlattenSeq(<<x>>) = FlattenSeq(<<>>) \o x
  BY <1>1, FlattenAppend
<1>3. <<>> \o x = x
  OBVIOUS
<1>4. QED
  BY <1>2, <1>3, FlattenEmpty
------------------------------------------------------------------------------
(* Numbers and digits                                                       *)

\* The smaller of two numbers.
LEMMA MinIs ==
  ASSUME NEW a \in Nat, NEW b \in Nat
  PROVE  Min({a, b}) = IF a <= b THEN a ELSE b
<1> DEFINE m == IF a <= b THEN a ELSE b
<1>1. m \in {a, b} /\ \A y \in {a, b} : m <= y
  OBVIOUS
<1>2. \A x \in {a, b} : (\A y \in {a, b} : x <= y) => x = m
  OBVIOUS
<1> HIDE DEF m
<1>3. Min({a, b}) = m
  BY <1>1, <1>2 DEF Min
<1>4. QED
  BY <1>3 DEF m

\* The digits are different characters, and none is a blank.
LEMMA DigitsDiffer ==
  /\ DOMAIN HexDigits = 1..16 /\ DOMAIN UpperDigits = 1..6
  /\ \A a, b \in 1..16 : HexDigits[a] = HexDigits[b] => a = b
  /\ \A a \in 1..16, b \in 1..6 : HexDigits[a] # UpperDigits[b]
<1>1. HexDigits[1] = "0" /\ HexDigits[2] = "1" /\ HexDigits[3] = "2" /\ HexDigits[4] = "3"
      /\ HexDigits[5] = "4" /\ HexDigits[6] = "5" /\ HexDigits[7] = "6" /\ HexDigits[8] = "7"
      /\ HexDigits[9] = "8" /\ HexDigits[10] = "9" /\ HexDigits[11] = "a" /\ HexDigits[12] = "b"
      /\ HexDigits[13] = "c" /\ HexDigits[14] = "d" /\ HexDigits[15] = "e" /\ HexDigits[16] = "f"
  BY DEF HexDigits
<1>2. UpperDigits[1] = "A" /\ UpperDigits[2] = "B" /\ UpperDigits[3] = "C"
      /\ UpperDigits[4] = "D" /\ UpperDigits[5] = "E" /\ UpperDigits[6] = "F"
  BY DEF UpperDigits
<1>3. 1..16 = {1, 2, 3, 4, 5, 6, 7, 8, 9, 10, 11, 12, 13, 14, 15, 16} /\ 1..6 = {1, 2, 3, 4, 5, 6}
  OBVIOUS
<1>4. DOMAIN HexDigits = 1..16 /\ DOMAIN UpperDigits = 1..6
  BY DEF HexDigits, UpperDigits
<1>6. \A a, b \in 1..16 : HexDigits[a] = HexDigits[b] => a = b
  BY <1>1, <1>3, SMTT(60)
<1>7. \A a \in 1..16, b \in 1..6 : HexDigits[a] # UpperDigits[b]
  BY <1>1, <1>2, <1>3, SMTT(60)
<1>8. QED
  BY <1>4, <1>6, <1>7

\* Nor is a line feed or the end of a string.
LEMMA NotDigits ==
  /\ {Blank, "LF", "NUL"} \cap Range(HexDigits) = {}
  /\ {Blank, "LF", "NUL"} \cap Range(UpperDigits) = {}
<1>1. Range(HexDigits) = {"0", "1", "2", "3", "4", "5", "6", "7", "8", "9", "a", "b", "c", "d", "e", "f"}
  BY SMTT(60) DEF HexDigits, Range
<1>2. Range(UpperDigits) = {"A", "B", "C", "D", "E", "F"}
  BY DEF UpperDigits, Range
<1>3. QED
  BY <1>1, <1>2 DEF Blank

\* The value of a digit of either case is its place.
LEMMA ValueIs ==
  ASSUME NEW c \in Range(HexDigits) \cup Range(UpperDigits)
  PROVE  /\ hex_to_bin(c) \in 0..15
         /\ HexDigits[hex_to_bin(c) + 1] = c \/ (hex_to_bin(c) >= 10 /\ UpperDigits[hex_to_bin(c) - 9] = c)
<1> DEFINE Is(n) == HexDigits[n + 1] = c \/ (n >= 10 /\ UpperDigits[n - 9] = c)
<1>1. \E n \in 0..15 : Is(n)
  <2>1. CASE c \in Range(HexDigits)
    <3>1. PICK a \in 1..16 : HexDigits[a] = c
      BY <2>1, DigitsDiffer DEF Range
    <3>2. a - 1 \in 0..15 /\ (a - 1) + 1 = a
      OBVIOUS
    <3>3. QED
      BY <3>1, <3>2
  <2>2. CASE c \in Range(UpperDigits)
    <3>1. PICK b \in 1..6 : UpperDigits[b] = c
      BY <2>2, DigitsDiffer DEF Range
    <3>2. b + 9 \in 0..15 /\ b + 9 >= 10 /\ (b + 9) - 9 = b
      OBVIOUS
    <3>3. QED
      BY <3>1, <3>2
  <2>3. QED
    BY <2>1, <2>2
<1>2. hex_to_bin(c) = CHOOSE n \in 0..15 : Is(n)
  BY Zenon DEF hex_to_bin, HexValue
<1> HIDE DEF Is
<1>3. hex_to_bin(c) \in 0..15 /\ Is(hex_to_bin(c))
  BY <1>1, <1>2
<1>4. QED
  BY <1>3 DEF Is

\* A digit has its place as its value; what is between words has none.
LEMMA DigitIs == \A n \in 0..15 : hex_to_bin(HexDigits[n + 1]) = n /\ ~IsSpace(HexDigits[n + 1])
<1> SUFFICES ASSUME NEW n \in 0..15 PROVE hex_to_bin(HexDigits[n + 1]) = n /\ ~IsSpace(HexDigits[n + 1])
  OBVIOUS
<1>1. n + 1 \in 1..16
  OBVIOUS
<1> DEFINE c == HexDigits[n + 1]
           v == hex_to_bin(c)
<1>2. c \in Range(HexDigits)
  BY <1>1, DigitsDiffer DEF Range
<1>3. ~IsSpace(c)
  BY <1>2, NotDigits DEF IsSpace
<1>4. v \in 0..15 /\ (HexDigits[v + 1] = c \/ (v >= 10 /\ UpperDigits[v - 9] = c))
  BY <1>2, ValueIs
<1> HIDE DEF v
<1>5. v + 1 \in 1..16 /\ (v >= 10 => v - 9 \in 1..6)
  BY <1>4
<1>6. HexDigits[v + 1] = HexDigits[n + 1]
  BY <1>1, <1>4, <1>5, DigitsDiffer
<1>7. v + 1 = n + 1
  BY <1>1, <1>5, <1>6, DigitsDiffer
<1>8. v = n
  BY <1>4, <1>7
<1>9. QED
  BY <1>3, <1>8 DEF v

------------------------------------------------------------------------------
(* Sequences                                                                *)

\* Whatever a sequence is one of.
Sequence(s) == \E S : s \in Seq(S)

\* A sequence with an element more.
LEMMA AppendIs ==
  ASSUME NEW S, NEW s \in Seq(S), NEW x \in S
  PROVE  /\ Append(s, x) \in Seq(S) /\ Append(s, x) # <<>> /\ Len(s) \in Nat
         /\ Len(Append(s, x)) = Len(s) + 1 /\ Append(s, x)[Len(s) + 1] = x
         /\ \A j \in 1..Len(s) : Append(s, x)[j] = s[j]
  OBVIOUS

\* The elements of a sequence.
LEMMA ElementsIn ==
  ASSUME NEW S, NEW s \in Seq(S) PROVE Len(s) \in Nat /\ \A j \in 1..Len(s) : s[j] \in S
  OBVIOUS

\* One sequence behind another.
LEMMA ConcatIs ==
  ASSUME NEW S, NEW p \in Seq(S), NEW q \in Seq(S)
  PROVE  /\ p \o q \in Seq(S) /\ Len(p \o q) = Len(p) + Len(q)
         /\ \A k \in 1..Len(p) : (p \o q)[k] = p[k]
         /\ \A k \in 1..Len(q) : (p \o q)[Len(p) + k] = q[k]
  OBVIOUS

\* A byte more of a sequence.
LEMMA PrefixNext ==
  ASSUME NEW S, NEW s \in Seq(S), NEW j \in 0..(Len(s) - 1)
  PROVE  SubSeq(s, 1, j + 1) = Append(SubSeq(s, 1, j), s[j + 1])
<1> DEFINE p == SubSeq(s, 1, j)
           q == SubSeq(s, 1, j + 1)
           x == s[j + 1]
           h == Append(p, x)
<1>1. Len(s) \in Nat /\ j \in Nat /\ j + 1 <= Len(s) /\ \A k \in 1..Len(s) : s[k] \in S
  BY ElementsIn
<1>2. p \in Seq(S) /\ Len(p) = j /\ \A k \in 1..j : p[k] = s[k]
  <2>1. \A k \in 1..j : s[k] \in S
    BY <1>1
  <2>2. p \in Seq(S) /\ Len(p) = (IF 1 <= j THEN j - 1 + 1 ELSE 0) /\ \A k \in 1..(j - 1 + 1) : p[k] = s[1 + k - 1]
    BY <1>1, <2>1, SubSeqProperties
  <2> HIDE DEF p
  <2>3. QED
    BY <1>1, <2>2
<1>3. q \in Seq(S) /\ Len(q) = j + 1 /\ \A k \in 1..(j + 1) : q[k] = s[k]
  <2>1. \A k \in 1..(j + 1) : s[k] \in S
    BY <1>1
  <2>2. q \in Seq(S) /\ Len(q) = (IF 1 <= j + 1 THEN j + 1 - 1 + 1 ELSE 0) /\ \A k \in 1..(j + 1 - 1 + 1) : q[k] = s[1 + k - 1]
    BY <1>1, <2>1, SubSeqProperties
  <2> HIDE DEF q
  <2>3. QED
    BY <1>1, <2>2, SMTT(30)
<1>4. x \in S
  BY <1>1
<1> HIDE DEF p, q, x
<1>5. h \in Seq(S) /\ Len(h) = j + 1 /\ h[j + 1] = x /\ \A k \in 1..j : h[k] = p[k]
  BY <1>2, <1>4, AppendIs
<1> HIDE DEF h
<1>6. \A k \in 1..Len(q) : q[k] = h[k]
  <2>1. \A k \in 1..Len(q) : k = j + 1 \/ k \in 1..j
    BY <1>1, <1>3
  <2>2. j + 1 \in 1..(j + 1)
    BY <1>1
  <2>3. q[j + 1] = h[j + 1]
    BY <1>3, <1>5, <2>2 DEF x
  <2>4. \A k \in 1..j : k \in 1..(j + 1)
    BY <1>1
  <2>5. \A k \in 1..j : q[k] = h[k]
    BY <1>2, <1>3, <1>5, <2>4
  <2>6. QED
    BY <2>1, <2>3, <2>5
<1>7. q = h
  BY <1>3, <1>5, <1>6, SeqEqual
<1>8. QED
  BY <1>7 DEF p, q, x, h

\* A sequence of some things is one of more things,
LEMMA SeqWiden ==
  ASSUME NEW A, NEW B, A \subseteq B, NEW s \in Seq(A) PROVE s \in Seq(B)
  OBVIOUS

\* and two sequences are sequences of the same things.
LEMMA SeqCommon ==
  ASSUME NEW s, NEW t, Sequence(s), Sequence(t)
  PROVE  \E S : s \in Seq(S) /\ t \in Seq(S)
<1>1. PICK A : s \in Seq(A)
  BY DEF Sequence
<1>2. PICK B : t \in Seq(B)
  BY DEF Sequence
<1>3. s \in Seq(A \cup B) /\ t \in Seq(A \cup B)
  BY <1>1, <1>2, SeqWiden
<1>4. QED
  BY <1>3

\* A sequence with an element more.
LEMMA SeqAppended ==
  ASSUME NEW s, Sequence(s), NEW x
  PROVE  /\ Sequence(Append(s, x)) /\ Len(s) \in Nat /\ Len(Append(s, x)) = Len(s) + 1 /\ Append(s, x) # <<>>
         /\ Append(s, x)[Len(s) + 1] = x /\ \A k \in 1..Len(s) : Append(s, x)[k] = s[k]
         /\ Last(Append(s, x)) = x /\ Front(Append(s, x)) = s
<1>1. PICK S : s \in Seq(S)
  BY DEF Sequence
<1> DEFINE B == S \cup {x}
<1>2. s \in Seq(B) /\ x \in B
  BY <1>1, SeqWiden
<1> HIDE DEF B
<1>3. /\ Append(s, x) \in Seq(B) /\ Len(s) \in Nat /\ Len(Append(s, x)) = Len(s) + 1 /\ Append(s, x) # <<>>
      /\ Append(s, x)[Len(s) + 1] = x /\ \A k \in 1..Len(s) : Append(s, x)[k] = s[k]
  BY <1>2, AppendIs
<1>4. Front(Append(s, x)) = s
  BY <1>2 DEF Front
<1>5. Last(Append(s, x)) = x
  BY <1>3 DEF Last
<1>6. QED
  BY <1>3, <1>4, <1>5 DEF Sequence

\* A sequence of one element.
LEMMA SeqOne ==
  ASSUME NEW x PROVE Sequence(<<x>>) /\ Sequence(<<>>) /\ <<x>> = Append(<<>>, x) /\ Len(<<x>>) = 1 /\ <<x>>[1] = x
<1>1. <<>> \in Seq({x}) /\ <<x>> = Append(<<>>, x) /\ Len(<<x>>) = 1 /\ <<x>>[1] = x
  OBVIOUS
<1>2. <<x>> \in Seq({x})
  BY <1>1, AppendIs
<1>3. QED
  BY <1>1, <1>2 DEF Sequence

\* What is not empty is its front and its last element.
LEMMA SeqParts ==
  ASSUME NEW s, Sequence(s), s # <<>>
  PROVE  Sequence(Front(s)) /\ s = Append(Front(s), Last(s)) /\ Len(s) \in Nat /\ Len(s) >= 1 /\ Len(Front(s)) = Len(s) - 1
<1>1. PICK S : s \in Seq(S)
  BY DEF Sequence
<1>0. Len(s) \in Nat /\ Len(s) >= 1
  BY <1>1
<1>2. Front(s) \in Seq(S) /\ Len(s) \in Nat /\ Len(s) >= 1 /\ Len(Front(s)) = Len(s) - 1
  <2> DEFINE m == Len(s) - 1
  <2>1. m \in Int /\ 1 \in Int /\ \A k \in 1..m : s[k] \in S
    BY <1>0, <1>1, ElementsIn
  <2>2. SubSeq(s, 1, m) \in Seq(S) /\ Len(SubSeq(s, 1, m)) = IF 1 <= m THEN m - 1 + 1 ELSE 0
    BY <2>1, SubSeqProperties
  <2>3. ASSUME NEW l \in Nat, l >= 1 PROVE (IF 1 <= l - 1 THEN l - 1 - 1 + 1 ELSE 0) = l - 1
    BY <2>3
  <2>4. QED
    BY <1>0, <2>2, <2>3, Zenon DEF Front
<1>3. s = Append(Front(s), Last(s))
  BY <1>0, <1>1 DEF Front, Last
<1>4. QED
  BY <1>2, <1>3 DEF Sequence

\* Two sequences with the same elements.
LEMMA SeqSame ==
  ASSUME NEW s, NEW t, Sequence(s), Sequence(t), Len(s) = Len(t), \A k \in 1..Len(s) : s[k] = t[k]
  PROVE  s = t
<1>1. PICK S : s \in Seq(S) /\ t \in Seq(S)
  BY SeqCommon
<1>2. QED
  BY <1>1, SeqEqual

\* A function on 1..n is one.
LEMMA SeqTable ==
  ASSUME NEW n \in Nat, NEW s, s = [k \in 1..n |-> s[k]]
  PROVE  Sequence(s) /\ Len(s) = n
<1> DEFINE S == {s[k] : k \in 1..n}
<1>1. s \in [1..n -> S]
  OBVIOUS
<1>2. s \in Seq(S) /\ Len(s) = n
  BY <1>1
<1>3. QED
  BY <1>2 DEF Sequence

\* One sequence behind another.
LEMMA SeqJoined ==
  ASSUME NEW s, NEW t, Sequence(s), Sequence(t)
  PROVE  /\ Sequence(s \o t) /\ Len(s) \in Nat /\ Len(t) \in Nat /\ Len(s \o t) = Len(s) + Len(t)
         /\ \A k \in 1..Len(s) : (s \o t)[k] = s[k]
         /\ \A k \in 1..Len(t) : (s \o t)[Len(s) + k] = t[k]
<1>1. PICK S : s \in Seq(S) /\ t \in Seq(S)
  BY SeqCommon
<1>2. QED
  BY <1>1, ConcatIs DEF Sequence

\* Nothing behind a sequence, or before it,
LEMMA SeqJoinedEmpty ==
  ASSUME NEW s, Sequence(s) PROVE s \o <<>> = s /\ <<>> \o s = s
  BY ConcatEmptySeq DEF Sequence

\* three of them,
LEMMA SeqJoinedTwice ==
  ASSUME NEW s, NEW t, NEW u, Sequence(s), Sequence(t), Sequence(u)
  PROVE  (s \o t) \o u = s \o (t \o u)
<1>1. PICK S : s \in Seq(S) /\ t \in Seq(S)
  BY SeqCommon
<1>2. PICK B : u \in Seq(B)
  BY DEF Sequence
<1> DEFINE C == S \cup B
<1>3. s \in Seq(C) /\ t \in Seq(C) /\ u \in Seq(C)
  BY <1>1, <1>2, SeqWiden
<1>4. QED
  BY <1>3, ConcatAssociative

\* and one element behind two.
LEMMA SeqJoinedOne ==
  ASSUME NEW s, NEW t, NEW x, Sequence(s), Sequence(t)
  PROVE  s \o <<x>> = Append(s, x) /\ s \o Append(t, x) = Append(s \o t, x)
<1>1. ASSUME NEW u, Sequence(u) PROVE u \o <<x>> = Append(u, x)
  <2>1. PICK S : u \in Seq(S)
    BY <1>1 DEF Sequence
  <2> DEFINE C == S \cup {x}
  <2>2. u \in Seq(C) /\ x \in C
    BY <2>1, SeqWiden
  <2> HIDE DEF C
  <2>3. QED
    BY <2>2
<1>2. s \o (t \o <<x>>) = (s \o t) \o <<x>>
  BY SeqJoinedTwice, SeqOne
<1>3. Sequence(s \o t)
  BY SeqJoined
<1>4. QED
  BY <1>1, <1>2, <1>3

------------------------------------------------------------------------------
(* The two parsers                                                          *)

\* The iterative parser that goes with a recursive one: its state is where the innermost
\* frame is, its stack has the states behind the others and the values they count, without
\* the last one as long as no comma follows.
StateOf(f) ==
  IF f.in = "root" THEN (IF f.at = "first" THEN "Start" ELSE "Finish")
  ELSE IF f.in = "array"
  THEN (IF f.at = "first" THEN "ArrayInitial" ELSE IF f.at = "value" THEN "ElementDelimiter" ELSE "Element")
  ELSE (IF f.at = "first" THEN "ObjectInitial" ELSE IF f.at = "name" THEN "MemberDelimiter"
        ELSE IF f.at = "colon" THEN "MemberKey" ELSE IF f.at = "value" THEN "KeyValueDelimiter"
        ELSE "MemberValue")
Around(in) == IF in = "root" THEN "Start" ELSE IF in = "array" THEN "Element" ELSE "MemberValue"
Commas(f) == IF f.at \in {"behind", "rest"} THEN f.n - 1 ELSE f.n
Entry(f, g) == [state |-> Around(f.in), n |-> Commas(g)]
StackOf(F) == [k \in 1..(Len(F) - 1) |-> Entry(F[k], F[k + 1])]
Mirror(F, doc) == Iterating(StateOf(Last(F)), StackOf(F), doc, Last(F).at = "rest")

\* The frames of a parser that goes on.
IsFrame(f) ==
  /\ f = [in |-> f.in, at |-> f.at, n |-> f.n] /\ f.n \in Nat
  /\ \/ f.in = "root" /\ f.at \in {"first", "behind", "rest"}
     \/ f.in = "array" /\ f.at \in {"first", "value", "behind", "rest"}
     \/ f.in = "object" /\ f.at \in {"first", "name", "colon", "value", "behind", "rest"}
  /\ f.at \in {"behind", "rest"} => f.n >= 1
Awaits(f) ==
  \/ f.in = "root" /\ f.at = "first"
  \/ f.in = "array" /\ f.at \in {"first", "value"}
  \/ f.in = "object" /\ f.at = "value"
FramesFit(F) ==
  /\ Sequence(F) /\ F # <<>>
  /\ \A k \in 1..Len(F) : IsFrame(F[k]) /\ (F[k].in = "root" <=> k = 1) /\ (k < Len(F) => Awaits(F[k]))

\* The stack has an entry for each frame but the innermost.
LEMMA StackIs ==
  ASSUME NEW F, Sequence(F), F # <<>>
  PROVE  Sequence(StackOf(F)) /\ Len(StackOf(F)) = Len(F) - 1
<1>1. Len(F) - 1 \in Nat
  BY SeqParts
<1>2. StackOf(F) = [k \in 1..(Len(F) - 1) |-> StackOf(F)[k]]
  BY Zenon DEF StackOf
<1>3. QED
  BY <1>1, <1>2, SeqTable

\* The root alone has none.
LEMMA StackOne == ASSUME NEW g PROVE StackOf(<<g>>) = <<>>
<1>1. Sequence(<<g>>) /\ <<g>> # <<>> /\ Len(<<g>>) = 1
  BY SeqOne
<1>2. Sequence(StackOf(<<g>>)) /\ Len(StackOf(<<g>>)) = 0
  <2>1. Sequence(StackOf(<<g>>)) /\ Len(StackOf(<<g>>)) = Len(<<g>>) - 1
    BY <1>1, StackIs, Zenon
  <2>2. QED
    BY <1>1, <2>1
<1>3. QED
  BY <1>2 DEF Sequence

\* A frame inside is one entry more.
LEMMA StackGrows ==
  ASSUME NEW F, NEW g, Sequence(F), F # <<>>
  PROVE  StackOf(Append(F, g)) = Append(StackOf(F), Entry(Last(F), g))
<1> DEFINE H == Append(F, g)
           e == Entry(Last(F), g)
           l == Len(F)
<1>1. Sequence(H) /\ H # <<>> /\ l \in Nat /\ l >= 1 /\ Len(H) = l + 1 /\ H[l + 1] = g
      /\ \A k \in 1..l : H[k] = F[k]
  BY SeqAppended, SeqParts
<1>2. Sequence(StackOf(H)) /\ Len(StackOf(H)) = l
  <2>1. Sequence(StackOf(H)) /\ Len(StackOf(H)) = Len(H) - 1
    BY <1>1, StackIs, Zenon
  <2>2. QED
    BY <1>1, <2>1
<1>3. Sequence(StackOf(F)) /\ Len(StackOf(F)) = l - 1
  BY StackIs
<1>4. /\ Sequence(Append(StackOf(F), e)) /\ Len(Append(StackOf(F), e)) = l /\ Append(StackOf(F), e)[l] = e
      /\ \A k \in 1..(l - 1) : Append(StackOf(F), e)[k] = StackOf(F)[k]
  BY <1>1, <1>3, SeqAppended
<1>5. ASSUME NEW k \in 1..l PROVE StackOf(H)[k] = Append(StackOf(F), e)[k]
  <2>1. StackOf(H)[k] = Entry(H[k], H[k + 1])
    BY <1>1 DEF StackOf
  <2>2. CASE k = l
    <3>1. H[k] = Last(F) /\ H[k + 1] = g
      BY <1>1, <2>2 DEF Last
    <3>2. QED
      BY <1>4, <2>1, <2>2, <3>1
  <2>3. CASE k # l
    <3>1. k \in 1..(l - 1) /\ k + 1 \in 1..l
      BY <1>1, <2>3
    <3>2. StackOf(F)[k] = Entry(F[k], F[k + 1])
      BY <3>1 DEF StackOf
    <3>3. H[k] = F[k] /\ H[k + 1] = F[k + 1]
      BY <1>1, <3>1
    <3>4. QED
      BY <1>4, <2>1, <3>1, <3>2, <3>3
  <2>4. QED
    BY <2>2, <2>3
<1>6. QED
  BY <1>2, <1>4, <1>5, SeqSame

\* The stack does not tell frames that count as many values.
LEMMA StackSame ==
  ASSUME NEW G, NEW f, NEW g, Sequence(G), Commas(f) = Commas(g)
  PROVE  StackOf(Append(G, g)) = StackOf(Append(G, f))
<1>1. CASE G = <<>>
  <2>1. Append(G, g) = <<g>> /\ Append(G, f) = <<f>>
    BY <1>1, SeqOne
  <2>2. QED
    BY <2>1, StackOne
<1>2. CASE G # <<>>
  <2>1. Entry(Last(G), f) = Entry(Last(G), g)
    BY DEF Entry
  <2>2. QED
    BY <1>2, <2>1, StackGrows
<1>3. QED
  BY <1>1, <1>2

\* The frames are the innermost one and those around it.
LEMMA FramesParts ==
  ASSUME NEW F, FramesFit(F)
  PROVE  /\ Sequence(Front(F)) /\ F = Append(Front(F), Last(F)) /\ IsFrame(Last(F))
         /\ Last(F).in = "root" <=> Front(F) = <<>>
         /\ Front(F) # <<>> => FramesFit(Front(F)) /\ Awaits(Last(Front(F)))
<1> DEFINE G == Front(F)
           l == Len(F)
<1>1. Sequence(F) /\ F # <<>>
  BY DEF FramesFit
<1>2. /\ Sequence(G) /\ F = Append(G, Last(F)) /\ l \in Nat /\ l >= 1 /\ Len(G) = l - 1
      /\ \A k \in 1..(l - 1) : F[k] = G[k]
  BY <1>1, SeqParts, SeqAppended
<1>3. G = <<>> <=> l = 1
  BY <1>2 DEF Sequence
<1>4. IsFrame(Last(F)) /\ (Last(F).in = "root" <=> l = 1)
  BY <1>2 DEF Last, FramesFit
<1>5. ASSUME G # <<>> PROVE FramesFit(G) /\ Awaits(Last(G))
  <2>1. \A k \in 1..(l - 1) : k \in 1..l /\ k < l
    BY <1>2
  <2>2. \A k \in 1..(l - 1) : IsFrame(G[k]) /\ (G[k].in = "root" <=> k = 1) /\ Awaits(G[k])
    BY <1>2, <2>1 DEF FramesFit
  <2>3. l - 1 \in 1..(l - 1)
    BY <1>2, <1>3, <1>5
  <2>4. Awaits(Last(G))
    BY <1>2, <2>2, <2>3 DEF Last
  <2>5. QED
    BY <1>2, <1>5, <2>2, <2>4 DEF FramesFit
<1>6. QED
  BY <1>2, <1>3, <1>4, <1>5

\* A frame fits where a value is awaited.
LEMMA FramesMade ==
  ASSUME NEW G, NEW f, Sequence(G), IsFrame(f), f.in = "root" <=> G = <<>>,
         G # <<>> => FramesFit(G) /\ Awaits(Last(G))
  PROVE  FramesFit(Append(G, f)) /\ Last(Append(G, f)) = f /\ Front(Append(G, f)) = G
<1> DEFINE F == Append(G, f)
           l == Len(G)
<1>1. /\ Sequence(F) /\ F # <<>> /\ l \in Nat /\ Len(F) = l + 1 /\ F[l + 1] = f
      /\ \A k \in 1..l : F[k] = G[k]
      /\ Last(F) = f /\ Front(F) = G
  BY SeqAppended
<1>2. G = <<>> <=> l = 0
  BY DEF Sequence
<1>3. ASSUME NEW k \in 1..Len(F)
      PROVE  IsFrame(F[k]) /\ (F[k].in = "root" <=> k = 1) /\ (k < Len(F) => Awaits(F[k]))
  <2>1. CASE k = l + 1
    BY <1>1, <1>2, <2>1
  <2>2. CASE k # l + 1
    <3>1. k \in 1..l /\ G # <<>>
      BY <1>1, <1>2, <2>2
    <3>2. IsFrame(G[k]) /\ (G[k].in = "root" <=> k = 1) /\ (k < l => Awaits(G[k]))
      BY <3>1 DEF FramesFit
    <3>3. k = l => Awaits(G[k])
      BY <3>1 DEF Last
    <3>4. Awaits(G[k])
      BY <1>1, <3>1, <3>2, <3>3
    <3>5. QED
      BY <1>1, <3>1, <3>2, <3>4
  <2>3. QED
    BY <2>1, <2>2
<1>4. QED
  BY <1>1, <1>3 DEF FramesFit

\* Nothing but a scalar is read as one.
LEMMA ScalarShape ==
  ASSUME NEW token
  PROVE  Scalar(token).rest \in BOOLEAN /\ (token.t \notin Scalars => Scalar(token).err = "ValueInvalid")
<1>1. CASE token.t = "string"
  <2>1. Scalar(token).rest = FALSE
    BY <1>1 DEF Scalar
  <2>2. QED
    BY <1>1, <2>1 DEF Scalars
<1>2. CASE token.t = "number"
  <2>1. ASSUME NEW raw, NEW minus, NEW int, NEW frac, NEW exp
        PROVE  NumberOf(raw, minus, int, frac, exp).rest \in BOOLEAN
    <3>1. (exp.k <= Len(raw)) \in BOOLEAN
      OBVIOUS
    <3>2. QED
      BY <3>1 DEF NumberOf
  <2>2. ParseNumber(token.raw).rest \in BOOLEAN
    BY <2>1 DEF ParseNumber, BehindInteger, BehindFraction
  <2>3. Scalar(token).rest = ParseNumber(token.raw).rest
    BY <1>2 DEF Scalar
  <2>4. QED
    BY <1>2, <2>2, <2>3 DEF Scalars
<1>3. CASE token.t \in {"null", "true", "false"}
  <2>1. Scalar(token).rest = FALSE
    BY <1>3 DEF Scalar
  <2>2. QED
    BY <1>3, <2>1 DEF Scalars
<1>4. CASE token.t \notin Scalars
  <2>1. Scalar(token) = [err |-> "ValueInvalid", value |-> [kind |-> "null"], rest |-> FALSE]
    BY <1>4 DEF Scalar, Scalars
  <2>2. QED
    BY <2>1
<1>5. QED
  BY <1>1, <1>2, <1>3, <1>4 DEF Scalars

\* What becomes of a value.
LEMMA ValueParsed ==
  ASSUME NEW r, NEW token, NEW s
  PROVE  /\ token.t \in {"LeftCurly", "LeftBracket"} =>
              ParseValue(r, token, s) =
                Reading(Append(r.frames, Frame(IF token.t = "LeftCurly" THEN "object" ELSE "array")),
                        Append(r.doc, [kind |-> "open"]))
         /\ token.t \in Scalars /\ s.err = "none" =>
              ParseValue(r, token, s) =
                Counted(r.frames, Append(r.doc, s.value), IF s.rest THEN "rest" ELSE "behind")
         /\ token.t \notin {"LeftCurly", "LeftBracket"} /\ ~(token.t \in Scalars /\ s.err = "none") =>
              ParseValue(r, token, s) = Errs(r, s.err)
<1>1. \A t : t \in Scalars => t \notin {"LeftCurly", "LeftBracket"}
  BY DEF Scalars
<1>2. CASE token.t \in {"LeftCurly", "LeftBracket"}
  BY <1>1, <1>2 DEF ParseValue
<1>3. CASE token.t \in Scalars /\ s.err = "none"
  BY <1>1, <1>3 DEF ParseValue
<1>4. CASE token.t \notin {"LeftCurly", "LeftBracket"} /\ ~(token.t \in Scalars /\ s.err = "none")
  BY <1>4 DEF ParseValue
<1>5. QED
  BY <1>1, <1>2, <1>3, <1>4

\* The table of the iterative parser, where it expects a value,
LEMMA PredictValue ==
  ASSUME NEW state \in Expecting, NEW t
  PROVE  /\ t = "LeftCurly" => Predict(state, t) = "ObjectInitial"
         /\ t = "LeftBracket" => Predict(state, t) = "ArrayInitial"
         /\ t \in Valued =>
              Predict(state, t) = (CASE state = "Start" -> "Value" [] state = "KeyValueDelimiter" -> "MemberValue"
                                     [] OTHER -> "Element")
         /\ t \notin Valued \cup {"LeftCurly", "LeftBracket", "RightBracket"} => Predict(state, t) = "Error"
         /\ t = "RightBracket" /\ state \in {"Start", "KeyValueDelimiter"} => Predict(state, t) = "Error"
         /\ t = "RightBracket" /\ state \in {"ArrayInitial", "ElementDelimiter"} => Predict(state, t) = "ArrayFinish"
<1>1. CASE state = "Start"
  BY <1>1 DEF Predict, Expecting, Scalars, Valued
<1>2. CASE state = "KeyValueDelimiter"
  BY <1>2 DEF Predict, Expecting, Scalars, Valued
<1>3. CASE state = "ArrayInitial"
  BY <1>3 DEF Predict, Expecting, Scalars, Valued
<1>4. CASE state = "ElementDelimiter"
  BY <1>4 DEF Predict, Expecting, Scalars, Valued
<1>5. QED
  BY <1>1, <1>2, <1>3, <1>4 DEF Expecting

\* and what it does where the table leads.
LEMMA TransitIs ==
  ASSUME NEW p, NEW token, NEW s
  PROVE  /\ Predict(p.state, token.t) = "Error" => Transit(p, token, s) = Fails(p, HandleError(p.state))
         /\ Predict(p.state, token.t) \in {"ObjectInitial", "ArrayInitial"} => Transit(p, token, s) = Begin(p, Predict(p.state, token.t))
         /\ Predict(p.state, token.t) = "KeyValueDelimiter" => Transit(p, token, s) = Iterating(Predict(p.state, token.t), p.stack, p.doc, FALSE)
         /\ Predict(p.state, token.t) \in {"MemberDelimiter", "ElementDelimiter"} =>
              Transit(p, token, s) =
                Iterating(Predict(p.state, token.t), Append(Front(p.stack), [StackTop(p) EXCEPT !.n = @ + 1]), p.doc, FALSE)
         /\ Predict(p.state, token.t) = "ObjectFinish" =>
              Transit(p, token, s) = IF p.state = "MemberDelimiter" THEN Fails(p, "ObjectMissName")
                                     ELSE Finish(p, EndObject(p.doc, CountOf(p)))
         /\ Predict(p.state, token.t) = "ArrayFinish" =>
              Transit(p, token, s) = IF p.state = "ElementDelimiter" THEN Fails(p, "ValueInvalid")
                                     ELSE Finish(p, EndArray(p.doc, CountOf(p)))
         /\ Predict(p.state, token.t) \in {"MemberKey", "MemberValue", "Element", "Value"} =>
              Transit(p, token, s) = IF s.err # "none" THEN Fails(p, s.err)
                                     ELSE Iterating(IF Predict(p.state, token.t) = "Value" THEN "Finish" ELSE Predict(p.state, token.t),
                                                    p.stack, Append(p.doc, s.value), s.rest)
  BY DEF Transit

\* The fields of the iterative parser,
LEMMA IteratingIs ==
  ASSUME NEW state, NEW stack, NEW doc, NEW rest
  PROVE  /\ Iterating(state, stack, doc, rest).state = state /\ Iterating(state, stack, doc, rest).stack = stack
         /\ Iterating(state, stack, doc, rest).doc = doc /\ Iterating(state, stack, doc, rest).err = "none"
  BY DEF Iterating

\* which goes on,
LEMMA IteratingOn ==
  ASSUME NEW state, NEW stack, NEW doc, NEW rest \in BOOLEAN
  PROVE  ~Iterating(state, stack, doc, rest).done /\ (Iterating(state, stack, doc, rest).rest <=> rest)
  BY DEF Iterating

\* and those of the other one,
LEMMA ReadingIs ==
  ASSUME NEW frames, NEW doc
  PROVE  /\ Reading(frames, doc).frames = frames /\ Reading(frames, doc).doc = doc
         /\ Reading(frames, doc).err = "none"
  BY DEF Reading

\* which goes on as well.
LEMMA ReadingOn ==
  ASSUME NEW frames, NEW doc PROVE ~Reading(frames, doc).done
  BY DEF Reading

\* Something has been read.
Begun(f) == ~(f.in = "root" /\ f.at = "first")

\* Where both parsers are: at the same end, or the iterative one goes with the other.
Agreed(r, p, f) ==
  /\ r.done = p.done /\ r.doc = p.doc /\ (r.err = p.err \/ (f.in = "root" /\ f.at = "first" /\ p.err = "DocumentEmpty"))
  /\ ~r.done => FramesFit(r.frames) /\ r = Reading(r.frames, r.doc) /\ p = Mirror(r.frames, r.doc) /\ Begun(Last(r.frames))

\* A parser that goes on agrees with its mirror.
LEMMA AgreedOn ==
  ASSUME NEW F, NEW doc, FramesFit(F), Begun(Last(F)), NEW f, NEW r, r = Reading(F, doc), NEW p, p = Mirror(F, doc)
  PROVE  Agreed(r, p, f)
  BY DEF Agreed, Mirror, Reading, Iterating

\* Parsers with the same error agree.
LEMMA AgreedErrs ==
  ASSUME NEW r0, NEW p0, NEW e, NEW e2, NEW f,
         e = e2 \/ (f.in = "root" /\ f.at = "first" /\ e2 = "DocumentEmpty"),
         NEW r, r = Errs(r0, e), NEW p, p = Fails(p0, e2)
  PROVE  Agreed(r, p, f)
<1>1. r.done = TRUE /\ p.done = TRUE /\ r.doc = <<>> /\ p.doc = <<>> /\ r.err = e /\ p.err = e2
  BY DEF Errs, Fails
<1>2. QED
  BY <1>1 DEF Agreed

\* Going on to another place changes the innermost frame,
LEMMA GoesTo ==
  ASSUME NEW G, Sequence(G), NEW f, IsFrame(f), NEW doc, NEW d, NEW place
  PROVE  Goes(Reading(Append(G, f), doc), d, place) = Reading(Append(G, [in |-> f.in, at |-> place, n |-> f.n]), d)
<1>1. Inner(Reading(Append(G, f), doc)) = f /\ Reading(Append(G, f), doc).frames = Append(G, f)
  BY SeqAppended DEF Inner, Reading
<1>2. Front(Append(G, f)) = G
  BY SeqAppended
<1>3. [f EXCEPT !.at = place] = [in |-> f.in, at |-> place, n |-> f.n]
  BY DEF IsFrame
<1>4. QED
  BY <1>1, <1>2, <1>3 DEF Goes

\* and so does a value.
LEMMA CountedAt ==
  ASSUME NEW G, Sequence(G), NEW f, NEW d, NEW place
  PROVE  Counted(Append(G, f), d, place) = Reading(Append(G, [in |-> f.in, at |-> place, n |-> f.n + 1]), d)
<1>1. Last(Append(G, f)) = f /\ Front(Append(G, f)) = G
  BY SeqAppended
<1>2. QED
  BY <1>1 DEF Counted

\* A compound begins where a value is due.
LEMMA BeginAgrees ==
  ASSUME NEW F, FramesFit(F), NEW f, f = Last(F), Awaits(f), NEW doc, NEW token, NEW s,
         token.t \in {"LeftCurly", "LeftBracket"}, NEW p, p = Mirror(F, doc), NEW r, r = Reading(F, doc)
  PROVE  Agreed(ParseValue(r, token, s), Transit(p, token, s), f)
<1> DEFINE g == Frame(IF token.t = "LeftCurly" THEN "object" ELSE "array")
           d == Append(doc, [kind |-> "open"])
           dst == IF token.t = "LeftCurly" THEN "ObjectInitial" ELSE "ArrayInitial"
           e == [state |-> Around(f.in), n |-> 0]
<1>1. Sequence(F) /\ F # <<>>
  BY DEF FramesFit
<1>2. p = Iterating(StateOf(f), StackOf(F), doc, FALSE) /\ StateOf(f) \in Expecting
  BY DEF Mirror, Awaits, StateOf, Expecting
<1>3. r.frames = F /\ r.doc = doc /\ p.state = StateOf(f) /\ p.stack = StackOf(F) /\ p.doc = doc
  <2>1. r.frames = F /\ r.doc = doc
    BY ReadingIs
  <2>2. p.state = StateOf(f) /\ p.stack = StackOf(F) /\ p.doc = doc
    BY <1>2 DEF Iterating
  <2>3. QED
    BY <2>1, <2>2
<1>4. IsFrame(g) /\ g.in # "root" /\ (g.at = "rest") = FALSE /\ Commas(g) = 0 /\ StateOf(g) = dst
  BY DEF Frame, IsFrame, Commas, StateOf
<1>5. Predict(StateOf(f), token.t) = dst
  BY <1>2, PredictValue
<1>6. ParseValue(r, token, s) = Reading(Append(F, g), d)
  <2>1. ParseValue(r, token, s) = Reading(Append(r.frames, g), Append(r.doc, [kind |-> "open"]))
    BY ValueParsed, Zenon
  <2>2. QED
    BY <1>3, <2>1
<1>7. Transit(p, token, s) = Begin(p, dst)
  <2>1. Predict(p.state, token.t) = dst /\ dst \in {"ObjectInitial", "ArrayInitial"}
    BY <1>3, <1>5
  <2> HIDE DEF dst
  <2>2. QED
    BY <2>1, TransitIs
<1>8. (CASE p.state \in {"ArrayInitial", "ElementDelimiter"} -> "Element"
         [] p.state = "KeyValueDelimiter" -> "MemberValue"
         [] OTHER -> p.state) = Around(f.in)
  BY <1>3 DEF StateOf, Awaits, Around
<1>9. Begin(p, dst) = Iterating(dst, Append(StackOf(F), e), d, FALSE)
  BY <1>3, <1>8 DEF Begin
<1> HIDE DEF g, d, dst
<1>10. FramesFit(Append(F, g)) /\ Last(Append(F, g)) = g
  BY <1>1, <1>4, FramesMade
<1>11. Entry(f, g) = e
  BY <1>4 DEF Entry
<1>12. StackOf(Append(F, g)) = Append(StackOf(F), e)
  BY <1>1, <1>11, StackGrows
<1>13. Mirror(Append(F, g), d) = Iterating(dst, Append(StackOf(F), e), d, FALSE)
  BY <1>4, <1>10, <1>12, Zenon DEF Mirror
<1>14. Begun(Last(Append(F, g)))
  BY <1>4, <1>10 DEF Begun
<1>15. QED
  BY <1>6, <1>7, <1>9, <1>10, <1>13, <1>14, AgreedOn

\* A string, number or literal there.
LEMMA ScalarAgrees ==
  ASSUME NEW F, FramesFit(F), NEW f, f = Last(F), Awaits(f), NEW doc, NEW token, NEW s, s.rest \in BOOLEAN,
         token.t \in Scalars, NEW p, p = Mirror(F, doc), NEW r, r = Reading(F, doc)
  PROVE  Agreed(ParseValue(r, token, s), Transit(p, token, s), f)
<1> DEFINE G == Front(F)
           place == IF s.rest THEN "rest" ELSE "behind"
           g == [in |-> f.in, at |-> place, n |-> f.n + 1]
           d == Append(doc, s.value)
           state == IF f.in = "root" THEN "Finish" ELSE Around(f.in)
           dst == IF f.in = "root" THEN "Value" ELSE Around(f.in)
<1>1. Sequence(G) /\ F = Append(G, f) /\ IsFrame(f) /\ (f.in = "root" <=> G = <<>>)
      /\ (G # <<>> => FramesFit(G) /\ Awaits(Last(G)))
  BY FramesParts
<1>2. p = Iterating(StateOf(f), StackOf(F), doc, FALSE) /\ StateOf(f) \in Expecting
  BY DEF Mirror, Awaits, StateOf, Expecting
<1>3. r.frames = F /\ r.doc = doc /\ p.state = StateOf(f) /\ p.stack = StackOf(F) /\ p.doc = doc
  BY <1>2, ReadingIs DEF Iterating
<1>4. Predict(p.state, token.t) = dst
  <2>1. Predict(StateOf(f), token.t) =
          (CASE StateOf(f) = "Start" -> "Value" [] StateOf(f) = "KeyValueDelimiter" -> "MemberValue" [] OTHER -> "Element")
    BY <1>2, PredictValue DEF Valued
  <2>2. (CASE StateOf(f) = "Start" -> "Value" [] StateOf(f) = "KeyValueDelimiter" -> "MemberValue"
           [] OTHER -> "Element") = dst
    BY DEF StateOf, Awaits, Around
  <2>3. QED
    BY <1>3, <2>1, <2>2
<1>5. dst \in {"MemberKey", "MemberValue", "Element", "Value"} /\ (dst = "Value" <=> f.in = "root")
      /\ (dst # "Value" => dst = state) /\ (dst = "Value" => state = "Finish")
  BY DEF Around
<1> HIDE DEF dst, state
<1>6. CASE s.err = "none"
  <2>1. ParseValue(r, token, s) = Counted(F, d, place)
    BY <1>3, <1>6, ValueParsed
  <2>2. IsFrame(g) /\ g.in = f.in /\ Commas(g) = Commas(f) /\ StateOf(g) = state /\ (g.at = "rest") = s.rest
    <3>1. f.n \in Nat /\ f.in \in {"root", "array", "object"}
      BY <1>1 DEF IsFrame
    <3>2. g.in = f.in /\ g.at = place /\ g.n = f.n + 1 /\ place \in {"rest", "behind"} /\ (place = "rest") = s.rest
      OBVIOUS
    <3> HIDE DEF place
    <3>3. IsFrame(g)
      BY <3>1, <3>2 DEF IsFrame
    <3>4. f.at \notin {"rest", "behind"}
      BY DEF Awaits
    <3>5. Commas(g) = Commas(f)
      BY <3>1, <3>2, <3>4 DEF Commas
    <3>6. StateOf(g) = state
      BY <3>1, <3>2 DEF StateOf, state, Around
    <3>7. QED
      BY <3>2, <3>3, <3>5, <3>6
  <2>3. Transit(p, token, s) = Iterating(state, StackOf(F), d, s.rest)
    <3>1. Transit(p, token, s) = Iterating(IF dst = "Value" THEN "Finish" ELSE dst, p.stack,
                                           Append(p.doc, s.value), s.rest)
      BY <1>4, <1>5, <1>6, TransitIs
    <3>2. (IF dst = "Value" THEN "Finish" ELSE dst) = state
      BY <1>5
    <3>3. QED
      BY <1>3, <3>1, <3>2
  <2> HIDE DEF G, d, place
  <2>4. Counted(F, d, place) = Reading(Append(G, g), d)
    BY <1>1, CountedAt
  <2> HIDE DEF g
  <2>5. FramesFit(Append(G, g)) /\ Last(Append(G, g)) = g
    BY <1>1, <2>2, FramesMade
  <2>6. StackOf(Append(G, g)) = StackOf(F)
    BY <1>1, <2>2, StackSame
  <2>7. Mirror(Append(G, g), d) = Iterating(state, StackOf(F), d, s.rest)
    BY <2>2, <2>5, <2>6, Zenon DEF Mirror
  <2>8. Begun(Last(Append(G, g)))
    BY <2>5 DEF Begun, g, place
  <2>9. QED
    BY <2>1, <2>3, <2>4, <2>5, <2>7, <2>8, AgreedOn
<1>7. CASE s.err # "none"
  <2>1. ParseValue(r, token, s) = Errs(r, s.err)
    <3>1. token.t \notin {"LeftCurly", "LeftBracket"}
      BY DEF Scalars
    <3>2. QED
      BY <1>7, <3>1, ValueParsed
  <2>2. Transit(p, token, s) = Fails(p, s.err)
    BY <1>4, <1>5, <1>7, TransitIs
  <2>3. QED
    BY <2>1, <2>2, AgreedErrs
<1>8. QED
  BY <1>6, <1>7

\* Something else there.
LEMMA NoValueAgrees ==
  ASSUME NEW F, FramesFit(F), NEW f, f = Last(F), Awaits(f), NEW doc, NEW token, NEW s, s.err = "ValueInvalid",
         token.t \notin Scalars, token.t \notin {"LeftCurly", "LeftBracket"},
         f.in = "array" /\ f.at = "first" => token.t # "RightBracket",
         NEW p, p = Mirror(F, doc), NEW r, r = Reading(F, doc)
  PROVE  Agreed(ParseValue(r, token, s), Transit(p, token, s), f)
<1>1. p = Iterating(StateOf(f), StackOf(F), doc, FALSE)
  BY DEF Mirror, Awaits
<1>2. p.state = StateOf(f)
  BY <1>1 DEF Iterating
<1>3. ParseValue(r, token, s) = Errs(r, "ValueInvalid")
  BY ValueParsed
<1> DEFINE e == IF f.in = "root" /\ token.t # "junk" THEN "DocumentEmpty" ELSE "ValueInvalid"
<1>4. Transit(p, token, s) = Fails(p, e)
  <2>0. CASE token.t = "junk"
    <3>1. p.state \in Expecting
      BY <1>2 DEF StateOf, Awaits, Expecting
    <3>2. Predict(p.state, token.t) \in {"MemberValue", "Element", "Value"}
      BY <2>0, <3>1, PredictValue DEF Valued
    <3>3. QED
      BY <2>0, <3>2, TransitIs
  <2>1. CASE f.in = "root" /\ token.t # "junk"
    <3>1. p.state = "Start" /\ "Start" \in Expecting
      BY <1>2, <2>1 DEF StateOf, Awaits, Expecting
    <3>2. Predict("Start", token.t) = "Error"
      BY <2>1, <3>1, PredictValue DEF Valued
    <3>3. HandleError("Start") = "DocumentEmpty"
      BY DEF HandleError
    <3>4. QED
      BY <2>1, <3>1, <3>2, <3>3, TransitIs
  <2>2. CASE f.in = "array" /\ f.at = "first" /\ token.t # "junk"
    <3>1. p.state = "ArrayInitial" /\ "ArrayInitial" \in Expecting
      BY <1>2, <2>2 DEF StateOf, Awaits, Expecting
    <3>2. Predict("ArrayInitial", token.t) = "Error"
      BY <2>2, <3>1, PredictValue DEF Valued
    <3>3. HandleError("ArrayInitial") = "ValueInvalid"
      BY DEF HandleError
    <3>4. QED
      BY <2>2, <3>1, <3>2, <3>3, TransitIs
  <2>3. CASE f.in = "array" /\ f.at = "value" /\ token.t # "junk"
    <3>1. p.state = "ElementDelimiter" /\ "ElementDelimiter" \in Expecting
      BY <1>2, <2>3 DEF StateOf, Awaits, Expecting
    <3>2. Predict("ElementDelimiter", token.t) \in {"Error", "ArrayFinish"}
      BY <2>3, <3>1, PredictValue DEF Valued
    <3>3. HandleError("ElementDelimiter") = "ValueInvalid"
      BY DEF HandleError
    <3>4. QED
      BY <2>3, <3>1, <3>2, <3>3, TransitIs
  <2>4. CASE f.in = "object" /\ f.at = "value" /\ token.t # "junk"
    <3>1. p.state = "KeyValueDelimiter" /\ "KeyValueDelimiter" \in Expecting
      BY <1>2, <2>4 DEF StateOf, Awaits, Expecting
    <3>2. Predict("KeyValueDelimiter", token.t) = "Error"
      BY <2>4, <3>1, PredictValue DEF Valued
    <3>3. HandleError("KeyValueDelimiter") = "ValueInvalid"
      BY DEF HandleError
    <3>4. QED
      BY <2>4, <3>1, <3>2, <3>3, TransitIs
  <2>5. QED
    BY <2>0, <2>1, <2>2, <2>3, <2>4 DEF Awaits
<1>5. "ValueInvalid" = e \/ (f.in = "root" /\ f.at = "first" /\ e = "DocumentEmpty")
  BY DEF Awaits
<1> HIDE DEF e
<1>6. QED
  BY <1>3, <1>4, <1>5, AgreedErrs

\* So both parsers agree wherever a value is awaited.
LEMMA ValueAgrees ==
  ASSUME NEW F, FramesFit(F), NEW f, f = Last(F), Awaits(f), NEW doc, NEW token, NEW s,
         s.rest \in BOOLEAN, token.t \notin Scalars => s.err = "ValueInvalid",
         f.in = "array" /\ f.at = "first" => token.t # "RightBracket",
         NEW p, p = Mirror(F, doc), NEW r, r = Reading(F, doc)
  PROVE  Agreed(ParseValue(r, token, s), Transit(p, token, s), f)
<1>1. CASE token.t \in {"LeftCurly", "LeftBracket"}
  BY <1>1, BeginAgrees
<1>2. CASE token.t \in Scalars
  BY <1>2, ScalarAgrees
<1>3. CASE token.t \notin Scalars /\ token.t \notin {"LeftCurly", "LeftBracket"}
  BY <1>3, NoValueAgrees
<1>4. QED
  BY <1>1, <1>2, <1>3

\* A mirror's stack ends with what is around the innermost frame.
LEMMA TopIs ==
  ASSUME NEW F, FramesFit(F), NEW f, f = Last(F), f.in # "root", NEW doc, NEW p, p = Mirror(F, doc)
  PROVE  /\ Front(F) # <<>> /\ FramesFit(Front(F)) /\ Awaits(Last(Front(F)))
         /\ p.stack = Append(StackOf(Front(F)), Entry(Last(Front(F)), f))
         /\ StackTop(p) = Entry(Last(Front(F)), f) /\ Front(p.stack) = StackOf(Front(F))
<1> DEFINE G == Front(F)
           e == Entry(Last(G), f)
<1>1. Sequence(G) /\ F = Append(G, f) /\ G # <<>> /\ FramesFit(G) /\ Awaits(Last(G))
  BY FramesParts
<1>2. StackOf(F) = Append(StackOf(G), e)
  <2> HIDE DEF G
  <2>1. StackOf(Append(G, f)) = Append(StackOf(G), Entry(Last(G), f))
    BY <1>1, StackGrows
  <2>2. QED
    BY <1>1, <2>1
<1>3. p.stack = StackOf(F)
  BY DEF Mirror, Iterating
<1>4. Sequence(StackOf(G))
  BY <1>1, StackIs
<1>5. Last(p.stack) = e /\ Front(p.stack) = StackOf(G)
  <2> HIDE DEF G, e
  <2>1. QED
    BY <1>2, <1>3, <1>4, SeqAppended
<1>6. QED
  BY <1>1, <1>2, <1>3, <1>5 DEF StackTop

\* Both parsers count a compound's values alike.
LEMMA CountIs ==
  ASSUME NEW F, FramesFit(F), NEW f, f = Last(F), f.in # "root", f.at \in {"first", "behind"},
         NEW doc, NEW p, p = Mirror(F, doc)
  PROVE  CountOf(p) = f.n
<1>1. IsFrame(f) /\ f.n \in Nat
  BY FramesParts DEF IsFrame
<1>2. p.state = StateOf(f)
  BY DEF Mirror, Iterating
<1>3. StackTop(p) = Entry(Last(Front(F)), f)
  BY TopIs
<1>4. StackTop(p).n = Commas(f)
  BY <1>3 DEF Entry
<1>5. CASE f.at = "first"
  <2>1. StateOf(f) \in {"ArrayInitial", "ObjectInitial"} /\ Commas(f) = f.n
    BY <1>1, <1>5 DEF IsFrame, StateOf, Commas
  <2>2. QED
    BY <1>1, <1>2, <1>4, <2>1 DEF CountOf
<1>6. CASE f.at = "behind"
  <2>1. StateOf(f) \in {"Element", "MemberValue"} /\ Commas(f) = f.n - 1
    BY <1>1, <1>6 DEF IsFrame, StateOf, Commas
  <2>2. QED
    BY <1>1, <1>2, <1>4, <2>1 DEF CountOf
<1>7. QED
  BY <1>5, <1>6

\* A compound ends: it is a value of what is around it.
LEMMA FinishAgrees ==
  ASSUME NEW F, FramesFit(F), NEW f, f = Last(F), f.in # "root", NEW doc, NEW d,
         NEW p, p = Mirror(F, doc), NEW r, r = Reading(F, doc)
  PROVE  Agreed(Ended(r, d), Finish(p, d), f)
<1> DEFINE G == Front(F)
           g == Last(G)
           H == Front(G)
           h == [in |-> g.in, at |-> "behind", n |-> g.n + 1]
           state == IF g.in = "root" THEN "Finish" ELSE Around(g.in)
<1>1. G # <<>> /\ FramesFit(G) /\ Awaits(g) /\ StackTop(p) = Entry(g, f) /\ Front(p.stack) = StackOf(G)
  BY TopIs
<1>2. Sequence(H) /\ G = Append(H, g) /\ IsFrame(g) /\ (g.in = "root" <=> H = <<>>)
      /\ (H # <<>> => FramesFit(H) /\ Awaits(Last(H)))
  <2> HIDE DEF G
  <2>1. QED
    BY <1>1, FramesParts
<1>3. IsFrame(h) /\ h.in = g.in /\ Commas(h) = Commas(g) /\ StateOf(h) = state /\ (h.at = "rest") = FALSE
  <2>1. g.n \in Nat /\ g.in \in {"root", "array", "object"} /\ g.at \notin {"behind", "rest"}
    BY <1>1, <1>2 DEF IsFrame, Awaits
  <2>2. h.in = g.in /\ h.at = "behind" /\ h.n = g.n + 1 /\ h.n \in Nat /\ h.n >= 1
    BY <2>1
  <2> HIDE DEF g
  <2>3. IsFrame(h)
    BY <2>1, <2>2 DEF IsFrame
  <2>4. Commas(h) = Commas(g) /\ StateOf(h) = state
    BY <2>1, <2>2 DEF Commas, StateOf, Around
  <2>5. QED
    BY <2>2, <2>3, <2>4
<1>4. Finish(p, d) = Iterating(state, StackOf(G), d, FALSE)
  <2>1. StackTop(p).state = Around(g.in)
    BY <1>1 DEF Entry
  <2>2. (IF Around(g.in) = "Start" THEN "Finish" ELSE Around(g.in)) = state
    BY DEF Around
  <2>3. QED
    BY <1>1, <2>1, <2>2 DEF Finish
<1>5. Ended(r, d) = Counted(G, d, "behind")
  BY DEF Ended, Reading
<1> HIDE DEF G, g, H, state
<1>6. Counted(G, d, "behind") = Reading(Append(H, h), d)
  BY <1>2, CountedAt
<1> HIDE DEF h
<1>7. FramesFit(Append(H, h)) /\ Last(Append(H, h)) = h
  BY <1>2, <1>3, FramesMade
<1>8. StackOf(Append(H, h)) = StackOf(G)
  BY <1>2, <1>3, StackSame
<1>9. Mirror(Append(H, h), d) = Iterating(state, StackOf(G), d, FALSE)
  BY <1>3, <1>7, <1>8, Zenon DEF Mirror
<1>10. Begun(Last(Append(H, h)))
  BY <1>7 DEF Begun, h
<1>11. QED
  BY <1>4, <1>5, <1>6, <1>7, <1>9, <1>10, AgreedOn

\* The innermost frame goes on without a new value.
LEMMA GoesAgrees ==
  ASSUME NEW F, FramesFit(F), NEW f, f = Last(F), NEW doc, NEW d, NEW place,
         NEW g, g = [in |-> f.in, at |-> place, n |-> f.n], IsFrame(g), place # "rest", place # "first",
         NEW r, r = Reading(F, doc), NEW p,
         p = Iterating(StateOf(g), IF f.in = "root" THEN <<>>
                                   ELSE Append(StackOf(Front(F)), Entry(Last(Front(F)), g)), d, FALSE)
  PROVE  Agreed(Goes(r, d, place), p, f)
<1> DEFINE G == Front(F)
<1>1. Sequence(G) /\ F = Append(G, f) /\ IsFrame(f) /\ (f.in = "root" <=> G = <<>>)
      /\ (G # <<>> => FramesFit(G) /\ Awaits(Last(G)))
  BY FramesParts
<1>2. g.in = f.in /\ (g.at = "rest") = FALSE
  OBVIOUS
<1> HIDE DEF G
<1>3. Goes(r, d, place) = Reading(Append(G, g), d)
  BY <1>1, GoesTo
<1>4. FramesFit(Append(G, g)) /\ Last(Append(G, g)) = g
  BY <1>1, <1>2, FramesMade
<1>5. StackOf(Append(G, g)) = IF f.in = "root" THEN <<>> ELSE Append(StackOf(G), Entry(Last(G), g))
  <2>1. CASE G = <<>>
    <3>1. Append(G, g) = <<g>>
      BY <2>1, SeqOne
    <3>2. QED
      BY <1>1, <2>1, <3>1, StackOne
  <2>2. CASE G # <<>>
    BY <1>1, <2>2, StackGrows
  <2>3. QED
    BY <2>1, <2>2
<1>6. Mirror(Append(G, g), d) = p
  <2>1. Mirror(Append(G, g), d) = Iterating(StateOf(g), StackOf(Append(G, g)), d, FALSE)
    BY <1>2, <1>4, Zenon DEF Mirror
  <2>2. QED
    BY <1>5, <2>1 DEF G
<1>7. Begun(Last(Append(G, g)))
  BY <1>4 DEF Begun
<1>8. QED
  BY <1>3, <1>4, <1>6, <1>7, AgreedOn

\* The table in an object, and behind a value.
LEMMA PredictObject ==
  ASSUME NEW t
  PROVE  /\ Predict("ObjectInitial", t) = (IF t = "string" THEN "MemberKey" ELSE IF t = "RightCurly" THEN "ObjectFinish" ELSE "Error")
         /\ Predict("MemberDelimiter", t) = (IF t = "string" THEN "MemberKey" ELSE IF t = "RightCurly" THEN "ObjectFinish" ELSE "Error")
         /\ Predict("MemberKey", t) = (IF t = "Colon" THEN "KeyValueDelimiter" ELSE "Error")
         /\ Predict("MemberValue", t) = (IF t = "Comma" THEN "MemberDelimiter" ELSE IF t = "RightCurly" THEN "ObjectFinish" ELSE "Error")
         /\ Predict("Element", t) = (IF t = "Comma" THEN "ElementDelimiter" ELSE IF t = "RightBracket" THEN "ArrayFinish" ELSE "Error")
         /\ Predict("Finish", t) = "Error"
<1>1. Predict("ObjectInitial", t) = (IF t = "string" THEN "MemberKey" ELSE IF t = "RightCurly" THEN "ObjectFinish" ELSE "Error")
  BY DEF Predict, Expecting, Scalars, Valued
<1>2. Predict("MemberDelimiter", t) = (IF t = "string" THEN "MemberKey" ELSE IF t = "RightCurly" THEN "ObjectFinish" ELSE "Error")
  BY DEF Predict, Expecting, Scalars, Valued
<1>3. Predict("MemberKey", t) = (IF t = "Colon" THEN "KeyValueDelimiter" ELSE "Error")
  BY DEF Predict, Expecting, Scalars, Valued
<1>4. Predict("MemberValue", t) = (IF t = "Comma" THEN "MemberDelimiter" ELSE IF t = "RightCurly" THEN "ObjectFinish" ELSE "Error")
  BY DEF Predict, Expecting, Scalars, Valued
<1>5. Predict("Element", t) = (IF t = "Comma" THEN "ElementDelimiter" ELSE IF t = "RightBracket" THEN "ArrayFinish" ELSE "Error")
  BY DEF Predict, Expecting, Scalars, Valued
<1>6. Predict("Finish", t) = "Error"
  BY DEF Predict, Expecting, Scalars, Valued
<1>7. QED
  BY <1>1, <1>2, <1>3, <1>4, <1>5, <1>6

\* The iterative parser where the other one is in a compound or before its value.
LEMMA IterativeIs ==
  ASSUME NEW F, FramesFit(F), NEW f, f = Last(F), NEW doc, NEW token, NEW s, NEW p, p = Mirror(F, doc)
  PROVE  /\ p.state = StateOf(f) /\ p.stack = StackOf(F) /\ p.doc = doc
         /\ f.at = "rest" => IterativeParse(p, token, s) = Fails(p, HandleError(StateOf(f)))
         /\ f.at # "rest" /\ StateOf(f) # "Finish" => IterativeParse(p, token, s) = Transit(p, token, s)
<1>1. p = Iterating(StateOf(f), StackOf(F), doc, f.at = "rest")
  BY DEF Mirror
<1>2. p.state = StateOf(f) /\ p.stack = StackOf(F) /\ p.doc = doc
  BY <1>1 DEF Iterating
<1>3. p.done = FALSE
  BY <1>1 DEF Iterating
<1>4. CASE f.at = "rest"
  <2>1. p = Iterating(StateOf(f), StackOf(F), doc, TRUE)
    BY <1>1, <1>4
  <2>2. p.rest = TRUE
    BY <2>1 DEF Iterating
  <2>3. IterativeParse(p, token, s) = Fails(p, HandleError(StateOf(f)))
    BY <1>2, <1>3, <2>2 DEF IterativeParse
  <2>4. QED
    BY <1>2, <1>4, <2>3
<1>5. CASE f.at # "rest" /\ StateOf(f) # "Finish"
  <2>1. p = Iterating(StateOf(f), StackOf(F), doc, FALSE)
    BY <1>1, <1>5
  <2>2. p.rest = FALSE
    BY <2>1 DEF Iterating
  <2>3. CASE token.t = "end"
    <3>1. IterativeParse(p, token, s) = Fails(p, HandleError(StateOf(f)))
      BY <1>2, <1>3, <1>5, <2>2, <2>3 DEF IterativeParse
    <3>2. Predict(p.state, "end") = "Error"
      BY DEF Predict, Scalars, Valued
    <3>3. QED
      BY <1>2, <1>5, <2>3, <3>1, <3>2, TransitIs
  <2>4. CASE token.t # "end"
    <3>1. IterativeParse(p, token, s) = Transit(p, token, s)
      BY <1>3, <2>2, <2>4 DEF IterativeParse
    <3>2. QED
      BY <1>2, <1>5, <3>1
  <2>5. QED
    BY <2>3, <2>4
<1>6. CASE f.at # "rest" /\ StateOf(f) = "Finish"
  BY <1>2, <1>6
<1>7. QED
  BY <1>4, <1>5, <1>6

\* What goes wrong goes wrong for both.
LEMMA BothFail ==
  ASSUME NEW r, NEW p, NEW f, NEW e, NEW r2, r2 = Errs(r, e), NEW p2, p2 = Fails(p, e)
  PROVE  Agreed(r2, p2, f)
  BY AgreedErrs

\* A name in an object.
LEMMA NameAgrees ==
  ASSUME NEW F, FramesFit(F), NEW f, f = Last(F), f.in = "object",
         NEW doc, NEW token, NEW s, s.rest \in BOOLEAN, token.t = "string" => ~s.rest,
         f.at = "name" \/ (f.at = "first" /\ token.t # "RightCurly"),
         NEW p, p = Mirror(F, doc), NEW r, r = Reading(F, doc)
  PROVE  Agreed(Name(r, token, s), Transit(p, token, s), f)
<1> DEFINE g == [in |-> f.in, at |-> "colon", n |-> f.n]
           d == Append(doc, s.value)
<1>1. r.doc = doc /\ p.doc = doc /\ p.state = StateOf(f)
  BY DEF Reading, Mirror, Iterating
<1>2. StateOf(f) = IF f.at = "name" THEN "MemberDelimiter" ELSE "ObjectInitial"
  BY DEF StateOf
<1>3. CASE token.t # "string"
  <2>1. Name(r, token, s) = Errs(r, "ObjectMissName")
    BY <1>3 DEF Name
  <2>2. Transit(p, token, s) = Fails(p, "ObjectMissName")
    <3>1. CASE token.t = "RightCurly"
      <4>1. p.state = "MemberDelimiter" /\ Predict(p.state, token.t) = "ObjectFinish"
        BY <1>1, <1>2, <3>1, PredictObject
      <4>2. QED
        BY <4>1, TransitIs
    <3>2. CASE token.t # "RightCurly"
      <4>1. Predict(p.state, token.t) = "Error"
        BY <1>1, <1>2, <1>3, <3>2, PredictObject
      <4>2. HandleError(p.state) = "ObjectMissName"
        BY <1>1, <1>2 DEF HandleError
      <4>3. QED
        BY <4>1, <4>2, TransitIs
    <3>3. QED
      BY <3>1, <3>2
  <2>3. QED
    BY <2>1, <2>2, BothFail
<1>4. CASE token.t = "string"
  <2>1. Predict(p.state, token.t) = "MemberKey"
    BY <1>1, <1>2, <1>4, PredictObject
  <2>2. Transit(p, token, s) = IF s.err # "none" THEN Fails(p, s.err)
                               ELSE Iterating("MemberKey", p.stack, d, s.rest)
    <3>1. Transit(p, token, s) = IF s.err # "none" THEN Fails(p, s.err)
            ELSE Iterating(IF Predict(p.state, token.t) = "Value" THEN "Finish" ELSE Predict(p.state, token.t),
                           p.stack, Append(p.doc, s.value), s.rest)
      BY <2>1, TransitIs
    <3>2. (IF Predict(p.state, token.t) = "Value" THEN "Finish" ELSE Predict(p.state, token.t)) = "MemberKey"
      BY <2>1
    <3>3. QED
      BY <1>1, <3>1, <3>2, Zenon
  <2>3. CASE s.err # "none"
    <3>1. Name(r, token, s) = Errs(r, s.err)
      BY <1>4, <2>3 DEF Name
    <3>2. QED
      BY <2>2, <2>3, <3>1, BothFail
  <2>4. CASE s.err = "none"
    <3>1. Name(r, token, s) = Goes(r, d, "colon")
      BY <1>1, <1>4, <2>4 DEF Name
    <3>2. IsFrame(g) /\ StateOf(g) = "MemberKey" /\ Commas(g) = Commas(f)
      <4>1. f.n \in Nat
        BY FramesParts DEF IsFrame
      <4>2. QED
        BY <4>1 DEF IsFrame, StateOf, Commas
    <3>3. p.stack = Append(StackOf(Front(F)), Entry(Last(Front(F)), f))
      BY TopIs
    <3>4. Entry(Last(Front(F)), f) = Entry(Last(Front(F)), g)
      BY <3>2 DEF Entry
    <3>5. s.rest = FALSE
      BY <1>4
    <3>6. Transit(p, token, s) = Iterating(StateOf(g), Append(StackOf(Front(F)), Entry(Last(Front(F)), g)), d, FALSE)
      BY <2>2, <2>4, <3>2, <3>3, <3>4, <3>5
    <3> HIDE DEF d
    <3>7. QED
      BY <3>1, <3>2, <3>6, GoesAgrees
  <2>5. QED
    BY <2>3, <2>4
<1>5. QED
  BY <1>3, <1>4

\* The comma behind a value.
LEMMA CommaAgrees ==
  ASSUME NEW F, FramesFit(F), NEW f, f = Last(F), f.in # "root", f.at = "behind",
         NEW doc, NEW token, token.t = "Comma", NEW s,
         NEW p, p = Mirror(F, doc), NEW r, r = Reading(F, doc)
  PROVE  Agreed(Goes(r, r.doc, IF f.in = "object" THEN "name" ELSE "value"), Transit(p, token, s), f)
<1> DEFINE place == IF f.in = "object" THEN "name" ELSE "value"
           g == [in |-> f.in, at |-> place, n |-> f.n]
<1>1. r.doc = doc /\ p.doc = doc /\ p.state = StateOf(f)
  BY DEF Reading, Mirror, Iterating
<1>2. f.n \in Nat /\ f.in \in {"array", "object"}
  BY FramesParts DEF IsFrame
<1>3. IsFrame(g) /\ Commas(g) = Commas(f) + 1 /\ StateOf(g) = IF f.in = "object" THEN "MemberDelimiter" ELSE "ElementDelimiter"
  <2>1. Commas(f) = f.n - 1
    BY DEF Commas
  <2>2. QED
    BY <1>2, <2>1 DEF IsFrame, StateOf, Commas
<1>4. Predict(p.state, token.t) = StateOf(g)
  <2>1. p.state = IF f.in = "object" THEN "MemberValue" ELSE "Element"
    BY <1>1, <1>2 DEF StateOf
  <2>2. QED
    BY <1>3, <2>1, PredictObject
<1>5. Transit(p, token, s) = Iterating(StateOf(g), Append(Front(p.stack), [StackTop(p) EXCEPT !.n = @ + 1]), doc, FALSE)
  <2>1. Predict(p.state, token.t) \in {"MemberDelimiter", "ElementDelimiter"}
    BY <1>3, <1>4
  <2>2. Transit(p, token, s) =
          Iterating(Predict(p.state, token.t), Append(Front(p.stack), [StackTop(p) EXCEPT !.n = @ + 1]), p.doc, FALSE)
    BY <2>1, TransitIs, Zenon
  <2>3. QED
    BY <1>1, <1>4, <2>2, Zenon
<1>6. Front(p.stack) = StackOf(Front(F)) /\ StackTop(p) = Entry(Last(Front(F)), f)
  BY TopIs
<1>7. [Entry(Last(Front(F)), f) EXCEPT !.n = @ + 1] = Entry(Last(Front(F)), g)
  BY <1>3 DEF Entry
<1>8. Transit(p, token, s) = Iterating(StateOf(g), Append(StackOf(Front(F)), Entry(Last(Front(F)), g)), doc, FALSE)
  BY <1>5, <1>6, <1>7, Zenon
<1> HIDE DEF place
<1>9. place # "rest" /\ place # "first" /\ g = [in |-> f.in, at |-> place, n |-> f.n]
  BY DEF place
<1> HIDE DEF g
<1>10. Agreed(Goes(r, doc, place), Transit(p, token, s), f)
  BY <1>3, <1>8, <1>9, GoesAgrees
<1>11. QED
  BY <1>1, <1>10 DEF place

\* ParseObject() and ParseArray() at each place.
LEMMA ParseObjectIs ==
  ASSUME NEW r, NEW token, NEW s, NEW f, f = Inner(r), f.at \in {"first", "name", "colon", "value", "behind", "rest"}
  PROVE  /\ f.at \in {"first", "behind"} /\ token.t = "RightCurly" =>
              ParseObject(r, token, s) = Ended(r, EndObject(r.doc, f.n))
         /\ f.at = "behind" /\ token.t = "Comma" => ParseObject(r, token, s) = Goes(r, r.doc, "name")
         /\ f.at = "rest" \/ (f.at = "behind" /\ token.t \notin {"RightCurly", "Comma"}) =>
              ParseObject(r, token, s) = Errs(r, "ObjectMissCommaOrCurlyBracket")
         /\ f.at = "name" \/ (f.at = "first" /\ token.t # "RightCurly") => ParseObject(r, token, s) = Name(r, token, s)
         /\ f.at = "colon" /\ token.t = "Colon" => ParseObject(r, token, s) = Goes(r, r.doc, "value")
         /\ f.at = "colon" /\ token.t # "Colon" => ParseObject(r, token, s) = Errs(r, "ObjectMissColon")
         /\ f.at = "value" => ParseObject(r, token, s) = ParseValue(r, token, s)
<1>1. CASE f.at = "first"
  BY <1>1 DEF ParseObject
<1>2. CASE f.at = "name"
  BY <1>2 DEF ParseObject
<1>3. CASE f.at = "colon"
  BY <1>3 DEF ParseObject
<1>4. CASE f.at = "value"
  BY <1>4 DEF ParseObject
<1>5. CASE f.at = "behind"
  BY <1>5 DEF ParseObject
<1>6. CASE f.at = "rest"
  BY <1>6 DEF ParseObject
<1>7. QED
  BY <1>1, <1>2, <1>3, <1>4, <1>5, <1>6

\* The same for an array.
LEMMA ParseArrayIs ==
  ASSUME NEW r, NEW token, NEW s, NEW f, f = Inner(r), f.at \in {"first", "value", "behind", "rest"}
  PROVE  /\ f.at \in {"first", "behind"} /\ token.t = "RightBracket" =>
              ParseArray(r, token, s) = Ended(r, EndArray(r.doc, f.n))
         /\ f.at = "behind" /\ token.t = "Comma" => ParseArray(r, token, s) = Goes(r, r.doc, "value")
         /\ f.at = "rest" \/ (f.at = "behind" /\ token.t \notin {"RightBracket", "Comma"}) =>
              ParseArray(r, token, s) = Errs(r, "ArrayMissCommaOrSquareBracket")
         /\ f.at = "value" \/ (f.at = "first" /\ token.t # "RightBracket") =>
              ParseArray(r, token, s) = ParseValue(r, token, s)
<1>1. CASE f.at = "first"
  BY <1>1 DEF ParseArray
<1>2. CASE f.at = "value"
  BY <1>2 DEF ParseArray
<1>3. CASE f.at = "behind"
  BY <1>3 DEF ParseArray
<1>4. CASE f.at = "rest"
  BY <1>4 DEF ParseArray
<1>5. QED
  BY <1>1, <1>2, <1>3, <1>4

\* The parsers agree in an object,
LEMMA ObjectAgrees ==
  ASSUME NEW F, FramesFit(F), NEW f, f = Last(F), f.in = "object",
         NEW doc, NEW token, NEW s, s.rest \in BOOLEAN, token.t = "string" => ~s.rest,
         token.t \notin Scalars => s.err = "ValueInvalid",
         NEW p, p = Mirror(F, doc), NEW r, r = Reading(F, doc)
  PROVE  Agreed(ParseObject(r, token, s), IterativeParse(p, token, s), f)
<1>1. IsFrame(f) /\ f.n \in Nat /\ f.at \in {"first", "name", "colon", "value", "behind", "rest"}
  BY FramesParts DEF IsFrame
<1>2. Inner(r) = f /\ r.doc = doc /\ p.doc = doc /\ p.state = StateOf(f) /\ p.stack = StackOf(F)
  BY IterativeIs DEF Reading, Inner
<1>3. StateOf(f) = CASE f.at = "first" -> "ObjectInitial" [] f.at = "name" -> "MemberDelimiter"
                     [] f.at = "colon" -> "MemberKey" [] f.at = "value" -> "KeyValueDelimiter"
                     [] OTHER -> "MemberValue"
  BY <1>1 DEF StateOf
<1>4. f.at # "rest" => IterativeParse(p, token, s) = Transit(p, token, s)
  BY <1>3, IterativeIs
<1>5. CASE f.at \in {"first", "behind"} /\ token.t = "RightCurly"
  <2>1. ParseObject(r, token, s) = Ended(r, EndObject(doc, f.n))
    BY <1>1, <1>2, <1>5, ParseObjectIs
  <2>2. Predict(p.state, token.t) = "ObjectFinish" /\ p.state # "MemberDelimiter"
    BY <1>2, <1>3, <1>5, PredictObject
  <2>3. Transit(p, token, s) = Finish(p, EndObject(p.doc, CountOf(p)))
    BY <2>2, TransitIs
  <2>4. CountOf(p) = f.n
    BY <1>5, CountIs
  <2>5. Transit(p, token, s) = Finish(p, EndObject(doc, f.n))
    BY <1>2, <2>3, <2>4
  <2>6. QED
    BY <1>4, <1>5, <2>1, <2>5, FinishAgrees
<1>6. CASE f.at = "behind" /\ token.t = "Comma"
  <2>1. ParseObject(r, token, s) = Goes(r, r.doc, IF f.in = "object" THEN "name" ELSE "value")
    BY <1>1, <1>2, <1>6, ParseObjectIs
  <2>2. QED
    BY <1>4, <1>6, <2>1, CommaAgrees
<1>7. CASE f.at = "rest" \/ (f.at = "behind" /\ token.t \notin {"RightCurly", "Comma"})
  <2>1. ParseObject(r, token, s) = Errs(r, "ObjectMissCommaOrCurlyBracket")
    BY <1>1, <1>2, <1>7, ParseObjectIs
  <2>2. HandleError(p.state) = "ObjectMissCommaOrCurlyBracket" /\ p.state = "MemberValue"
    BY <1>2, <1>3, <1>7 DEF HandleError
  <2>3. IterativeParse(p, token, s) = Fails(p, "ObjectMissCommaOrCurlyBracket")
    <3>1. CASE f.at = "rest"
      BY <1>2, <2>2, <3>1, IterativeIs
    <3>2. CASE f.at = "behind" /\ token.t \notin {"RightCurly", "Comma"}
      <4>1. Predict(p.state, token.t) = "Error"
        BY <2>2, <3>2, PredictObject
      <4>2. QED
        BY <1>4, <2>2, <3>2, <4>1, TransitIs
    <3>3. QED
      BY <1>7, <3>1, <3>2
  <2>4. QED
    BY <2>1, <2>3, BothFail
<1>8. CASE f.at = "name" \/ (f.at = "first" /\ token.t # "RightCurly")
  <2>1. ParseObject(r, token, s) = Name(r, token, s)
    BY <1>1, <1>2, <1>8, ParseObjectIs
  <2>2. QED
    BY <1>4, <1>8, <2>1, NameAgrees
<1>9. CASE f.at = "colon" /\ token.t = "Colon"
  <2> DEFINE g == [in |-> f.in, at |-> "value", n |-> f.n]
  <2>1. ParseObject(r, token, s) = Goes(r, doc, "value")
    BY <1>1, <1>2, <1>9, ParseObjectIs
  <2>2. Predict(p.state, token.t) = "KeyValueDelimiter"
    BY <1>2, <1>3, <1>9, PredictObject
  <2>3. IsFrame(g) /\ StateOf(g) = "KeyValueDelimiter" /\ Commas(g) = Commas(f)
    BY <1>1, <1>9 DEF IsFrame, StateOf, Commas
  <2>4. Transit(p, token, s) = Iterating(Predict(p.state, token.t), p.stack, p.doc, FALSE)
    BY <2>2, TransitIs
  <2>5. p.stack = Append(StackOf(Front(F)), Entry(Last(Front(F)), f))
    BY TopIs
  <2>6. Entry(Last(Front(F)), f) = Entry(Last(Front(F)), g)
    BY <2>3 DEF Entry
  <2>7. Transit(p, token, s) = Iterating(StateOf(g), Append(StackOf(Front(F)), Entry(Last(Front(F)), g)), doc, FALSE)
    BY <1>2, <2>2, <2>3, <2>4, <2>5, <2>6, Zenon
  <2>8. QED
    BY <1>4, <1>9, <2>1, <2>3, <2>7, GoesAgrees
<1>10. CASE f.at = "colon" /\ token.t # "Colon"
  <2>1. ParseObject(r, token, s) = Errs(r, "ObjectMissColon")
    BY <1>1, <1>2, <1>10, ParseObjectIs
  <2>2. HandleError(p.state) = "ObjectMissColon" /\ p.state = "MemberKey"
    BY <1>2, <1>3, <1>10 DEF HandleError
  <2>3. Predict(p.state, token.t) = "Error"
    BY <1>10, <2>2, PredictObject
  <2>4. Transit(p, token, s) = Fails(p, "ObjectMissColon")
    BY <2>2, <2>3, TransitIs
  <2>5. QED
    BY <1>4, <1>10, <2>1, <2>4, BothFail
<1>11. CASE f.at = "value"
  <2>1. ParseObject(r, token, s) = ParseValue(r, token, s)
    BY <1>1, <1>2, <1>11, ParseObjectIs
  <2>2. Awaits(f)
    BY <1>11 DEF Awaits
  <2>3. QED
    BY <1>4, <1>11, <2>1, <2>2, ValueAgrees
<1>12. QED
  BY <1>1, <1>5, <1>6, <1>7, <1>8, <1>9, <1>10, <1>11

\* in an array,
LEMMA ArrayAgrees ==
  ASSUME NEW F, FramesFit(F), NEW f, f = Last(F), f.in = "array",
         NEW doc, NEW token, NEW s, s.rest \in BOOLEAN, token.t \notin Scalars => s.err = "ValueInvalid",
         NEW p, p = Mirror(F, doc), NEW r, r = Reading(F, doc)
  PROVE  Agreed(ParseArray(r, token, s), IterativeParse(p, token, s), f)
<1>1. IsFrame(f) /\ f.n \in Nat /\ f.at \in {"first", "value", "behind", "rest"}
  BY FramesParts DEF IsFrame
<1>2. Inner(r) = f /\ r.doc = doc /\ p.doc = doc /\ p.state = StateOf(f) /\ p.stack = StackOf(F)
  BY IterativeIs DEF Reading, Inner
<1>3. StateOf(f) = CASE f.at = "first" -> "ArrayInitial" [] f.at = "value" -> "ElementDelimiter"
                     [] OTHER -> "Element"
  BY <1>1 DEF StateOf
<1>4. f.at # "rest" => IterativeParse(p, token, s) = Transit(p, token, s)
  BY <1>3, IterativeIs
<1>5. CASE f.at \in {"first", "behind"} /\ token.t = "RightBracket"
  <2>1. ParseArray(r, token, s) = Ended(r, EndArray(doc, f.n))
    BY <1>1, <1>2, <1>5, ParseArrayIs
  <2>2. Predict(p.state, token.t) = "ArrayFinish" /\ p.state # "ElementDelimiter"
    <3>1. "ArrayInitial" \in Expecting
      BY DEF Expecting
    <3>2. QED
      BY <1>2, <1>3, <1>5, <3>1, PredictObject, PredictValue
  <2>3. Transit(p, token, s) = Finish(p, EndArray(p.doc, CountOf(p)))
    BY <2>2, TransitIs
  <2>4. CountOf(p) = f.n
    BY <1>5, CountIs
  <2>5. Transit(p, token, s) = Finish(p, EndArray(doc, f.n))
    BY <1>2, <2>3, <2>4
  <2>6. QED
    BY <1>4, <1>5, <2>1, <2>5, FinishAgrees
<1>6. CASE f.at = "behind" /\ token.t = "Comma"
  <2>1. ParseArray(r, token, s) = Goes(r, r.doc, IF f.in = "object" THEN "name" ELSE "value")
    BY <1>1, <1>2, <1>6, ParseArrayIs
  <2>2. QED
    BY <1>4, <1>6, <2>1, CommaAgrees
<1>7. CASE f.at = "rest" \/ (f.at = "behind" /\ token.t \notin {"RightBracket", "Comma"})
  <2>1. ParseArray(r, token, s) = Errs(r, "ArrayMissCommaOrSquareBracket")
    BY <1>1, <1>2, <1>7, ParseArrayIs
  <2>2. HandleError(p.state) = "ArrayMissCommaOrSquareBracket" /\ p.state = "Element"
    BY <1>2, <1>3, <1>7 DEF HandleError
  <2>3. IterativeParse(p, token, s) = Fails(p, "ArrayMissCommaOrSquareBracket")
    <3>1. CASE f.at = "rest"
      BY <1>2, <2>2, <3>1, IterativeIs
    <3>2. CASE f.at = "behind" /\ token.t \notin {"RightBracket", "Comma"}
      <4>1. Predict(p.state, token.t) = "Error"
        BY <2>2, <3>2, PredictObject
      <4>2. QED
        BY <1>4, <2>2, <3>2, <4>1, TransitIs
    <3>3. QED
      BY <1>7, <3>1, <3>2
  <2>4. QED
    BY <2>1, <2>3, BothFail
<1>8. CASE f.at = "value" \/ (f.at = "first" /\ token.t # "RightBracket")
  <2>1. ParseArray(r, token, s) = ParseValue(r, token, s)
    BY <1>1, <1>2, <1>8, ParseArrayIs
  <2>2. Awaits(f) /\ (f.at = "first" => token.t # "RightBracket")
    BY <1>8 DEF Awaits
  <2>3. QED
    BY <1>4, <1>8, <2>1, <2>2, ValueAgrees
<1>9. QED
  BY <1>1, <1>5, <1>6, <1>7, <1>8

\* and outside of both.
LEMMA RootAgrees ==
  ASSUME NEW F, FramesFit(F), NEW f, f = Last(F), f.in = "root",
         NEW doc, NEW token, NEW s, s.rest \in BOOLEAN, token.t \notin Scalars => s.err = "ValueInvalid",
         NEW p, p = Mirror(F, doc), NEW r, r = Reading(F, doc)
  PROVE  Agreed(ParseRoot(r, token, s), IterativeParse(p, token, s), f)
<1>1. IsFrame(f) /\ f.n \in Nat /\ f.at \in {"first", "behind", "rest"}
  BY FramesParts DEF IsFrame
<1>2. Inner(r) = f /\ r.doc = doc /\ p.doc = doc /\ p.state = StateOf(f) /\ p.stack = StackOf(F)
  BY IterativeIs DEF Reading, Inner
<1>3. StateOf(f) = IF f.at = "first" THEN "Start" ELSE "Finish"
  BY DEF StateOf
<1>4. CASE f.at = "first"
  <2>1. IterativeParse(p, token, s) = Transit(p, token, s)
    BY <1>3, <1>4, IterativeIs
  <2>2. CASE token.t = "end"
    <3>1. ParseRoot(r, token, s) = Errs(r, "DocumentEmpty")
      BY <1>2, <1>4, <2>2 DEF ParseRoot
    <3>2. Predict(p.state, token.t) = "Error"
      BY <1>2, <1>3, <1>4, <2>2 DEF Predict, Scalars, Valued
    <3>3. HandleError(p.state) = "DocumentEmpty"
      BY <1>2, <1>3, <1>4 DEF HandleError
    <3>4. Transit(p, token, s) = Fails(p, "DocumentEmpty")
      BY <3>2, <3>3, TransitIs
    <3>5. QED
      BY <2>1, <3>1, <3>4, BothFail
  <2>3. CASE token.t # "end"
    <3>1. ParseRoot(r, token, s) = ParseValue(r, token, s)
      BY <1>2, <1>4, <2>3 DEF ParseRoot
    <3>2. Awaits(f)
      BY <1>4 DEF Awaits
    <3>3. QED
      BY <2>1, <3>1, <3>2, ValueAgrees
  <2>4. QED
    BY <2>2, <2>3
<1>5. CASE f.at # "first"
  <2>1. p = Iterating("Finish", StackOf(F), doc, f.at = "rest")
    BY <1>3, <1>5 DEF Mirror
  <2>2. HandleError("Finish") = "DocumentRootNotSingular"
    BY DEF HandleError
  <2>3. CASE f.at = "behind" /\ token.t = "end"
    <3>1. ParseRoot(r, token, s) = [r EXCEPT !.done = TRUE]
      BY <1>2, <2>3 DEF ParseRoot
    <3>2. p = Iterating("Finish", StackOf(F), doc, FALSE)
      BY <2>1, <2>3
    <3>3. p.done = FALSE /\ p.rest = FALSE /\ p.state = "Finish" /\ p.err = "none" /\ p.doc = doc
      BY <3>2 DEF Iterating
    <3>4. IterativeParse(p, token, s) = [p EXCEPT !.done = TRUE]
      BY <2>3, <3>3 DEF IterativeParse
    <3>5. [p EXCEPT !.done = TRUE].done = TRUE /\ [p EXCEPT !.done = TRUE].doc = doc /\ [p EXCEPT !.done = TRUE].err = "none"
      BY <3>2 DEF Iterating
    <3>6. [r EXCEPT !.done = TRUE].done = TRUE /\ [r EXCEPT !.done = TRUE].doc = doc /\ [r EXCEPT !.done = TRUE].err = "none"
      BY DEF Reading
    <3>7. QED
      BY <3>1, <3>4, <3>5, <3>6 DEF Agreed
  <2>4. CASE ~(f.at = "behind" /\ token.t = "end")
    <3>1. ParseRoot(r, token, s) = Errs(r, "DocumentRootNotSingular")
      BY <1>2, <1>5, <2>4 DEF ParseRoot
    <3>2. IterativeParse(p, token, s) = Fails(p, "DocumentRootNotSingular")
      <4>1. CASE f.at = "rest"
        BY <1>3, <2>2, <4>1, IterativeIs
      <4>2. CASE f.at = "behind"
        <5>1. p = Iterating("Finish", StackOf(F), doc, FALSE)
          BY <2>1, <4>2
        <5>2. p.done = FALSE /\ p.rest = FALSE /\ p.state = "Finish"
          BY <5>1 DEF Iterating
        <5>3. IterativeParse(p, token, s) = Transit(p, token, s)
          BY <2>4, <4>2, <5>2 DEF IterativeParse
        <5>4. Predict(p.state, token.t) = "Error"
          BY <5>2, PredictObject
        <5>5. QED
          BY <2>2, <5>2, <5>3, <5>4, TransitIs
      <4>3. QED
        BY <1>1, <1>5, <4>1, <4>2
    <3>3. QED
      BY <3>1, <3>2, BothFail
  <2>5. QED
    BY <2>3, <2>4
<1>6. QED
  BY <1>4, <1>5

\* What is read of a string.
LEMMA ScalarNamed ==
  ASSUME NEW token, token.t = "string"
  PROVE  ~Scalar(token).rest /\ Scalar(token).err = ParseString(token.raw).err
         /\ Scalar(token).value = [kind |-> "string", str |-> ParseString(token.raw).str]
  BY DEF Scalar

\* Both parsers, given the same token, still agree.
LEMMA NextAgrees ==
  ASSUME NEW F, FramesFit(F), NEW doc, NEW token, NEW p, p = Mirror(F, doc), NEW r, r = Reading(F, doc)
  PROVE  Agreed(ParseNext(r, token), IterativeNext(p, token), Last(F))
<1> DEFINE s == Scalar(token)
           f == Last(F)
<1>1. s.rest \in BOOLEAN /\ (token.t \notin Scalars => s.err = "ValueInvalid") /\ (token.t = "string" => ~s.rest)
  BY ScalarShape, ScalarNamed
<1>2. IterativeNext(p, token) = IterativeParse(p, token, s) /\ ParseNext(r, token) = Parse(r, token, s)
  BY DEF IterativeNext, ParseNext
<1>3. ~r.done /\ Inner(r) = f
  BY DEF Reading, Inner
<1>4. f.in \in {"root", "array", "object"}
  BY FramesParts DEF IsFrame
<1> HIDE DEF s, f
<1>5. CASE f.in = "object"
  <2>1. Parse(r, token, s) = ParseObject(r, token, s)
    BY <1>3, <1>5 DEF Parse
  <2>2. QED
    BY <1>1, <1>2, <1>5, <2>1, ObjectAgrees DEF f
<1>6. CASE f.in = "array"
  <2>1. Parse(r, token, s) = ParseArray(r, token, s)
    BY <1>3, <1>6 DEF Parse
  <2>2. QED
    BY <1>1, <1>2, <1>6, <2>1, ArrayAgrees DEF f
<1>7. CASE f.in = "root"
  <2>1. Parse(r, token, s) = ParseRoot(r, token, s)
    BY <1>3, <1>7 DEF Parse
  <2>2. QED
    BY <1>1, <1>2, <1>7, <2>1, RootAgrees DEF f
<1>8. QED
  BY <1>4, <1>5, <1>6, <1>7

------------------------------------------------------------------------------
\* What one token does to a reader that goes on.
Refuses(r2) == r2.done /\ r2.err # "none" /\ r2.doc = <<>>
BeginsValue(F, doc, token, r2) ==
  /\ Awaits(Last(F)) /\ token.t \in {"LeftCurly", "LeftBracket"}
  /\ r2 = Reading(Append(F, Frame(IF token.t = "LeftCurly" THEN "object" ELSE "array")), Append(doc, [kind |-> "open"]))
Takes(F, doc, token, r2) ==
  /\ Awaits(Last(F)) /\ token.t \in Scalars /\ Scalar(token).err = "none"
  /\ \E place \in {"behind", "rest"} :
       /\ (place = "rest") = Scalar(token).rest
       /\ r2 = Reading(Append(Front(F), [in |-> Last(F).in, at |-> place, n |-> Last(F).n + 1]), Append(doc, Scalar(token).value))
NamesMember(F, doc, token, r2) ==
  /\ Last(F).in = "object" /\ Last(F).at \in {"first", "name"} /\ token.t = "string" /\ ParseString(token.raw).err = "none"
  /\ r2 = Reading(Append(Front(F), [in |-> "object", at |-> "colon", n |-> Last(F).n]),
                  Append(doc, [kind |-> "string", str |-> ParseString(token.raw).str]))
Passes(F, doc, token, r2) ==
  \E place :
    /\ \/ Last(F).in = "object" /\ Last(F).at = "colon" /\ token.t = "Colon" /\ place = "value"
       \/ Last(F).in = "object" /\ Last(F).at = "behind" /\ token.t = "Comma" /\ place = "name"
       \/ Last(F).in = "array" /\ Last(F).at = "behind" /\ token.t = "Comma" /\ place = "value"
    /\ r2 = Reading(Append(Front(F), [in |-> Last(F).in, at |-> place, n |-> Last(F).n]), doc)
Ends(F, doc, token, r2) ==
  LET n == Last(F).n
      G == Front(F)
      H == Append(Front(G), [in |-> Last(G).in, at |-> "behind", n |-> Last(G).n + 1])
  IN /\ Last(F).at \in {"first", "behind"}
     /\ \/ Last(F).in = "object" /\ token.t = "RightCurly" /\ r2 = Reading(H, EndObject(doc, n))
        \/ Last(F).in = "array" /\ token.t = "RightBracket" /\ r2 = Reading(H, EndArray(doc, n))
Stops(F, doc, token, r2) ==
  /\ Last(F).in = "root" /\ Last(F).at = "behind" /\ token.t = "end"
  /\ r2.done /\ r2.err = "none" /\ r2.doc = doc

\* An error refuses the text.
LEMMA ErrsRefuses ==
  ASSUME NEW r, NEW e, e # "none" PROVE Refuses(Errs(r, e))
<1>1. Errs(r, e).done = TRUE /\ Errs(r, e).err = e /\ Errs(r, e).doc = <<>>
  BY DEF Errs
<1>2. QED
  BY <1>1 DEF Refuses

\* Where a value is awaited, one begins or is taken, or the text is refused.
LEMMA ValueSteps ==
  ASSUME NEW F, FramesFit(F), Awaits(Last(F)), NEW doc, NEW token, NEW r, r = Reading(F, doc),
         NEW r2, r2 = ParseValue(r, token, Scalar(token))
  PROVE  Refuses(r2) \/ BeginsValue(F, doc, token, r2) \/ Takes(F, doc, token, r2)
<1> DEFINE s == Scalar(token)
           f == Last(F)
           G == Front(F)
<1>1. r.frames = F /\ r.doc = doc
  BY ReadingIs
<1>2. s.rest \in BOOLEAN /\ (token.t \notin Scalars => s.err = "ValueInvalid")
  BY ScalarShape
<1>3. Sequence(G) /\ F = Append(G, f)
  BY FramesParts
<1> HIDE DEF s
<1>4. CASE token.t \in {"LeftCurly", "LeftBracket"}
  <2>1. r2 = Reading(Append(r.frames, Frame(IF token.t = "LeftCurly" THEN "object" ELSE "array")), Append(r.doc, [kind |-> "open"]))
    BY <1>4, ValueParsed DEF s
  <2>2. QED
    BY <1>1, <1>4, <2>1 DEF BeginsValue
<1>5. CASE token.t \in Scalars /\ s.err = "none"
  <2> DEFINE place == IF s.rest THEN "rest" ELSE "behind"
             d == Append(doc, s.value)
  <2>1. r2 = Counted(F, d, place)
    BY <1>1, <1>5, ValueParsed DEF s
  <2>2. place \in {"behind", "rest"} /\ (place = "rest") = s.rest
    BY <1>2
  <2> HIDE DEF G, f, place, d
  <2>3. r2 = Reading(Append(G, [in |-> f.in, at |-> place, n |-> f.n + 1]), d)
    BY <1>3, <2>1, CountedAt
  <2>4. QED
    BY <1>5, <2>2, <2>3 DEF Takes, s, G, f, d
<1>6. CASE token.t \notin {"LeftCurly", "LeftBracket"} /\ ~(token.t \in Scalars /\ s.err = "none")
  <2>1. r2 = Errs(r, s.err)
    BY <1>6, ValueParsed DEF s
  <2>2. s.err # "none"
    BY <1>2, <1>6
  <2>3. QED
    BY <2>1, <2>2, ErrsRefuses
<1>7. QED
  BY <1>4, <1>5, <1>6

\* At its end a compound counts as a value of the frame around it.
LEMMA EndSteps ==
  ASSUME NEW F, FramesFit(F), Last(F).in # "root", NEW doc, NEW d, NEW r, r = Reading(F, doc)
  PROVE  Ended(r, d) = Reading(Append(Front(Front(F)), [in |-> Last(Front(F)).in, at |-> "behind", n |-> Last(Front(F)).n + 1]), d)
<1> DEFINE G == Front(F)
           g == Last(G)
           H == Front(G)
<1>1. G # <<>> /\ FramesFit(G)
  BY FramesParts
<1>2. Ended(r, d) = Counted(G, d, "behind")
  BY DEF Ended, Reading
<1> HIDE DEF G
<1>3. Sequence(H) /\ G = Append(H, g)
  BY <1>1, FramesParts
<1> HIDE DEF g, H
<1>4. Counted(G, d, "behind") = Reading(Append(H, [in |-> g.in, at |-> "behind", n |-> g.n + 1]), d)
  BY <1>3, CountedAt
<1>5. QED
  BY <1>2, <1>4 DEF G, g, H

\* Elsewhere only the place changes.
LEMMA GoesSteps ==
  ASSUME NEW F, FramesFit(F), NEW doc, NEW d, NEW place, NEW r, r = Reading(F, doc)
  PROVE  Goes(r, d, place) = Reading(Append(Front(F), [in |-> Last(F).in, at |-> place, n |-> Last(F).n]), d)
<1> DEFINE G == Front(F)
           f == Last(F)
<1>1. Sequence(G) /\ F = Append(G, f) /\ IsFrame(f)
  BY FramesParts
<1> HIDE DEF G, f
<1>2. Goes(r, d, place) = Reading(Append(G, [in |-> f.in, at |-> place, n |-> f.n]), d)
  BY <1>1, GoesTo
<1>3. QED
  BY <1>2 DEF G, f

\* What a token does in an object,
LEMMA ObjectSteps ==
  ASSUME NEW F, FramesFit(F), Last(F).in = "object", NEW doc, NEW token, NEW r, r = Reading(F, doc),
         NEW r2, r2 = ParseObject(r, token, Scalar(token))
  PROVE  \/ Refuses(r2) \/ BeginsValue(F, doc, token, r2) \/ Takes(F, doc, token, r2) \/ NamesMember(F, doc, token, r2)
         \/ Passes(F, doc, token, r2) \/ Ends(F, doc, token, r2)
<1> DEFINE f == Last(F)
           s == Scalar(token)
<1>1. f.at \in {"first", "name", "colon", "value", "behind", "rest"}
  BY FramesParts DEF IsFrame
<1>2. Inner(r) = f /\ r.doc = doc
  BY DEF Reading, Inner
<1> HIDE DEF s
<1>3. CASE f.at \in {"first", "behind"} /\ token.t = "RightCurly"
  <2>1. r2 = Ended(r, EndObject(doc, f.n))
    BY <1>1, <1>2, <1>3, ParseObjectIs
  <2> HIDE DEF f
  <2>2. r2 = Reading(Append(Front(Front(F)), [in |-> Last(Front(F)).in, at |-> "behind", n |-> Last(Front(F)).n + 1]), EndObject(doc, f.n))
    BY <2>1, EndSteps DEF f
  <2>3. Ends(F, doc, token, r2)
    BY <1>3, <2>2 DEF Ends, f
  <2>4. QED
    BY <2>3
<1>4. CASE f.at = "behind" /\ token.t = "Comma"
  <2>1. r2 = Goes(r, doc, "name")
    BY <1>1, <1>2, <1>4, ParseObjectIs
  <2>2. Passes(F, doc, token, r2)
    BY <1>4, <2>1, GoesSteps DEF Passes
  <2>3. QED
    BY <2>2
<1>5. CASE f.at = "rest" \/ (f.at = "behind" /\ token.t \notin {"RightCurly", "Comma"})
  <2>1. r2 = Errs(r, "ObjectMissCommaOrCurlyBracket")
    BY <1>1, <1>2, <1>5, ParseObjectIs
  <2>2. QED
    BY <2>1, ErrsRefuses
<1>6. CASE f.at = "name" \/ (f.at = "first" /\ token.t # "RightCurly")
  <2>1. r2 = Name(r, token, s)
    BY <1>1, <1>2, <1>6, ParseObjectIs DEF s
  <2>2. CASE token.t # "string"
    <3>1. r2 = Errs(r, "ObjectMissName")
      BY <2>1, <2>2 DEF Name
    <3>2. QED
      BY <3>1, ErrsRefuses
  <2>3. CASE token.t = "string" /\ s.err # "none"
    <3>1. r2 = Errs(r, s.err)
      BY <2>1, <2>3 DEF Name
    <3>2. QED
      BY <2>3, <3>1, ErrsRefuses
  <2>4. CASE token.t = "string" /\ s.err = "none"
    <3>1. r2 = Goes(r, Append(r.doc, s.value), "colon")
      BY <2>1, <2>4 DEF Name
    <3>2. s.err = ParseString(token.raw).err /\ s.value = [kind |-> "string", str |-> ParseString(token.raw).str]
      BY <2>4, ScalarNamed DEF s
    <3>3. r2 = Reading(Append(Front(F), [in |-> Last(F).in, at |-> "colon", n |-> Last(F).n]), Append(doc, s.value))
      BY <1>2, <3>1, GoesSteps
    <3>4. NamesMember(F, doc, token, r2)
      BY <1>6, <2>4, <3>2, <3>3 DEF NamesMember
    <3>5. QED
      BY <3>4
  <2>5. QED
    BY <2>2, <2>3, <2>4
<1>7. CASE f.at = "colon" /\ token.t = "Colon"
  <2>1. r2 = Goes(r, doc, "value")
    BY <1>1, <1>2, <1>7, ParseObjectIs
  <2>2. Passes(F, doc, token, r2)
    BY <1>7, <2>1, GoesSteps DEF Passes
  <2>3. QED
    BY <2>2
<1>8. CASE f.at = "colon" /\ token.t # "Colon"
  <2>1. r2 = Errs(r, "ObjectMissColon")
    BY <1>1, <1>2, <1>8, ParseObjectIs
  <2>2. QED
    BY <2>1, ErrsRefuses
<1>9. CASE f.at = "value"
  <2>1. r2 = ParseValue(r, token, s)
    BY <1>1, <1>2, <1>9, ParseObjectIs DEF s
  <2>2. Awaits(f)
    BY <1>9 DEF Awaits
  <2>3. QED
    BY <2>1, <2>2, ValueSteps DEF s
<1>10. QED
  BY <1>1, <1>3, <1>4, <1>5, <1>6, <1>7, <1>8, <1>9

\* in an array,
LEMMA ArraySteps ==
  ASSUME NEW F, FramesFit(F), Last(F).in = "array", NEW doc, NEW token, NEW r, r = Reading(F, doc),
         NEW r2, r2 = ParseArray(r, token, Scalar(token))
  PROVE  \/ Refuses(r2) \/ BeginsValue(F, doc, token, r2) \/ Takes(F, doc, token, r2)
         \/ Passes(F, doc, token, r2) \/ Ends(F, doc, token, r2)
<1> DEFINE f == Last(F)
           s == Scalar(token)
<1>1. f.at \in {"first", "value", "behind", "rest"}
  BY FramesParts DEF IsFrame
<1>2. Inner(r) = f /\ r.doc = doc
  BY DEF Reading, Inner
<1> HIDE DEF s
<1>3. CASE f.at \in {"first", "behind"} /\ token.t = "RightBracket"
  <2>1. r2 = Ended(r, EndArray(doc, f.n))
    BY <1>1, <1>2, <1>3, ParseArrayIs
  <2> HIDE DEF f
  <2>2. r2 = Reading(Append(Front(Front(F)), [in |-> Last(Front(F)).in, at |-> "behind", n |-> Last(Front(F)).n + 1]), EndArray(doc, f.n))
    BY <2>1, EndSteps DEF f
  <2>3. Ends(F, doc, token, r2)
    BY <1>3, <2>2 DEF Ends, f
  <2>4. QED
    BY <2>3
<1>4. CASE f.at = "behind" /\ token.t = "Comma"
  <2>1. r2 = Goes(r, doc, "value")
    BY <1>1, <1>2, <1>4, ParseArrayIs
  <2>2. Passes(F, doc, token, r2)
    BY <1>4, <2>1, GoesSteps DEF Passes
  <2>3. QED
    BY <2>2
<1>5. CASE f.at = "rest" \/ (f.at = "behind" /\ token.t \notin {"RightBracket", "Comma"})
  <2>1. r2 = Errs(r, "ArrayMissCommaOrSquareBracket")
    BY <1>1, <1>2, <1>5, ParseArrayIs
  <2>2. QED
    BY <2>1, ErrsRefuses
<1>6. CASE f.at = "value" \/ (f.at = "first" /\ token.t # "RightBracket")
  <2>1. r2 = ParseValue(r, token, s)
    BY <1>1, <1>2, <1>6, ParseArrayIs DEF s
  <2>2. Awaits(f)
    BY <1>6 DEF Awaits
  <2>3. QED
    BY <2>1, <2>2, ValueSteps DEF s
<1>7. QED
  BY <1>1, <1>3, <1>4, <1>5, <1>6

\* and anywhere.
LEMMA NextSteps ==
  ASSUME NEW F, FramesFit(F), NEW doc, NEW token, NEW r, r = Reading(F, doc), NEW r2, r2 = ParseNext(r, token)
  PROVE  \/ Refuses(r2) \/ BeginsValue(F, doc, token, r2) \/ Takes(F, doc, token, r2) \/ NamesMember(F, doc, token, r2)
         \/ Passes(F, doc, token, r2) \/ Ends(F, doc, token, r2) \/ Stops(F, doc, token, r2)
<1> DEFINE s == Scalar(token)
           f == Last(F)
<1>1. r2 = Parse(r, token, s)
  BY DEF ParseNext
<1>2. ~r.done /\ Inner(r) = f /\ r.err = "none" /\ r.doc = doc
  BY DEF Reading, Inner
<1>3. f.in \in {"root", "array", "object"}
  BY FramesParts DEF IsFrame
<1> HIDE DEF s, f
<1>4. CASE f.in = "object"
  <2>1. r2 = ParseObject(r, token, s)
    BY <1>1, <1>2, <1>4 DEF Parse
  <2>2. QED
    BY <1>4, <2>1, ObjectSteps DEF f, s
<1>5. CASE f.in = "array"
  <2>1. r2 = ParseArray(r, token, s)
    BY <1>1, <1>2, <1>5 DEF Parse
  <2>2. QED
    BY <1>5, <2>1, ArraySteps DEF f, s
<1>6. CASE f.in = "root"
  <2>1. r2 = ParseRoot(r, token, s)
    BY <1>1, <1>2, <1>6 DEF Parse
  <2>2. CASE f.at = "first" /\ token.t = "end"
    <3>1. r2 = Errs(r, "DocumentEmpty")
      BY <1>2, <2>1, <2>2 DEF ParseRoot
    <3>2. QED
      BY <3>1, ErrsRefuses
  <2>3. CASE f.at = "first" /\ token.t # "end"
    <3>1. r2 = ParseValue(r, token, s)
      BY <1>2, <2>1, <2>3 DEF ParseRoot
    <3>2. Awaits(f)
      BY <1>6, <2>3 DEF Awaits
    <3>3. QED
      BY <3>1, <3>2, ValueSteps DEF s, f
  <2>4. CASE f.at = "behind" /\ token.t = "end"
    <3>1. r2 = [r EXCEPT !.done = TRUE]
      BY <1>2, <2>1, <2>4 DEF ParseRoot
    <3>2. r2.done = TRUE /\ r2.err = "none" /\ r2.doc = doc
      BY <3>1 DEF Reading
    <3>3. Stops(F, doc, token, r2)
      BY <1>6, <2>4, <3>2 DEF Stops, f
    <3>4. QED
      BY <3>3
  <2>5. CASE f.at # "first" /\ ~(f.at = "behind" /\ token.t = "end")
    <3>1. r2 = Errs(r, "DocumentRootNotSingular")
      BY <1>2, <2>1, <2>5 DEF ParseRoot
    <3>2. QED
      BY <3>1, ErrsRefuses
  <2>6. QED
    BY <2>2, <2>3, <2>4, <2>5
<1>7. QED
  BY <1>3, <1>4, <1>5, <1>6

------------------------------------------------------------------------------
(* The text of a value                                                      *)

\* Sequences of sequences, of whatever.
Sequences(s) == Sequence(s) /\ \A k \in 1..Len(s) : Sequence(s[k])

\* A sequence of some elements.
LEMMA SeqIn ==
  ASSUME NEW s, Sequence(s), NEW S, \A k \in 1..Len(s) : s[k] \in S
  PROVE  s \in Seq(S)
<1>1. PICK A : s \in Seq(A)
  BY DEF Sequence
<1>2. QED
  BY <1>1

\* They are sequences of sequences of the same things.
LEMMA SeqsCommon ==
  ASSUME NEW s, Sequences(s)
  PROVE  \E S : s \in Seq(Seq(S))
<1> DEFINE S == UNION {{s[k][j] : j \in 1..Len(s[k])} : k \in 1..Len(s)}
<1>1. ASSUME NEW k \in 1..Len(s) PROVE s[k] \in Seq(S)
  <2>1. \A j \in 1..Len(s[k]) : s[k][j] \in S
    OBVIOUS
  <2>2. Sequence(s[k])
    BY DEF Sequences
  <2> HIDE DEF S
  <2>3. QED
    BY <2>1, <2>2, SeqIn
<1> HIDE DEF S
<1>2. s \in Seq(Seq(S))
  BY <1>1, SeqIn DEF Sequences
<1>3. QED
  BY <1>2

\* One sequence more,
LEMMA SeqsAppended ==
  ASSUME NEW s, Sequences(s), NEW x, Sequence(x)
  PROVE  Sequences(Append(s, x)) /\ FlattenSeq(Append(s, x)) = FlattenSeq(s) \o x /\ Sequence(FlattenSeq(s))
<1>1. Sequences(Append(s, x))
  <2>1. Sequence(Append(s, x)) /\ Len(s) \in Nat /\ Len(Append(s, x)) = Len(s) + 1 /\ Append(s, x)[Len(s) + 1] = x
        /\ \A k \in 1..Len(s) : Append(s, x)[k] = s[k]
    BY SeqAppended DEF Sequences
  <2>2. QED
    BY <2>1 DEF Sequences
<1>2. PICK A : s \in Seq(Seq(A))
  BY SeqsCommon
<1>3. PICK B : x \in Seq(B)
  BY DEF Sequence
<1> DEFINE C == A \cup B
<1>4. Seq(A) \subseteq Seq(C) /\ x \in Seq(C)
  BY <1>3, SeqWiden
<1>5. s \in Seq(Seq(C))
  BY <1>2, <1>4, SeqWiden
<1> HIDE DEF C
<1>6. FlattenSeq(Append(s, x)) = FlattenSeq(s) \o x
  BY <1>4, <1>5, FlattenAppend
<1>7. FlattenSeq(s) \in Seq(C)
  BY <1>5, FlattenType
<1>8. QED
  BY <1>1, <1>6, <1>7 DEF Sequence

\* many more,
LEMMA SeqsJoined ==
  ASSUME NEW s, Sequences(s), NEW t, Sequences(t)
  PROVE  FlattenSeq(s \o t) = FlattenSeq(s) \o FlattenSeq(t)
<1>1. PICK A : s \in Seq(Seq(A))
  BY SeqsCommon
<1>2. PICK B : t \in Seq(Seq(B))
  BY SeqsCommon
<1> DEFINE C == A \cup B
<1>3. Seq(A) \subseteq Seq(C) /\ Seq(B) \subseteq Seq(C)
  BY SeqWiden
<1>4. s \in Seq(Seq(C)) /\ t \in Seq(Seq(C))
  BY <1>1, <1>2, <1>3, SeqWiden
<1> HIDE DEF C
<1>5. QED
  BY <1>4, FlattenConcat

\* and one alone, laid end to end.
LEMMA SeqsOne ==
  ASSUME NEW x, Sequence(x) PROVE Sequences(<<x>>) /\ FlattenSeq(<<x>>) = x
<1>1. Sequences(<<>>)
  <2>1. Sequence(<<>>) /\ Len(<<>>) = 0
    BY SeqOne
  <2>2. QED
    BY <2>1 DEF Sequences
<1>2. PICK B : x \in Seq(B)
  BY DEF Sequence
<1>3. FlattenSeq(<<x>>) = x
  BY <1>2, FlattenOne
<1>4. <<x>> = Append(<<>>, x)
  BY SeqOne
<1>5. QED
  BY <1>1, <1>3, <1>4, SeqsAppended

------------------------------------------------------------------------------
\* Texts in which each value left can be spelled.
Tidy(x) == Sequence(x) /\ \A k \in 1..Len(x) : x[k].t = "value" => Sequence(Spelled(x[k].raw))
SpelledAt(x) == [j \in DOMAIN x |-> IF x[j].t = "value" THEN Spelled(x[j].raw) ELSE <<x[j]>>]

\* Spelling out such a text gives a sequence.
LEMMA SpelledAtIs ==
  ASSUME NEW x, Tidy(x)
  PROVE  Sequences(SpelledAt(x)) /\ Len(SpelledAt(x)) = Len(x) /\ SpelledOut(x) = FlattenSeq(SpelledAt(x))
         /\ Sequence(SpelledOut(x))
         /\ \A k \in 1..Len(x) : SpelledAt(x)[k] = IF x[k].t = "value" THEN Spelled(x[k].raw) ELSE <<x[k]>>
<1>1. DOMAIN x = 1..Len(x) /\ Len(x) \in Nat
  BY DEF Tidy, Sequence
<1>2. SpelledAt(x) = [k \in 1..Len(x) |-> SpelledAt(x)[k]]
      /\ \A k \in 1..Len(x) : SpelledAt(x)[k] = IF x[k].t = "value" THEN Spelled(x[k].raw) ELSE <<x[k]>>
  BY <1>1, Zenon DEF SpelledAt
<1>3. Sequence(SpelledAt(x)) /\ Len(SpelledAt(x)) = Len(x)
  BY <1>1, <1>2, SeqTable
<1>4. \A k \in 1..Len(x) : Sequence(<<x[k]>>)
  BY SeqOne
<1>5. Sequences(SpelledAt(x))
  BY <1>2, <1>3, <1>4 DEF Sequences, Tidy
<1>6. SpelledOut(x) = FlattenSeq(SpelledAt(x))
  BY Zenon DEF SpelledOut, SpelledAt
<1>7. Sequence(<<>>)
  BY SeqOne
<1>8. Sequence(FlattenSeq(SpelledAt(x)))
  BY <1>5, <1>7, SeqsAppended
<1>9. QED
  BY <1>2, <1>3, <1>5, <1>6, <1>8

\* Texts are spelled out one after the other.
LEMMA SpelledJoined ==
  ASSUME NEW a, Tidy(a), NEW b, Tidy(b)
  PROVE  Tidy(a \o b) /\ SpelledOut(a \o b) = SpelledOut(a) \o SpelledOut(b)
<1> DEFINE c == a \o b
           m == Len(a)
           n == Len(b)
<1>1. /\ Sequence(c) /\ m \in Nat /\ n \in Nat /\ Len(c) = m + n
      /\ \A k \in 1..m : c[k] = a[k]
      /\ \A k \in 1..n : c[m + k] = b[k]
  BY SeqJoined DEF Tidy
<1>2. ASSUME NEW k \in 1..(m + n) PROVE k \in 1..m \/ (k - m \in 1..n /\ m + (k - m) = k)
  BY <1>1
<1>3. ASSUME NEW k \in 1..(m + n) PROVE c[k].t = "value" => Sequence(Spelled(c[k].raw))
  <2>1. CASE k \in 1..m
    BY <1>1, <2>1 DEF Tidy
  <2>2. CASE k - m \in 1..n /\ m + (k - m) = k
    <3>1. c[k] = b[k - m]
      BY <1>1, <2>2
    <3>2. QED
      BY <2>2, <3>1 DEF Tidy
  <2>3. QED
    BY <1>2, <2>1, <2>2
<1>4. Tidy(c)
  BY <1>1, <1>3 DEF Tidy
<1> HIDE DEF c
<1>5. /\ Sequences(SpelledAt(a)) /\ Len(SpelledAt(a)) = m /\ SpelledOut(a) = FlattenSeq(SpelledAt(a))
      /\ Sequences(SpelledAt(b)) /\ Len(SpelledAt(b)) = n /\ SpelledOut(b) = FlattenSeq(SpelledAt(b))
      /\ Sequences(SpelledAt(c)) /\ Len(SpelledAt(c)) = m + n /\ SpelledOut(c) = FlattenSeq(SpelledAt(c))
  BY <1>1, <1>4, SpelledAtIs
<1> DEFINE sa == SpelledAt(a)
           sb == SpelledAt(b)
           u == sa \o sb
<1> HIDE DEF sa, sb, m, n
<1>6. /\ Sequence(u) /\ Len(u) = m + n
      /\ \A k \in 1..m : u[k] = sa[k]
      /\ \A k \in 1..n : u[m + k] = sb[k]
  <2>1. Sequence(sa) /\ Sequence(sb) /\ Len(sa) = m /\ Len(sb) = n
    BY <1>5 DEF sa, sb, Sequences
  <2>2. QED
    BY <2>1, SeqJoined
<1> HIDE DEF u
<1>7. ASSUME NEW k \in 1..(m + n) PROVE SpelledAt(c)[k] = u[k]
  <2>0. k \in 1..Len(c)
    BY <1>1
  <2>1. SpelledAt(c)[k] = IF c[k].t = "value" THEN Spelled(c[k].raw) ELSE <<c[k]>>
    BY <1>4, <2>0, SpelledAtIs
  <2>2. CASE k \in 1..m
    <3>1. SpelledAt(a)[k] = IF a[k].t = "value" THEN Spelled(a[k].raw) ELSE <<a[k]>>
      BY <2>2, SpelledAtIs DEF m
    <3>2. QED
      BY <1>1, <1>6, <2>1, <2>2, <3>1 DEF sa
  <2>3. CASE k - m \in 1..n /\ m + (k - m) = k
    <3>1. SpelledAt(b)[k - m] = IF b[k - m].t = "value" THEN Spelled(b[k - m].raw) ELSE <<b[k - m]>>
      BY <2>3, SpelledAtIs DEF n
    <3>2. c[k] = b[k - m] /\ u[k] = SpelledAt(b)[k - m]
      BY <1>1, <1>6, <2>3 DEF sb
    <3>3. QED
      BY <2>1, <3>1, <3>2
  <2>4. QED
    BY <1>2, <2>2, <2>3
<1>8. SpelledAt(c) = u
  BY <1>5, <1>6, <1>7, SeqSame DEF Sequences
<1>9. FlattenSeq(u) = SpelledOut(a) \o SpelledOut(b)
  <2>1. Sequences(sa) /\ Sequences(sb) /\ SpelledOut(a) = FlattenSeq(sa) /\ SpelledOut(b) = FlattenSeq(sb)
    BY <1>5 DEF sa, sb
  <2>2. QED
    BY <2>1, SeqsJoined DEF u
<1>10. QED
  BY <1>4, <1>5, <1>8, <1>9 DEF c

\* Texts with nothing left to spell.
LEMMA SpelledFlat ==
  ASSUME NEW x, x.t # "value" PROVE Tidy(<<x>>) /\ SpelledOut(<<x>>) = <<x>>
<1>1. Sequence(<<x>>) /\ Len(<<x>>) = 1 /\ <<x>>[1] = x
  BY SeqOne
<1>2. \A k \in 1..1 : k = 1
  OBVIOUS
<1>3. Tidy(<<x>>)
  BY <1>1, <1>2 DEF Tidy
<1>4. Sequences(SpelledAt(<<x>>)) /\ Len(SpelledAt(<<x>>)) = 1 /\ SpelledOut(<<x>>) = FlattenSeq(SpelledAt(<<x>>))
      /\ SpelledAt(<<x>>)[1] = <<x>>
  <2>1. 1 \in 1..1
    OBVIOUS
  <2>2. QED
    BY <1>1, <1>3, <2>1, SpelledAtIs
<1>5. SpelledAt(<<x>>) = <<<<x>>>>
  <2>1. Sequence(<<<<x>>>>) /\ Len(<<<<x>>>>) = 1 /\ <<<<x>>>>[1] = <<x>>
    BY SeqOne
  <2>2. \A k \in 1..1 : SpelledAt(<<x>>)[k] = <<<<x>>>>[k]
    BY <1>2, <1>4, <2>1
  <2>3. QED
    BY <1>4, <2>1, <2>2, SeqSame DEF Sequences
<1>6. FlattenSeq(<<<<x>>>>) = <<x>>
  BY <1>1, SeqsOne
<1>7. QED
  BY <1>3, <1>4, <1>5, <1>6

\* A value alone.
LEMMA SpelledValue ==
  ASSUME NEW v, Sequence(Spelled(v)) PROVE Tidy(<<Unspelled(v)>>) /\ SpelledOut(<<Unspelled(v)>>) = Spelled(v)
<1> DEFINE x == Unspelled(v)
<1>0. x.t = "value" /\ x.raw = v
  BY DEF Unspelled
<1> HIDE DEF x
<1>1. Sequence(<<x>>) /\ Len(<<x>>) = 1 /\ <<x>>[1] = x
  BY SeqOne
<1>2. \A k \in 1..1 : k = 1
  OBVIOUS
<1>3. Tidy(<<x>>)
  BY <1>0, <1>1, <1>2 DEF Tidy
<1>4. Sequences(SpelledAt(<<x>>)) /\ Len(SpelledAt(<<x>>)) = 1 /\ SpelledOut(<<x>>) = FlattenSeq(SpelledAt(<<x>>))
      /\ SpelledAt(<<x>>)[1] = Spelled(v)
  <2>1. 1 \in 1..1
    OBVIOUS
  <2>2. QED
    BY <1>0, <1>1, <1>3, <2>1, SpelledAtIs
<1>5. SpelledAt(<<x>>) = <<Spelled(v)>>
  <2>1. Sequence(<<Spelled(v)>>) /\ Len(<<Spelled(v)>>) = 1 /\ <<Spelled(v)>>[1] = Spelled(v)
    BY SeqOne
  <2>2. \A k \in 1..1 : SpelledAt(<<x>>)[k] = <<Spelled(v)>>[k]
    BY <1>2, <1>4, <2>1
  <2>3. QED
    BY <1>4, <2>1, <2>2, SeqSame DEF Sequences
<1>6. FlattenSeq(<<Spelled(v)>>) = Spelled(v)
  BY SeqsOne
<1>7. QED
  BY <1>3, <1>4, <1>5, <1>6 DEF x

\* x, spelled out again and again, is y after m times.
Spells(st, x) == st[0] = x /\ \A k \in Nat : Tidy(st[k]) /\ st[k + 1] = SpelledOut(st[k])
Becomes(x, y, m) == m \in Nat /\ \E st : Spells(st, x) /\ \A k \in Nat : k >= m => st[k] = y

\* Both are sequences.
LEMMA BecomesTypes ==
  ASSUME NEW x, NEW y, NEW m, Becomes(x, y, m) PROVE Sequence(x) /\ Sequence(y) /\ m \in Nat
<1>1. PICK st : Spells(st, x) /\ \A k \in Nat : k >= m => st[k] = y
  BY DEF Becomes
<1>2. m \in Nat /\ st[m] = y /\ st[0] = x /\ 0 \in Nat
  BY <1>1 DEF Becomes, Spells
<1>3. QED
  BY <1>1, <1>2 DEF Spells, Tidy

\* Texts one behind the other become what each becomes.
LEMMA BecomesJoined ==
  ASSUME NEW a, NEW p, NEW m, Becomes(a, p, m), NEW b, NEW q, NEW n, Becomes(b, q, n)
  PROVE  Becomes(a \o b, p \o q, m + n)
<1>1. PICK sa : Spells(sa, a) /\ \A k \in Nat : k >= m => sa[k] = p
  BY DEF Becomes
<1>2. PICK sb : Spells(sb, b) /\ \A k \in Nat : k >= n => sb[k] = q
  BY DEF Becomes
<1> DEFINE st == [k \in Nat |-> sa[k] \o sb[k]]
<1>3. m \in Nat /\ n \in Nat
  BY DEF Becomes
<1>4. \A k \in Nat : st[k] = sa[k] \o sb[k]
  OBVIOUS
<1> HIDE DEF st
<1>5. ASSUME NEW k \in Nat PROVE Tidy(st[k]) /\ st[k + 1] = SpelledOut(st[k])
  <2>1. Tidy(sa[k]) /\ sa[k + 1] = SpelledOut(sa[k]) /\ Tidy(sb[k]) /\ sb[k + 1] = SpelledOut(sb[k])
    BY <1>1, <1>2 DEF Spells
  <2>2. st[k] = sa[k] \o sb[k] /\ st[k + 1] = sa[k + 1] \o sb[k + 1]
    <3>1. k + 1 \in Nat
      OBVIOUS
    <3>2. QED
      BY <1>4, <3>1, Zenon
  <2>3. Tidy(sa[k] \o sb[k]) /\ SpelledOut(sa[k] \o sb[k]) = SpelledOut(sa[k]) \o SpelledOut(sb[k])
    BY <2>1, SpelledJoined
  <2>4. QED
    BY <2>1, <2>2, <2>3, Zenon
<1>6. st[0] = a \o b
  BY <1>1, <1>2, <1>4 DEF Spells
<1>7. ASSUME NEW k \in Nat, k >= m + n PROVE st[k] = p \o q
  <2>1. k >= m /\ k >= n
    BY <1>3, <1>7
  <2>2. QED
    BY <1>1, <1>2, <1>4, <2>1
<1>8. m + n \in Nat
  BY <1>3
<1>9. QED
  BY <1>5, <1>6, <1>7, <1>8 DEF Becomes, Spells

\* What needs no spelling stays,
LEMMA BecomesSame ==
  ASSUME NEW x, Tidy(x), SpelledOut(x) = x PROVE Becomes(x, x, 0)
<1> DEFINE st == [k \in Nat |-> x]
<1>1. \A k \in Nat : st[k] = x /\ st[k + 1] = x
  OBVIOUS
<1> HIDE DEF st
<1>2. QED
  BY <1>1 DEF Becomes, Spells

\* such as a token that is no value,
LEMMA BecomesFlat ==
  ASSUME NEW x, x.t # "value" PROVE Becomes(<<x>>, <<x>>, 0)
  BY SpelledFlat, BecomesSame

\* or nothing.
LEMMA BecomesEmpty == Becomes(<<>>, <<>>, 0)
<1>1. Sequence(<<>>) /\ Len(<<>>) = 0
  BY SeqOne
<1>2. Tidy(<<>>)
  BY <1>1 DEF Tidy
<1>3. SpelledOut(<<>>) = FlattenSeq(SpelledAt(<<>>)) /\ Sequences(SpelledAt(<<>>)) /\ Len(SpelledAt(<<>>)) = 0
  BY <1>1, <1>2, SpelledAtIs
<1>4. SpelledAt(<<>>) = <<>>
  BY <1>3 DEF Sequences, Sequence
<1>5. SpelledOut(<<>>) = <<>>
  BY <1>3, <1>4, FlattenEmpty
<1>6. QED
  BY <1>2, <1>5, BecomesSame

\* What a text has become it stays.
LEMMA BecomesLater ==
  ASSUME NEW x, NEW y, NEW m, Becomes(x, y, m), NEW n \in Nat, n >= m PROVE Becomes(x, y, n)
<1>1. PICK st : Spells(st, x) /\ \A k \in Nat : k >= m => st[k] = y
  BY DEF Becomes
<1>2. \A k \in Nat : k >= n => k >= m
  BY DEF Becomes
<1>3. QED
  BY <1>1, <1>2 DEF Becomes

\* A value becomes what its spelling becomes, one step later.
LEMMA BecomesValue ==
  ASSUME NEW v, NEW y, NEW m, Becomes(Spelled(v), y, m)
  PROVE  Becomes(<<Unspelled(v)>>, y, m + 1)
<1> DEFINE x == <<Unspelled(v)>>
<1>1. PICK sa : Spells(sa, Spelled(v)) /\ \A k \in Nat : k >= m => sa[k] = y
  BY DEF Becomes
<1>2. Tidy(x) /\ SpelledOut(x) = Spelled(v) /\ m \in Nat
  BY BecomesTypes, SpelledValue
<1> HIDE DEF x
<1> DEFINE st == [k \in Nat |-> IF k = 0 THEN x ELSE sa[k - 1]]
<1>3. st[0] = x /\ (\A k \in Nat : k # 0 => st[k] = sa[k - 1]) /\ \A k \in Nat : st[k + 1] = sa[k]
  <2>1. \A k \in Nat : k + 1 \in Nat /\ k + 1 # 0 /\ (k + 1) - 1 = k
    OBVIOUS
  <2>2. QED
    BY <2>1
<1> HIDE DEF st
<1>4. ASSUME NEW k \in Nat PROVE Tidy(st[k]) /\ st[k + 1] = SpelledOut(st[k])
  <2>1. CASE k = 0
    <3>1. st[k] = x /\ st[k + 1] = sa[0]
      BY <1>3, <2>1
    <3>2. sa[0] = Spelled(v)
      BY <1>1 DEF Spells
    <3>3. QED
      BY <1>2, <3>1, <3>2
  <2>2. CASE k # 0
    <3>1. k - 1 \in Nat /\ (k - 1) + 1 = k
      BY <2>2
    <3>2. st[k] = sa[k - 1] /\ st[k + 1] = sa[k]
      BY <1>3, <2>2
    <3>3. Tidy(sa[k - 1]) /\ sa[(k - 1) + 1] = SpelledOut(sa[k - 1])
      BY <1>1, <3>1 DEF Spells
    <3>4. QED
      BY <3>1, <3>2, <3>3
  <2>3. QED
    BY <2>1, <2>2
<1>5. ASSUME NEW k \in Nat, k >= m + 1 PROVE st[k] = y
  <2>1. k # 0 /\ k - 1 \in Nat /\ k - 1 >= m
    BY <1>2, <1>5
  <2>2. QED
    BY <1>1, <1>3, <2>1
<1>6. m + 1 \in Nat
  BY <1>2
<1>7. QED
  BY <1>3, <1>4, <1>5, <1>6 DEF Becomes, Spells, x

\* The steps of TokensOf().
TokensSteps(toks, v, n) == toks = [d \in 0..n |-> IF d = 0 THEN <<Unspelled(v)>> ELSE SpelledOut(toks[d - 1])]

\* TokensOf() is what is known after the last one.
LEMMA TokensOfIs ==
  ASSUME NEW v, NEW n
  PROVE  TokensOf(v, n) = (CHOOSE toks : TokensSteps(toks, v, n))[n]
  BY Zenon DEF TokensOf, TokensSteps

\* It is what the value becomes, if the steps are enough.
LEMMA TokensAre ==
  ASSUME NEW v, NEW y, NEW m, Becomes(<<Unspelled(v)>>, y, m), NEW n \in Nat, n >= m
  PROVE  TokensOf(v, n) = y
<1>1. PICK st : Spells(st, <<Unspelled(v)>>) /\ \A k \in Nat : k >= m => st[k] = y
  BY DEF Becomes
<1> DEFINE u == [d \in 0..n |-> st[d]]
<1>2. TokensSteps(u, v, n)
  <2>1. ASSUME NEW d \in 0..n PROVE u[d] = IF d = 0 THEN <<Unspelled(v)>> ELSE SpelledOut(u[d - 1])
    <3>1. CASE d = 0
      BY <1>1, <3>1 DEF Spells
    <3>2. CASE d # 0
      <4>1. d - 1 \in Nat /\ d - 1 \in 0..n /\ (d - 1) + 1 = d
        BY <3>2
      <4>2. st[(d - 1) + 1] = SpelledOut(st[d - 1])
        BY <1>1, <4>1 DEF Spells
      <4>3. QED
        BY <3>2, <4>1, <4>2
    <3>3. QED
      BY <3>1, <3>2
  <2>2. QED
    BY <2>1, Zenon DEF TokensSteps
<1> HIDE DEF u
<1>3. PICK toks : TokensSteps(toks, v, n) /\ TokensOf(v, n) = toks[n]
  BY <1>2, TokensOfIs
<1>4. \A d \in 0..n : toks[d] = IF d = 0 THEN <<Unspelled(v)>> ELSE SpelledOut(toks[d - 1])
  BY <1>3, Zenon DEF TokensSteps
<1> DEFINE T == {d \in Nat : d <= n => toks[d] = st[d]}
<1>5. 0 \in T
  <2>1. 0 \in 0..n
    OBVIOUS
  <2>2. toks[0] = <<Unspelled(v)>>
    BY <1>4, <2>1
  <2>3. QED
    BY <1>1, <2>2 DEF Spells
<1>6. ASSUME NEW d \in Nat, d \in T PROVE d + 1 \in T
  <2> SUFFICES ASSUME d + 1 <= n PROVE toks[d + 1] = st[d + 1]
    OBVIOUS
  <2>1. d + 1 \in 0..n /\ d + 1 # 0 /\ (d + 1) - 1 = d /\ d <= n
    OBVIOUS
  <2>2. toks[d + 1] = SpelledOut(toks[d])
    BY <1>4, <2>1
  <2>3. st[d + 1] = SpelledOut(st[d])
    BY <1>1 DEF Spells
  <2>4. QED
    BY <1>6, <2>1, <2>2, <2>3
<1> HIDE DEF T
<1>7. n \in T
  BY <1>5, <1>6, Induction
<1>8. QED
  BY <1>1, <1>3, <1>7 DEF T

\* Lists with commas.
ListedAt(texts) == [j \in DOMAIN texts |-> IF j = 1 THEN texts[j] ELSE <<Token("Comma")>> \o texts[j]]

\* A list is laid end to end,
LEMMA ListedAtIs ==
  ASSUME NEW texts, Sequences(texts)
  PROVE  Sequences(ListedAt(texts)) /\ Len(ListedAt(texts)) = Len(texts) /\ Listed(texts) = FlattenSeq(ListedAt(texts))
         /\ Sequence(Listed(texts))
         /\ \A k \in 1..Len(texts) : ListedAt(texts)[k] = IF k = 1 THEN texts[k] ELSE <<Token("Comma")>> \o texts[k]
<1>1. DOMAIN texts = 1..Len(texts) /\ Len(texts) \in Nat
  BY DEF Sequences, Sequence
<1>2. ListedAt(texts) = [k \in 1..Len(texts) |-> ListedAt(texts)[k]]
      /\ \A k \in 1..Len(texts) : ListedAt(texts)[k] = IF k = 1 THEN texts[k] ELSE <<Token("Comma")>> \o texts[k]
  BY <1>1, Zenon DEF ListedAt
<1>3. Sequence(ListedAt(texts)) /\ Len(ListedAt(texts)) = Len(texts)
  BY <1>1, <1>2, SeqTable
<1>4. \A k \in 1..Len(texts) : Sequence(ListedAt(texts)[k])
  <2> TAKE k \in 1..Len(texts)
  <2>1. Sequence(texts[k]) /\ Sequence(<<Token("Comma")>>)
    BY SeqOne DEF Sequences
  <2>2. Sequence(<<Token("Comma")>> \o texts[k])
    BY <2>1, SeqJoined
  <2>3. QED
    BY <1>2, <2>1, <2>2
<1>5. Sequences(ListedAt(texts))
  BY <1>3, <1>4 DEF Sequences
<1>6. Listed(texts) = FlattenSeq(ListedAt(texts))
  BY Zenon DEF Listed, ListedAt
<1>7. Sequence(FlattenSeq(ListedAt(texts)))
  BY <1>5, SeqOne, SeqsAppended
<1>8. QED
  BY <1>2, <1>3, <1>5, <1>6, <1>7

\* with a comma before each further text,
LEMMA ListedAppend ==
  ASSUME NEW texts, Sequences(texts), NEW t, Sequence(t)
  PROVE  Listed(Append(texts, t)) = IF texts = <<>> THEN t ELSE Listed(texts) \o (<<Token("Comma")>> \o t)
<1> DEFINE u == Append(texts, t)
           n == Len(texts)
           x == IF n = 0 THEN t ELSE <<Token("Comma")>> \o t
           w == Append(ListedAt(texts), x)
<1>1. Sequences(u) /\ n \in Nat /\ Len(u) = n + 1 /\ u[n + 1] = t /\ \A k \in 1..n : u[k] = texts[k]
  BY SeqsAppended, SeqAppended DEF Sequences
<1>2. Sequence(x)
  <2>1. Sequence(<<Token("Comma")>> \o t)
    BY SeqOne, SeqJoined
  <2>2. QED
    BY <2>1
<1>3. Sequences(ListedAt(texts)) /\ Len(ListedAt(texts)) = n /\ Listed(texts) = FlattenSeq(ListedAt(texts))
      /\ \A k \in 1..n : ListedAt(texts)[k] = IF k = 1 THEN texts[k] ELSE <<Token("Comma")>> \o texts[k]
  BY ListedAtIs
<1>4. Sequences(ListedAt(u)) /\ Len(ListedAt(u)) = n + 1 /\ Listed(u) = FlattenSeq(ListedAt(u))
      /\ \A k \in 1..(n + 1) : ListedAt(u)[k] = IF k = 1 THEN u[k] ELSE <<Token("Comma")>> \o u[k]
  <2> HIDE DEF u, n
  <2>1. QED
    BY <1>1, ListedAtIs
<1> HIDE DEF u
<1>5. Sequence(w) /\ Len(w) = n + 1 /\ w[n + 1] = x /\ \A k \in 1..n : w[k] = ListedAt(texts)[k]
  <2> HIDE DEF x
  <2>1. QED
    BY <1>3, SeqAppended DEF Sequences
<1> HIDE DEF w
<1>6. ASSUME NEW k \in 1..(n + 1) PROVE ListedAt(u)[k] = w[k]
  <2>1. CASE k = n + 1
    <3>1. ListedAt(u)[k] = IF k = 1 THEN t ELSE <<Token("Comma")>> \o t
      BY <1>1, <1>4, <2>1
    <3>2. k = 1 <=> n = 0
      BY <1>1, <2>1
    <3>3. ListedAt(u)[k] = x
      BY <3>1, <3>2
    <3>4. w[k] = x
      BY <1>5, <2>1, Zenon
    <3>5. QED
      BY <3>3, <3>4
  <2>2. CASE k # n + 1
    <3>1. k \in 1..n
      BY <1>1, <2>2
    <3>2. ListedAt(u)[k] = IF k = 1 THEN u[k] ELSE <<Token("Comma")>> \o u[k]
      BY <1>4, Zenon
    <3>3. u[k] = texts[k] /\ w[k] = ListedAt(texts)[k]
      BY <1>1, <1>5, <3>1, Zenon
    <3>4. ListedAt(texts)[k] = IF k = 1 THEN texts[k] ELSE <<Token("Comma")>> \o texts[k]
      BY <1>3, <3>1, Zenon
    <3>5. QED
      BY <3>2, <3>3, <3>4, Zenon
  <2>3. QED
    BY <2>1, <2>2
<1>7. ListedAt(u) = w
  BY <1>4, <1>5, <1>6, SeqSame DEF Sequences
<1> HIDE DEF x
<1>8. Listed(u) = Listed(texts) \o x
  <2>1. FlattenSeq(Append(ListedAt(texts), x)) = FlattenSeq(ListedAt(texts)) \o x
    BY <1>2, <1>3, SeqsAppended
  <2>2. QED
    BY <1>3, <1>4, <1>7, <2>1, Zenon DEF w
<1>9. CASE n = 0
  <2>1. texts = <<>>
    BY <1>9 DEF Sequences, Sequence
  <2>2. ListedAt(texts) = <<>>
    BY <1>3, <1>9 DEF Sequences, Sequence
  <2>3. Listed(texts) = <<>>
    BY <1>3, <2>2, FlattenEmpty
  <2>4. <<>> \o t = t
    BY SeqJoinedEmpty
  <2>5. QED
    BY <1>8, <1>9, <2>1, <2>3, <2>4 DEF u, x
<1>10. CASE n # 0
  <2>1. texts # <<>>
    BY <1>10
  <2>2. QED
    BY <1>8, <1>10, <2>1 DEF u, x
<1>11. QED
  BY <1>9, <1>10

\* and empty without texts.
LEMMA ListedEmpty == Listed(<<>>) = <<>> /\ Sequences(<<>>)
<1>1. Sequence(<<>>) /\ Len(<<>>) = 0
  BY SeqOne
<1>2. Sequences(<<>>)
  BY <1>1 DEF Sequences
<1>3. Sequences(ListedAt(<<>>)) /\ Len(ListedAt(<<>>)) = 0 /\ Listed(<<>>) = FlattenSeq(ListedAt(<<>>))
  BY <1>1, <1>2, ListedAtIs
<1>4. ListedAt(<<>>) = <<>>
  BY <1>3 DEF Sequences, Sequence
<1>5. QED
  BY <1>2, <1>3, <1>4, FlattenEmpty

------------------------------------------------------------------------------
\* A text goes on with what needs no spelling, or with a value.
LEMMA BecomesMore ==
  ASSUME NEW x, NEW y, Becomes(x, y, Len(y)), NEW tok, tok.t # "value"
  PROVE  Becomes(x \o <<tok>>, Append(y, tok), Len(Append(y, tok)))
<1>1. Becomes(<<tok>>, <<tok>>, 0)
  BY BecomesFlat
<1>2. Becomes(x \o <<tok>>, y \o <<tok>>, Len(y) + 0)
  BY <1>1, BecomesJoined
<1>3. Sequence(y) /\ Len(y) \in Nat
  BY BecomesTypes
<1>4. Len(Append(y, tok)) = Len(y) + 1 /\ y \o <<tok>> = Append(y, tok)
  <2>1. Sequence(<<>>)
    BY SeqOne
  <2>2. QED
    BY <1>3, <2>1, SeqAppended, SeqJoinedOne
<1>5. Len(y) + 0 <= Len(Append(y, tok)) /\ Len(Append(y, tok)) \in Nat
  BY <1>3, <1>4
<1>6. QED
  BY <1>2, <1>4, <1>5, BecomesLater

\* The same for several tokens.
LEMMA BecomesMoreValue ==
  ASSUME NEW x, NEW y, Becomes(x, y, Len(y)), NEW v, NEW z, Becomes(v, z, Len(z))
  PROVE  Becomes(x \o v, y \o z, Len(y \o z))
<1>1. Becomes(x \o v, y \o z, Len(y) + Len(z))
  BY BecomesJoined
<1>2. Sequence(y) /\ Sequence(z)
  BY BecomesTypes
<1>3. Len(y \o z) = Len(y) + Len(z)
  BY <1>2, SeqJoined
<1>4. QED
  BY <1>1, <1>3

\* The text of a compound that has begun: its bracket, its values so far, and what follows.
Opening(f) == IF f.in = "array" THEN <<Token("LeftBracket")>> ELSE <<Token("LeftCurly")>>
CommaIf(n) == IF n = 0 THEN <<>> ELSE <<Token("Comma")>>
PendingName(f, slice) == StringToken(slice[2 * f.n + 2].str)
Named(f) == f.in = "object" /\ f.at \in {"colon", "value"}
Ending(f, slice) ==
  IF Named(f) THEN IF f.at = "colon" THEN CommaIf(f.n) \o <<PendingName(f, slice)>>
                   ELSE (CommaIf(f.n) \o <<PendingName(f, slice)>>) \o <<Token("Colon")>>
  ELSE IF f.at \in {"name", "value"} THEN <<Token("Comma")>> ELSE <<>>
Items(f, slice, texts) == (Opening(f) \o Listed(texts)) \o Ending(f, slice)

ElementText(slice, j) == <<Unspelled(slice[j + 1])>>
PairText(slice, j) == MemberText([name |-> slice[2 * j].str, value |-> slice[2 * j + 1]])
TextsFit(f, slice, texts) ==
  /\ Sequences(texts) /\ Len(texts) = f.n /\ Sequence(slice) /\ f.n \in Nat
  /\ f.in = "array" => Len(slice) = f.n + 1 /\ \A j \in 1..f.n : texts[j] = ElementText(slice, j)
  /\ f.in = "object" =>
       /\ Len(slice) = 2 * f.n + (IF Named(f) THEN 2 ELSE 1)
       /\ \A j \in 1..f.n : texts[j] = PairText(slice, j)
  /\ f.at = "first" => f.n = 0
  /\ f.at # "first" /\ ~Named(f) => f.n >= 1
CompoundIs(f, slice, part) ==
  f.in \in {"array", "object"} /\ \E texts : TextsFit(f, slice, texts) /\ Becomes(Items(f, slice, texts), part, Len(part))
RootIs(f, slice, part) ==
  /\ f.in = "root"
  /\ IF f.at = "first" THEN slice = <<>> /\ part = <<>>
     ELSE \E v : slice = <<v>> /\ Becomes(<<Unspelled(v)>>, part, Len(part))
FrameIs(f, slice, part) == RootIs(f, slice, part) \/ CompoundIs(f, slice, part)

\* The parts of the text of a compound.
LEMMA ItemsParts ==
  ASSUME NEW f, NEW slice, NEW texts, Sequences(texts)
  PROVE  Sequence(Opening(f)) /\ Sequence(Listed(texts)) /\ Sequence(Opening(f) \o Listed(texts)) /\ Sequence(Ending(f, slice))
         /\ Sequence(CommaIf(f.n))
<1>1. Sequence(Opening(f)) /\ Sequence(CommaIf(f.n))
  BY SeqOne DEF Opening, CommaIf
<1>2. Sequence(Listed(texts))
  BY ListedAtIs
<1>3. Sequence(Opening(f) \o Listed(texts))
  BY <1>1, <1>2, SeqJoined
<1>4. Sequence(CommaIf(f.n) \o <<PendingName(f, slice)>>)
  BY <1>1, SeqOne, SeqJoined
<1>5. Sequence((CommaIf(f.n) \o <<PendingName(f, slice)>>) \o <<Token("Colon")>>)
  BY <1>4, SeqOne, SeqJoined
<1>6. Sequence(<<Token("Comma")>>) /\ Sequence(<<>>)
  BY SeqOne
<1>7. Sequence(Ending(f, slice))
  BY <1>4, <1>5, <1>6, Zenon DEF Ending
<1>8. QED
  BY <1>1, <1>2, <1>3, <1>7

\* Each further value comes behind a comma.
LEMMA HeadGrows ==
  ASSUME NEW f, NEW texts, Sequences(texts), NEW t, Sequence(t)
  PROVE  Opening(f) \o Listed(Append(texts, t)) = (Opening(f) \o Listed(texts)) \o (CommaIf(Len(texts)) \o t)
<1>1. Sequence(Opening(f)) /\ Sequence(Listed(texts)) /\ Sequence(<<>>) /\ Sequence(<<Token("Comma")>>)
  BY ItemsParts, SeqOne
<1>2. Sequence(<<Token("Comma")>> \o t)
  BY <1>1, SeqJoined
<1>3. CASE texts = <<>>
  <2>1. Listed(texts) = <<>> /\ CommaIf(Len(texts)) = <<>>
    BY <1>3, ListedEmpty, SeqOne DEF CommaIf
  <2>2. <<>> \o t = t /\ Opening(f) \o <<>> = Opening(f)
    BY <1>1, SeqJoinedEmpty
  <2>3. Listed(Append(texts, t)) = t
    BY <1>3, ListedAppend
  <2>4. QED
    BY <2>1, <2>2, <2>3, Zenon
<1>4. CASE texts # <<>>
  <2>1. Len(texts) # 0
    BY <1>4 DEF Sequences, Sequence
  <2>2. CommaIf(Len(texts)) = <<Token("Comma")>>
    BY <2>1 DEF CommaIf
  <2>3. Listed(Append(texts, t)) = Listed(texts) \o (<<Token("Comma")>> \o t)
    BY <1>4, ListedAppend
  <2>4. (Opening(f) \o Listed(texts)) \o (<<Token("Comma")>> \o t) = Opening(f) \o (Listed(texts) \o (<<Token("Comma")>> \o t))
    <3> DEFINE opening == Opening(f)
               listed == Listed(texts)
               comma == <<Token("Comma")>>
    <3>1. Sequence(opening) /\ Sequence(listed) /\ Sequence(comma \o t)
      BY <1>1, <1>2
    <3> HIDE DEF opening, listed, comma
    <3> DEFINE behind == comma \o t
    <3> HIDE DEF behind
    <3>2. Sequence(behind)
      BY <3>1 DEF behind
    <3>3. (opening \o listed) \o behind = opening \o (listed \o behind)
      BY <3>1, <3>2, SeqJoinedTwice, SMTT(40)
    <3>4. QED
      BY <3>3, Zenon DEF opening, listed, behind, comma
  <2>5. QED
    BY <2>2, <2>3, <2>4, Zenon
<1>5. QED
  BY <1>3, <1>4

\* A token that says what a frame's text says next.
LEMMA CompoundPasses ==
  ASSUME NEW f, NEW slice, NEW part, NEW texts, TextsFit(f, slice, texts), Becomes(Items(f, slice, texts), part, Len(part)),
         NEW g, g.in = f.in, NEW slice2, TextsFit(g, slice2, texts), NEW tok, tok.t # "value", f.in \in {"array", "object"},
         Ending(g, slice2) = Ending(f, slice) \o <<tok>>
  PROVE  CompoundIs(g, slice2, Append(part, tok))
<1> DEFINE head == Opening(f) \o Listed(texts)
           part2 == Append(part, tok)
<1>1. Sequences(texts)
  BY DEF TextsFit
<1>2. Sequence(head) /\ Sequence(Ending(f, slice)) /\ Sequence(<<tok>>)
  BY <1>1, ItemsParts, SeqOne
<1>3. Items(f, slice, texts) = head \o Ending(f, slice)
  BY DEF Items
<1>4. Items(g, slice2, texts) = head \o (Ending(f, slice) \o <<tok>>)
  <2>1. Opening(g) = Opening(f)
    BY DEF Opening
  <2>2. QED
    BY <2>1 DEF Items
<1> HIDE DEF head
<1>5. (head \o Ending(f, slice)) \o <<tok>> = head \o (Ending(f, slice) \o <<tok>>)
  BY <1>2, SeqJoinedTwice
<1>6. Becomes(Items(f, slice, texts) \o <<tok>>, part2, Len(part2))
  BY BecomesMore
<1>7. Becomes(Items(g, slice2, texts), part2, Len(part2))
  BY <1>3, <1>4, <1>5, <1>6, Zenon
<1> HIDE DEF part2
<1>8. CompoundIs(g, slice2, part2)
  BY <1>7 DEF CompoundIs
<1>9. QED
  BY <1>8 DEF part2

\* What follows it is behind what follows its values.
LEMMA ItemsMore ==
  ASSUME NEW f, NEW slice, NEW texts, Sequences(texts), NEW x, Sequence(x)
  PROVE  Items(f, slice, texts) \o x = (Opening(f) \o Listed(texts)) \o (Ending(f, slice) \o x)
<1> DEFINE head == Opening(f) \o Listed(texts)
<1>1. Sequence(head) /\ Sequence(Ending(f, slice))
  BY ItemsParts
<1> HIDE DEF head
<1>2. (head \o Ending(f, slice)) \o x = head \o (Ending(f, slice) \o x)
  BY <1>1, SeqJoinedTwice, SMTT(40)
<1>3. QED
  BY <1>2 DEF Items, head

\* A value of the compound, t among its texts.
LEMMA CompoundTakes ==
  ASSUME NEW f, NEW slice, NEW part, NEW texts, NEW v, NEW z, NEW t, NEW g, NEW slice2
  PROVE  /\ f.in \in {"array", "object"} /\ g.in = f.in /\ TextsFit(f, slice, texts) /\ Sequence(t)
         /\ TextsFit(g, slice2, Append(texts, t)) /\ Ending(g, slice2) = <<>>
         /\ CommaIf(f.n) \o t = Ending(f, slice) \o <<Unspelled(v)>>
         /\ Becomes(Items(f, slice, texts), part, Len(part)) /\ Becomes(<<Unspelled(v)>>, z, Len(z))
         => CompoundIs(g, slice2, part \o z)
<1> DEFINE x == <<Unspelled(v)>>
           part2 == part \o z
<1>1. ASSUME f.in \in {"array", "object"}, g.in = f.in, TextsFit(f, slice, texts), Sequence(t),
             TextsFit(g, slice2, Append(texts, t)), Ending(g, slice2) = <<>>,
             CommaIf(f.n) \o t = Ending(f, slice) \o x,
             Becomes(Items(f, slice, texts), part, Len(part)), Becomes(x, z, Len(z))
      PROVE  CompoundIs(g, slice2, part2)
  <2>1. Sequences(texts) /\ Sequence(t)
    BY <1>1 DEF TextsFit
  <2>2. Sequence(x)
    BY SeqOne
  <2>3. CommaIf(Len(texts)) \o t = Ending(f, slice) \o x
    <3>1. Len(texts) = f.n
      BY <1>1 DEF TextsFit
    <3>2. QED
      BY <1>1, <3>1, Zenon
  <2>4. g.in = f.in /\ Ending(g, slice2) = <<>>
    BY <1>1
  <2>5. Becomes(Items(f, slice, texts) \o x, part2, Len(part2))
    BY <1>1, BecomesMoreValue
  <2> HIDE DEF part2, x
  <2>6. Items(f, slice, texts) \o x = (Opening(f) \o Listed(texts)) \o (Ending(f, slice) \o x)
    BY <2>1, <2>2, ItemsMore, SMTT(40)
  <2> DEFINE texts2 == Append(texts, t)
  <2>0. texts2 = Append(texts, t)
    OBVIOUS
  <2> HIDE DEF texts2
  <2>7. Items(g, slice2, texts2) = (Opening(f) \o Listed(texts)) \o (CommaIf(Len(texts)) \o t)
    <3> DEFINE head == Opening(f) \o Listed(texts)
               rest == CommaIf(Len(texts)) \o t
    <3>1. Sequence(head) /\ Sequence(CommaIf(Len(texts)))
      <4>1. Sequence(head)
        BY <2>1, ItemsParts
      <4>2. Sequence(CommaIf(Len(texts)))
        BY SeqOne DEF CommaIf
      <4>3. QED
        BY <4>1, <4>2
    <3>2. Sequence(rest)
      BY <2>1, <3>1, SeqJoined
    <3>3. Opening(g) = Opening(f)
      BY <2>4 DEF Opening
    <3>4. Opening(f) \o Listed(texts2) = head \o rest
      BY <2>1, HeadGrows DEF texts2
    <3> HIDE DEF head, rest
    <3>5. Sequence(head \o rest)
      BY <3>1, <3>2, SeqJoined
    <3>6. (head \o rest) \o <<>> = head \o rest
      BY <3>5, SeqJoinedEmpty
    <3>7. Items(g, slice2, texts2) = (head \o rest) \o <<>>
      BY <2>4, <3>3, <3>4, Zenon DEF Items
    <3>8. QED
      BY <3>6, <3>7, Zenon DEF head, rest
  <2>8. Becomes(Items(g, slice2, texts2), part2, Len(part2))
    BY <2>3, <2>5, <2>6, <2>7, Zenon
  <2>9. QED
    BY <1>1, <2>0, <2>8 DEF CompoundIs
<1>2. QED
  BY <1>1

\* A compound begins with its bracket.
LEMMA FrameBegins ==
  ASSUME NEW t \in {"LeftCurly", "LeftBracket"}, NEW g, g = Frame(IF t = "LeftCurly" THEN "object" ELSE "array"), NEW o
  PROVE  CompoundIs(g, <<o>>, <<Token(t)>>)
<1>1. g.n = 0 /\ g.at = "first" /\ g.in \in {"array", "object"} /\ (g.in = "array" <=> t = "LeftBracket")
  BY DEF Frame
<1>2. Sequence(<<o>>) /\ Len(<<o>>) = 1 /\ Sequence(<<Token(t)>>) /\ Len(<<Token(t)>>) = 1 /\ Sequence(<<>>) /\ Len(<<>>) = 0
  BY SeqOne
<1>3. TextsFit(g, <<o>>, <<>>)
  <2>1. Sequences(<<>>)
    BY ListedEmpty
  <2>2. ~Named(g)
    BY <1>1 DEF Named
  <2>3. 0 \in Nat /\ 0 + 1 = 1 /\ 2 * 0 + 1 = 1 /\ \A j \in 1..0 : FALSE
    OBVIOUS
  <2>4. QED
    BY <1>1, <1>2, <2>1, <2>2, <2>3 DEF TextsFit
<1>4. Items(g, <<o>>, <<>>) = <<Token(t)>>
  <2>1. Opening(g) = <<Token(t)>>
    BY <1>1 DEF Opening
  <2>2. Ending(g, <<o>>) = <<>>
    BY <1>1 DEF Ending, Named
  <2>3. Listed(<<>>) = <<>>
    BY ListedEmpty
  <2>4. <<Token(t)>> \o <<>> = <<Token(t)>>
    BY <1>2, SeqJoinedEmpty
  <2>5. QED
    BY <2>1, <2>2, <2>3, <2>4, Zenon DEF Items
<1>5. Becomes(<<Token(t)>>, <<Token(t)>>, 1)
  <2>1. Token(t).t # "value"
    BY DEF Token
  <2>2. Becomes(<<Token(t)>>, <<Token(t)>>, 0)
    BY <2>1, BecomesFlat
  <2>3. QED
    BY <2>2, BecomesLater
<1>6. QED
  BY <1>1, <1>2, <1>3, <1>4, <1>5, Zenon DEF CompoundIs

\* A member's name.
LEMMA FrameNames ==
  ASSUME NEW f, NEW slice, NEW part, CompoundIs(f, slice, part), f.in = "object", f.at \in {"first", "name"},
         NEW g, g = [in |-> "object", at |-> "colon", n |-> f.n], NEW w, NEW tok, tok = StringToken(w.str)
  PROVE  CompoundIs(g, Append(slice, w), Append(part, tok))
<1> DEFINE slice2 == Append(slice, w)
           n == f.n
<1>1. PICK texts : TextsFit(f, slice, texts) /\ Becomes(Items(f, slice, texts), part, Len(part))
  BY DEF CompoundIs
<1>2. g.in = "object" /\ g.at = "colon" /\ g.n = n /\ Named(g) /\ ~Named(f)
  BY DEF Named
<1>3. Sequences(texts) /\ Len(texts) = n /\ Sequence(slice) /\ n \in Nat /\ Len(slice) = 2 * n + 1
      /\ (\A j \in 1..n : texts[j] = PairText(slice, j))
      /\ (f.at = "first" => n = 0) /\ (f.at = "name" => n >= 1)
  BY <1>1, <1>2 DEF TextsFit
<1>4. Sequence(slice2) /\ Len(slice2) = 2 * n + 2 /\ slice2[2 * n + 2] = w /\ \A k \in 1..(2 * n + 1) : slice2[k] = slice[k]
  <2>0. Sequence(slice)
    BY <1>3
  <2>1. Sequence(slice2) /\ Len(slice2) = Len(slice) + 1 /\ slice2[Len(slice) + 1] = w /\ \A k \in 1..Len(slice) : slice2[k] = slice[k]
    BY <2>0, SeqAppended
  <2>2. Len(slice) + 1 = 2 * n + 2
    BY <1>3
  <2>3. QED
    BY <1>3, <2>1, <2>2
<1> HIDE DEF slice2
<1>5. TextsFit(g, slice2, texts)
  <2>1. ASSUME NEW j \in 1..n PROVE texts[j] = PairText(slice2, j)
    <3>1. 2 * j \in 1..(2 * n + 1) /\ 2 * j + 1 \in 1..(2 * n + 1)
      BY <1>3
    <3>2. slice2[2 * j] = slice[2 * j] /\ slice2[2 * j + 1] = slice[2 * j + 1]
      BY <1>4, <3>1
    <3>3. QED
      BY <1>3, <3>2 DEF PairText
  <2>2. QED
    BY <1>2, <1>3, <1>4, <2>1 DEF TextsFit
<1>6. Ending(f, slice) = CommaIf(n)
  BY <1>2, <1>3 DEF Ending, CommaIf
<1>7. Ending(g, slice2) = CommaIf(n) \o <<tok>>
  <2>1. PendingName(g, slice2) = tok
    BY <1>2, <1>4 DEF PendingName
  <2>2. QED
    BY <1>2, <2>1 DEF Ending
<1>8. tok.t # "value"
  BY DEF StringToken
<1>9. Ending(g, slice2) = Ending(f, slice) \o <<tok>>
  BY <1>6, <1>7
<1>10. CompoundIs(g, slice2, Append(part, tok))
  BY <1>1, <1>2, <1>5, <1>8, <1>9, CompoundPasses
<1>11. QED
  BY <1>10 DEF slice2

\* The colon behind it, a comma behind a value.
LEMMA FramePasses ==
  ASSUME NEW f, NEW slice, NEW part, CompoundIs(f, slice, part), NEW place, NEW t,
         \/ f.in = "object" /\ f.at = "colon" /\ t = "Colon" /\ place = "value"
         \/ f.in = "object" /\ f.at = "behind" /\ t = "Comma" /\ place = "name"
         \/ f.in = "array" /\ f.at = "behind" /\ t = "Comma" /\ place = "value",
         NEW g, g = [in |-> f.in, at |-> place, n |-> f.n]
  PROVE  CompoundIs(g, slice, Append(part, Token(t)))
<1>1. PICK texts : TextsFit(f, slice, texts) /\ Becomes(Items(f, slice, texts), part, Len(part))
  BY DEF CompoundIs
<1>2. g.in = f.in /\ g.at = place /\ g.n = f.n /\ place # "first" /\ (Named(g) <=> Named(f)) /\ f.at # "first"
      /\ f.in \in {"array", "object"}
  BY DEF Named
<1>3. TextsFit(g, slice, texts)
  BY <1>1, <1>2 DEF TextsFit
<1>4. Token(t).t # "value"
  BY DEF Token
<1>5. <<>> \o <<Token(t)>> = <<Token(t)>>
  BY SeqOne, SeqJoinedEmpty
<1>6. Ending(g, slice) = Ending(f, slice) \o <<Token(t)>>
  <2>1. CASE f.in = "object" /\ f.at = "colon"
    <3>1. t = "Colon" /\ place = "value" /\ Named(f) /\ Named(g)
      BY <1>2, <2>1 DEF Named
    <3>2. PendingName(g, slice) = PendingName(f, slice)
      BY <1>2 DEF PendingName
    <3>3. Ending(f, slice) = CommaIf(f.n) \o <<PendingName(f, slice)>>
      BY <2>1, <3>1 DEF Ending
    <3>4. Ending(g, slice) = (CommaIf(g.n) \o <<PendingName(g, slice)>>) \o <<Token("Colon")>>
      BY <1>2, <3>1 DEF Ending
    <3>5. QED
      BY <1>2, <3>1, <3>2, <3>3, <3>4, Zenon
  <2>2. CASE f.at = "behind"
    <3>1. t = "Comma" /\ ~Named(f) /\ ~Named(g) /\ place \in {"name", "value"}
      BY <1>2, <2>2 DEF Named
    <3>2. Ending(f, slice) = <<>>
      BY <2>2, <3>1 DEF Ending
    <3>3. Ending(g, slice) = <<Token("Comma")>>
      BY <1>2, <3>1 DEF Ending
    <3>4. QED
      BY <1>5, <3>1, <3>2, <3>3, Zenon
  <2>3. QED
    BY <2>1, <2>2
<1>7. QED
  BY <1>1, <1>2, <1>3, <1>4, <1>6, CompoundPasses

\* A value.
LEMMA RootTakes ==
  ASSUME NEW f, NEW slice, NEW part, RootIs(f, slice, part), f.at = "first",
         NEW v, NEW z, Becomes(<<Unspelled(v)>>, z, Len(z)),
         NEW place, place # "first", NEW g, g = [in |-> f.in, at |-> place, n |-> f.n + 1]
  PROVE  RootIs(g, Append(slice, v), part \o z)
<1>1. slice = <<>> /\ part = <<>> /\ f.in = "root"
  BY DEF RootIs
<1>2. Sequence(z)
  BY BecomesTypes
<1>3. Append(slice, v) = <<v>>
  BY <1>1, SeqOne
<1>4. part \o z = z
  BY <1>1, <1>2, SeqJoinedEmpty
<1>5. g.in = "root" /\ g.at # "first"
  BY <1>1
<1>6. QED
  BY <1>3, <1>4, <1>5 DEF RootIs

\* Three tokens.
LEMMA Triple ==
  ASSUME NEW a, NEW b, NEW c PROVE <<a>> \o (<<b>> \o <<c>>) = <<a, b, c>> /\ Sequence(<<a, b, c>>)
<1> DEFINE x == <<a>>
           y == <<b>>
           z == <<c>>
<1>1. Sequence(x) /\ Sequence(y) /\ Sequence(z)
  BY SeqOne
<1>2. Len(x) = 1 /\ Len(y) = 1 /\ Len(z) = 1 /\ x[1] = a /\ y[1] = b /\ z[1] = c
  BY SeqOne
<1> HIDE DEF x, y, z
<1> DEFINE q == y \o z
<1>3. Sequence(q) /\ Len(q) = 2 /\ q[1] = b /\ q[2] = c
  <2>1. Sequence(q) /\ Len(q) = Len(y) + Len(z) /\ (\A j \in 1..Len(y) : q[j] = y[j])
        /\ \A j \in 1..Len(z) : q[Len(y) + j] = z[j]
    BY <1>1, SeqJoined
  <2>2. 1 \in 1..1 /\ 1 + 1 = 2
    OBVIOUS
  <2> HIDE DEF q
  <2>3. QED
    BY <1>2, <2>1, <2>2
<1> HIDE DEF q
<1>4. Sequence(q)
  BY <1>3
<1> DEFINE s == x \o q
<1>5. Sequence(s) /\ Len(s) = 3 /\ s[1] = a /\ s[2] = b /\ s[3] = c
  <2>1. Sequence(s) /\ Len(s) = Len(x) + Len(q) /\ (\A j \in 1..Len(x) : s[j] = x[j])
        /\ \A j \in 1..Len(q) : s[Len(x) + j] = q[j]
    BY <1>1, <1>4, SeqJoined
  <2>2. 1 \in 1..1 /\ 1 \in 1..2 /\ 2 \in 1..2 /\ 1 + 1 = 2 /\ 1 + 2 = 3
    OBVIOUS
  <2> HIDE DEF s
  <2>3. QED
    BY <1>2, <1>3, <2>1, <2>2
<1> HIDE DEF s
<1> DEFINE w == <<a, b, c>>
<1>6. Sequence(w)
  <2>1. w \in Seq({a, b, c})
    OBVIOUS
  <2>2. QED
    BY <2>1 DEF Sequence
<1>7. Len(s) = Len(w) /\ \A j \in 1..Len(s) : s[j] = w[j]
  <2>1. Len(w) = 3 /\ w[1] = a /\ w[2] = b /\ w[3] = c
    OBVIOUS
  <2>2. 1..3 = {1, 2, 3}
    OBVIOUS
  <2> HIDE DEF w
  <2>3. s[1] = w[1] /\ s[2] = w[2] /\ s[3] = w[3]
    BY <1>5, <2>1
  <2>4. Len(s) = Len(w) /\ 1..Len(s) = {1, 2, 3}
    BY <1>5, <2>1, <2>2
  <2>5. QED
    BY <2>3, <2>4, Zenon
<1>8. Sequence(s)
  BY <1>5
<1> HIDE DEF w
<1>9. s = w
  BY <1>6, <1>7, <1>8, SeqSame
<1>10. QED
  BY <1>6, <1>9 DEF s, q, w, x, y, z

\* The same for a compound: in an object, the pair is complete.
LEMMA FrameTakes ==
  ASSUME NEW f, NEW slice, NEW part, CompoundIs(f, slice, part), Awaits(f),
         NEW v, NEW z, Becomes(<<Unspelled(v)>>, z, Len(z)),
         NEW place \in {"behind", "rest"}, NEW g, g = [in |-> f.in, at |-> place, n |-> f.n + 1]
  PROVE  CompoundIs(g, Append(slice, v), part \o z)
<1> DEFINE slice2 == Append(slice, v)
           n == f.n
           x == <<Unspelled(v)>>
<1>1. PICK texts : TextsFit(f, slice, texts) /\ Becomes(Items(f, slice, texts), part, Len(part))
  BY DEF CompoundIs
<1>2. f.in \in {"array", "object"}
  BY DEF CompoundIs
<1>3. g.in = f.in /\ g.at = place /\ g.n = n + 1 /\ place # "first" /\ ~Named(g)
      /\ (Named(f) <=> f.in = "object") /\ (f.in = "object" => f.at = "value")
      /\ (f.in = "array" => f.at \in {"first", "value"})
  BY <1>2 DEF Named, Awaits
<1>4. Sequences(texts) /\ Sequence(slice) /\ n \in Nat
  BY <1>1 DEF TextsFit
<1>5. Len(texts) = n /\ (f.at = "first" => n = 0) /\ (f.in = "array" /\ f.at = "value" => n >= 1)
      /\ (f.in = "array" => Len(slice) = n + 1 /\ \A j \in 1..n : texts[j] = ElementText(slice, j))
      /\ (f.in = "object" => Len(slice) = 2 * n + 2 /\ \A j \in 1..n : texts[j] = PairText(slice, j))
  BY <1>1, <1>3 DEF TextsFit
<1> DEFINE t == IF f.in = "array" THEN x
                ELSE <<PendingName(f, slice), Token("Colon"), Unspelled(v)>>
           texts2 == Append(texts, t)
<1>6. Sequence(t)
  <2>1. Sequence(x)
    BY SeqOne
  <2>2. Sequence(<<PendingName(f, slice), Token("Colon"), Unspelled(v)>>)
    BY Triple
  <2>3. QED
    BY <2>1, <2>2
<1>7. Sequence(slice2) /\ Len(slice2) = Len(slice) + 1 /\ slice2[Len(slice) + 1] = v /\ \A k \in 1..Len(slice) : slice2[k] = slice[k]
  BY <1>4, SeqAppended
<1> HIDE DEF t
<1>8. Sequences(texts2)
  BY <1>4, <1>6, SeqsAppended
<1>9. Len(texts2) = Len(texts) + 1 /\ texts2[Len(texts) + 1] = t /\ \A k \in 1..Len(texts) : texts2[k] = texts[k]
  <2>1. Sequence(texts)
    BY <1>4 DEF Sequences
  <2>2. QED
    BY <2>1, SeqAppended
<1> HIDE DEF slice2, texts2
<1>10. Len(texts2) = n + 1 /\ texts2[n + 1] = t /\ \A k \in 1..n : texts2[k] = texts[k]
  BY <1>5, <1>9
<1>11. TextsFit(g, slice2, texts2)
  <2>1. CASE f.in = "array"
    <3>1. Len(slice) = n + 1
      BY <1>5, <2>1
    <3>2. Len(slice2) = n + 2 /\ slice2[n + 2] = v /\ \A k \in 1..(n + 1) : slice2[k] = slice[k]
      <4>1. Len(slice) + 1 = n + 2
        BY <1>4, <3>1
      <4>2. QED
        BY <1>7, <3>1, <4>1
    <3>3. ASSUME NEW j \in 1..(n + 1) PROVE texts2[j] = ElementText(slice2, j)
      <4>1. CASE j = n + 1
        <5>1. slice2[j + 1] = v
          BY <1>4, <3>2, <4>1
        <5>2. t = x
          BY <2>1 DEF t
        <5>3. QED
          BY <1>10, <4>1, <5>1, <5>2 DEF ElementText
      <4>2. CASE j # n + 1
        <5>1. j \in 1..n /\ j + 1 \in 1..(n + 1)
          BY <1>4, <4>2
        <5>2. slice2[j + 1] = slice[j + 1]
          BY <3>2, <5>1
        <5>3. texts[j] = ElementText(slice, j)
          BY <1>5, <2>1, <5>1
        <5>4. QED
          BY <1>10, <5>1, <5>2, <5>3 DEF ElementText
      <4>3. QED
        BY <4>1, <4>2
    <3>4. n + 1 \in Nat /\ n + 1 >= 1 /\ (n + 1) + 1 = n + 2
      BY <1>4
    <3>5. QED
      BY <1>3, <1>7, <1>8, <1>10, <2>1, <3>2, <3>3, <3>4 DEF TextsFit
  <2>2. CASE f.in = "object"
    <3>1. Len(slice) = 2 * n + 2
      BY <1>5, <2>2
    <3>2. Len(slice2) = 2 * n + 3 /\ slice2[2 * n + 3] = v /\ \A k \in 1..(2 * n + 2) : slice2[k] = slice[k]
      <4>1. Len(slice) + 1 = 2 * n + 3
        BY <1>4, <3>1
      <4>2. QED
        BY <1>7, <3>1, <4>1
    <3>3. ASSUME NEW j \in 1..(n + 1) PROVE texts2[j] = PairText(slice2, j)
      <4>1. CASE j = n + 1
        <5>1. slice2[2 * j + 1] = v /\ slice2[2 * j] = slice[2 * n + 2]
          <6>1. 2 * j + 1 = 2 * n + 3 /\ 2 * j = 2 * n + 2 /\ 2 * n + 2 \in 1..(2 * n + 2)
            BY <1>4, <4>1, SMTT(40)
          <6>2. QED
            BY <3>2, <6>1
        <5>2. t = <<StringToken(slice[2 * n + 2].str), Token("Colon"), Unspelled(v)>>
          BY <2>2 DEF t, PendingName
        <5>3. PairText(slice2, j) = <<StringToken(slice[2 * n + 2].str), Token("Colon"), Unspelled(v)>>
          BY <5>1 DEF PairText, MemberText
        <5>4. QED
          BY <1>10, <4>1, <5>2, <5>3
      <4>2. CASE j # n + 1
        <5>1. j \in 1..n /\ 2 * j + 1 \in 1..(2 * n + 2) /\ 2 * j \in 1..(2 * n + 2)
          BY <1>4, <4>2
        <5>2. slice2[2 * j + 1] = slice[2 * j + 1] /\ slice2[2 * j] = slice[2 * j]
          BY <3>2, <5>1
        <5>3. texts[j] = PairText(slice, j)
          BY <1>5, <2>2, <5>1
        <5>4. QED
          BY <1>10, <5>1, <5>2, <5>3 DEF PairText
      <4>3. QED
        BY <4>1, <4>2
    <3>4. n + 1 \in Nat /\ n + 1 >= 1 /\ 2 * (n + 1) + 1 = 2 * n + 3
      BY <1>4
    <3>5. QED
      BY <1>3, <1>7, <1>8, <1>10, <2>2, <3>2, <3>3, <3>4 DEF TextsFit
  <2>3. QED
    BY <1>2, <2>1, <2>2
<1>12. Ending(g, slice2) = <<>>
  BY <1>3 DEF Ending
<1>13. CommaIf(n) \o t = Ending(f, slice) \o x
  <2>1. CASE f.in = "array"
    <3>1. Ending(f, slice) = CommaIf(n)
      BY <1>3, <1>5, <2>1 DEF Ending, CommaIf
    <3>2. t = x
      BY <2>1 DEF t
    <3>3. QED
      BY <3>1, <3>2, Zenon
  <2>2. CASE f.in = "object"
    <3> DEFINE c == CommaIf(n)
               p == PendingName(f, slice)
               u == Unspelled(v)
               k == Token("Colon")
    <3>1. Ending(f, slice) = (c \o <<p>>) \o <<k>>
      BY <1>3, <2>2 DEF Ending
    <3>2. t = <<p, k, u>>
      BY <2>2 DEF t
    <3>3. Sequence(c)
      BY SeqOne DEF CommaIf
    <3> HIDE DEF c, p, u, k
    <3>4. ((c \o <<p>>) \o <<k>>) \o <<u>> = c \o <<p, k, u>>
      <4>1. Sequence(<<p>>) /\ Sequence(<<k>>) /\ Sequence(<<u>>)
        BY SeqOne
      <4>2. Sequence(c \o <<p>>) /\ Sequence(<<k>> \o <<u>>)
        BY <3>3, <4>1, SeqJoined
      <4>3. ((c \o <<p>>) \o <<k>>) \o <<u>> = (c \o <<p>>) \o (<<k>> \o <<u>>)
        BY <4>1, <4>2, SeqJoinedTwice
      <4>4. (c \o <<p>>) \o (<<k>> \o <<u>>) = c \o (<<p>> \o (<<k>> \o <<u>>))
        BY <3>3, <4>1, <4>2, SeqJoinedTwice
      <4>5. <<p>> \o (<<k>> \o <<u>>) = <<p, k, u>>
        BY Triple
      <4>6. QED
        BY <4>3, <4>4, <4>5, Zenon
    <3>5. QED
      BY <3>1, <3>2, <3>4, Zenon DEF u, c, k, p
  <2>3. QED
    BY <1>2, <2>1, <2>2
<1>14. CompoundIs(g, slice2, part \o z)
  BY <1>1, <1>2, <1>3, <1>6, <1>11, <1>12, <1>13, CompoundTakes DEF texts2
<1>15. QED
  BY <1>14 DEF slice2

\* A compound whose texts a value has.
LEMMA CompoundDone ==
  ASSUME NEW f, NEW slice, NEW part, NEW texts, TextsFit(f, slice, texts), Becomes(Items(f, slice, texts), part, Len(part)),
         f.at \in {"first", "behind"}, f.in \in {"array", "object"},
         NEW tok, tok.t # "value", NEW v, Spelled(v) = (Opening(f) \o Listed(texts)) \o <<tok>>
  PROVE  Becomes(<<Unspelled(v)>>, Append(part, tok), Len(Append(part, tok)))
<1> DEFINE part2 == Append(part, tok)
           head == Opening(f) \o Listed(texts)
<1>1. Sequences(texts)
  BY DEF TextsFit
<1>2. Ending(f, slice) = <<>>
  BY DEF Ending, Named
<1>3. Sequence(head)
  BY <1>1, ItemsParts
<1> HIDE DEF head
<1>4. head \o <<>> = head
  BY <1>3, SeqJoinedEmpty
<1>5. Items(f, slice, texts) = head
  BY <1>2, <1>4, Zenon DEF Items, head
<1>6. Becomes(head \o <<tok>>, Append(part, tok), Len(part) + 0)
  <2>1. Becomes(<<tok>>, <<tok>>, 0)
    BY BecomesFlat
  <2>2. Becomes(Items(f, slice, texts) \o <<tok>>, part \o <<tok>>, Len(part) + 0)
    BY <2>1, BecomesJoined
  <2>3. Sequence(part) /\ Sequence(<<>>)
    BY BecomesTypes, SeqOne
  <2>4. part \o <<tok>> = Append(part, tok)
    BY <2>3, SeqJoinedOne
  <2>5. QED
    BY <1>5, <2>2, <2>4, Zenon
<1>7. Becomes(Spelled(v), part2, Len(part) + 0)
  BY <1>6, Zenon DEF head
<1> HIDE DEF part2
<1>8. Becomes(<<Unspelled(v)>>, part2, (Len(part) + 0) + 1)
  BY <1>7, BecomesValue
<1>9. Len(part2) = (Len(part) + 0) + 1
  <2>1. Sequence(part)
    BY BecomesTypes
  <2>2. Len(part2) = Len(part) + 1 /\ Len(part) \in Nat
    BY <2>1, SeqAppended DEF part2
  <2>3. QED
    BY <2>2
<1>10. QED
  BY <1>8, <1>9, Zenon DEF part2

\* The text of an array,
LEMMA ArrayEnds ==
  ASSUME NEW f, NEW slice, NEW part, CompoundIs(f, slice, part), f.in = "array", f.at \in {"first", "behind"},
         NEW E, Sequence(E), Len(E) = f.n, \A k \in 1..f.n : E[k] = slice[k + 1],
         NEW v, v = [kind |-> "array", elements |-> E]
  PROVE  Becomes(<<Unspelled(v)>>, Append(part, Token("RightBracket")), Len(Append(part, Token("RightBracket"))))
<1> DEFINE tok == Token("RightBracket")
           n == f.n
<1>1. PICK texts : TextsFit(f, slice, texts) /\ Becomes(Items(f, slice, texts), part, Len(part))
  BY DEF CompoundIs
<1>2. n \in Nat /\ Len(texts) = n /\ \A j \in 1..n : texts[j] = ElementText(slice, j)
  BY <1>1 DEF TextsFit
<1>3. Sequence(texts)
  BY <1>1 DEF TextsFit, Sequences
<1> DEFINE u == [j \in DOMAIN v.elements |-> <<Unspelled(v.elements[j])>>]
<1>4. u = texts
  <2>1. v.elements = E
    OBVIOUS
  <2>2. DOMAIN E = 1..n
    BY DEF Sequence
  <2>3. u = [j \in 1..n |-> <<Unspelled(E[j])>>]
    BY <2>1, <2>2, Zenon
  <2>4. u = [j \in 1..n |-> u[j]] /\ \A j \in 1..n : u[j] = <<Unspelled(E[j])>>
    BY <2>3, Zenon
  <2> HIDE DEF u
  <2>5. Sequence(u) /\ Len(u) = n
    BY <1>2, <2>4, SeqTable
  <2>6. ASSUME NEW j \in 1..n PROVE u[j] = texts[j]
    BY <1>2, <2>4 DEF ElementText
  <2>7. QED
    BY <1>2, <1>3, <2>5, <2>6, SeqSame
<1>5. v.kind = "array"
  OBVIOUS
<1> HIDE DEF u
<1>6. Spelled(v) = (<<Token("LeftBracket")>> \o Listed(u)) \o <<tok>>
  <2>1. v.kind # "object"
    BY <1>5
  <2>2. QED
    BY <1>5, <2>1, Zenon DEF Spelled, u
<1>7. Opening(f) = <<Token("LeftBracket")>>
  BY DEF Opening
<1>8. Spelled(v) = (Opening(f) \o Listed(texts)) \o <<tok>>
  BY <1>4, <1>6, <1>7, Zenon
<1>9. tok.t # "value"
  BY DEF Token
<1> HIDE DEF tok
<1>10. Becomes(<<Unspelled(v)>>, Append(part, tok), Len(Append(part, tok)))
  BY <1>1, <1>8, <1>9, CompoundDone
<1>11. QED
  BY <1>10 DEF tok

\* of an object.
LEMMA ObjectEnds ==
  ASSUME NEW f, NEW slice, NEW part, CompoundIs(f, slice, part), f.in = "object", f.at \in {"first", "behind"},
         NEW v, v = [kind |-> "object",
                     members |-> [j \in 1..f.n |-> [name |-> slice[2 * j].str, value |-> slice[2 * j + 1]]]]
  PROVE  Becomes(<<Unspelled(v)>>, Append(part, Token("RightCurly")), Len(Append(part, Token("RightCurly"))))
<1> DEFINE tok == Token("RightCurly")
           n == f.n
           M == [j \in 1..n |-> [name |-> slice[2 * j].str, value |-> slice[2 * j + 1]]]
<1>1. PICK texts : TextsFit(f, slice, texts) /\ Becomes(Items(f, slice, texts), part, Len(part))
  BY DEF CompoundIs
<1>2. n \in Nat /\ Len(texts) = n /\ \A j \in 1..n : texts[j] = PairText(slice, j)
  BY <1>1 DEF TextsFit
<1>3. Sequence(texts)
  BY <1>1 DEF TextsFit, Sequences
<1> DEFINE u == [j \in DOMAIN v.members |-> MemberText(v.members[j])]
<1>4. u = texts
  <2>1. v.members = M
    OBVIOUS
  <2>2. DOMAIN M = 1..n /\ \A j \in 1..n : M[j] = [name |-> slice[2 * j].str, value |-> slice[2 * j + 1]]
    OBVIOUS
  <2> HIDE DEF M
  <2>3. u = [j \in 1..n |-> MemberText(M[j])]
    BY <2>1, <2>2, Zenon
  <2>4. u = [j \in 1..n |-> u[j]] /\ \A j \in 1..n : u[j] = MemberText(M[j])
    BY <2>3, Zenon
  <2> HIDE DEF u
  <2>5. Sequence(u) /\ Len(u) = n
    BY <1>2, <2>4, SeqTable
  <2>6. ASSUME NEW j \in 1..n PROVE u[j] = texts[j]
    BY <1>2, <2>2, <2>4 DEF PairText
  <2>7. QED
    BY <1>2, <1>3, <2>5, <2>6, SeqSame
<1>5. v.kind = "object"
  OBVIOUS
<1> HIDE DEF u
<1>6. Spelled(v) = (<<Token("LeftCurly")>> \o Listed(u)) \o <<tok>>
  BY <1>5, Zenon DEF Spelled, u
<1>7. Opening(f) = <<Token("LeftCurly")>>
  BY DEF Opening
<1>8. Spelled(v) = (Opening(f) \o Listed(texts)) \o <<tok>>
  BY <1>4, <1>6, <1>7, Zenon
<1>9. tok.t # "value"
  BY DEF Token
<1> HIDE DEF tok
<1>10. Becomes(<<Unspelled(v)>>, Append(part, tok), Len(Append(part, tok)))
  BY <1>1, <1>8, <1>9, CompoundDone
<1>11. QED
  BY <1>10 DEF tok

\* A scalar is one token.
LEMMA ScalarSpelled ==
  ASSUME NEW token, token.t \in Scalars
  PROVE  Becomes(<<Unspelled(Scalar(token).value)>>, <<Meant(token)>>, Len(<<Meant(token)>>)) /\ Meant(token).t # "value"
<1> DEFINE v == Scalar(token).value
<1>1. Spelled(v) = <<Meant(token)>> /\ Meant(token).t # "value"
  <2>1. CASE token.t = "string"
    <3>1. v = [kind |-> "string", str |-> ParseString(token.raw).str]
      BY <2>1, ScalarNamed
    <3>2. v.kind = "string" /\ v.str = ParseString(token.raw).str
      BY <3>1
    <3>3. Meant(token) = StringToken(ParseString(token.raw).str)
      BY <2>1 DEF Meant
    <3> HIDE DEF v
    <3>4. Spelled(v) = <<StringToken(v.str)>>
      BY <3>2 DEF Spelled
    <3>5. QED
      BY <3>2, <3>3, <3>4 DEF StringToken
  <2>2. CASE token.t = "number"
    <3> DEFINE types == {"none", "Double", "Int", "Int64", "Uint", "Uint64"}
    <3>1. v.kind \in types
      <4>1. ASSUME NEW raw, NEW minus, NEW int, NEW frac, NEW exp
            PROVE  NumberOf(raw, minus, int, frac, exp).type \in types
        BY DEF NumberOf
      <4>2. ParseNumber(token.raw).type \in types
        BY <4>1 DEF ParseNumber, BehindInteger, BehindFraction
      <4>3. v.kind = ParseNumber(token.raw).type
        BY <2>2 DEF Scalar
      <4>4. QED
        BY <4>2, <4>3
    <3>2. Meant(token) = [t |-> "number", raw |-> v]
      BY <2>2 DEF Meant
    <3>3. v.kind # "object" /\ v.kind # "array" /\ v.kind # "string" /\ v.kind \notin {"null", "true", "false"}
      BY <3>1
    <3> HIDE DEF v
    <3>4. Spelled(v) = <<[t |-> "number", raw |-> v]>>
      BY <3>3, Zenon DEF Spelled
    <3>5. QED
      BY <3>2, <3>4
  <2>3. CASE token.t \in {"null", "true", "false"}
    <3>1. v.kind = token.t
      BY <2>3 DEF Scalar
    <3>2. Meant(token) = Token(token.t)
      BY <2>3 DEF Meant
    <3> HIDE DEF v
    <3>3. Spelled(v) = <<Token(v.kind)>>
      BY <2>3, <3>1 DEF Spelled
    <3>4. QED
      BY <2>3, <3>1, <3>2, <3>3 DEF Token
  <2>4. QED
    BY <2>1, <2>2, <2>3 DEF Scalars
<1>2. Becomes(<<Meant(token)>>, <<Meant(token)>>, 0)
  BY <1>1, BecomesFlat
<1>3. Becomes(Spelled(v), <<Meant(token)>>, 0)
  BY <1>1, <1>2, Zenon
<1> HIDE DEF v
<1>4. Becomes(<<Unspelled(v)>>, <<Meant(token)>>, 0 + 1)
  BY <1>3, BecomesValue
<1>5. Len(<<Meant(token)>>) = 0 + 1
  BY SeqOne
<1>6. QED
  BY <1>1, <1>4, <1>5, Zenon DEF v

------------------------------------------------------------------------------
(* The document and the text                                                *)

\* The document and the text of nested frames, each with its own part of them.
Held(F, doc, toks) ==
  \E slices, parts :
    /\ Sequences(slices) /\ Sequences(parts) /\ Len(slices) = Len(F) /\ Len(parts) = Len(F)
    /\ FlattenSeq(slices) = doc /\ FlattenSeq(parts) = toks
    /\ \A k \in 1..Len(F) : FrameIs(F[k], slices[k], parts[k])

\* The innermost frame has the last part of both,
LEMMA HeldParts ==
  ASSUME NEW G, NEW f, NEW doc, NEW toks, Sequence(G), Held(Append(G, f), doc, toks)
  PROVE  \E D0, slice, P0, part :
           /\ Sequence(D0) /\ Sequence(slice) /\ Sequence(P0) /\ Sequence(part)
           /\ doc = D0 \o slice /\ toks = P0 \o part /\ FrameIs(f, slice, part) /\ Held(G, D0, P0)
<1> DEFINE F == Append(G, f)
           m == Len(G)
<1>1. m \in Nat /\ Len(F) = m + 1 /\ F[m + 1] = f /\ \A k \in 1..m : F[k] = G[k]
  BY SeqAppended
<1> HIDE DEF F
<1>2. PICK slices, parts :
        /\ Sequences(slices) /\ Sequences(parts) /\ Len(slices) = Len(F) /\ Len(parts) = Len(F)
        /\ FlattenSeq(slices) = doc /\ FlattenSeq(parts) = toks
        /\ \A k \in 1..Len(F) : FrameIs(F[k], slices[k], parts[k])
  BY DEF Held, F
<1>3. ASSUME NEW s, Sequences(s), Len(s) = m + 1
      PROVE  /\ Sequences(Front(s)) /\ Sequence(Last(s)) /\ FlattenSeq(s) = FlattenSeq(Front(s)) \o Last(s)
             /\ Sequence(FlattenSeq(Front(s))) /\ Len(Front(s)) = m /\ Last(s) = s[m + 1]
             /\ \A k \in 1..m : Front(s)[k] = s[k]
  <2>1. Sequence(s)
    BY <1>3 DEF Sequences
  <2>2. s # <<>>
    <3>1. Len(<<>>) = 0 /\ m + 1 # 0
      BY <1>1
    <3>2. QED
      BY <1>3, <3>1
  <2>3. Sequence(Front(s)) /\ s = Append(Front(s), Last(s)) /\ Len(Front(s)) = Len(s) - 1
    BY <2>1, <2>2, SeqParts
  <2>4. Len(Front(s)) = m
    BY <1>1, <1>3, <2>3
  <2> DEFINE p == Front(s)
             x == Last(s)
  <2> HIDE DEF p, x
  <2>5. Sequence(p) /\ s = Append(p, x) /\ Len(p) = m
    BY <2>3, <2>4 DEF p, x
  <2>6. Append(p, x)[Len(p) + 1] = x /\ \A k \in 1..Len(p) : Append(p, x)[k] = p[k]
    BY <2>5, SeqAppended
  <2>7. s[m + 1] = x /\ \A k \in 1..m : s[k] = p[k]
    BY <2>5, <2>6
  <2>8. \A k \in 1..m : Sequence(p[k])
    <3> TAKE k \in 1..m
    <3>1. k \in 1..(m + 1)
      BY <1>1
    <3>2. Sequence(s[k])
      BY <1>3, <3>1 DEF Sequences
    <3>3. QED
      BY <2>7, <3>2
  <2>9. Sequence(x)
    <3>1. m + 1 \in 1..(m + 1)
      BY <1>1
    <3>2. Sequence(s[m + 1])
      BY <1>3, <3>1 DEF Sequences
    <3>3. QED
      BY <2>7, <3>2
  <2>10. Sequences(p)
    BY <2>5, <2>8 DEF Sequences
  <2>11. FlattenSeq(Append(p, x)) = FlattenSeq(p) \o x /\ Sequence(FlattenSeq(p))
    BY <2>9, <2>10, SeqsAppended
  <2>12. FlattenSeq(s) = FlattenSeq(p) \o x
    BY <2>5, <2>11, Zenon
  <2>13. QED
    BY <2>5, <2>7, <2>9, <2>10, <2>11, <2>12 DEF p, x
<1> DEFINE ds == FlattenSeq(Front(slices))
           sl == Last(slices)
           ps == FlattenSeq(Front(parts))
           pa == Last(parts)
<1>4. /\ Sequences(Front(slices)) /\ Sequence(sl) /\ doc = ds \o sl
      /\ Sequence(ds) /\ Len(Front(slices)) = m /\ sl = slices[m + 1]
      /\ \A k \in 1..m : Front(slices)[k] = slices[k]
  BY <1>1, <1>2, <1>3
<1>5. /\ Sequences(Front(parts)) /\ Sequence(pa) /\ toks = ps \o pa
      /\ Sequence(ps) /\ Len(Front(parts)) = m /\ pa = parts[m + 1]
      /\ \A k \in 1..m : Front(parts)[k] = parts[k]
  BY <1>1, <1>2, <1>3
<1>6. FrameIs(f, sl, pa)
  <2>1. m + 1 \in 1..(m + 1)
    BY <1>1
  <2>2. FrameIs(F[m + 1], slices[m + 1], parts[m + 1])
    BY <1>1, <1>2, <2>1
  <2>3. QED
    BY <1>1, <1>4, <1>5, <2>2
<1>7. Held(G, ds, ps)
  <2>1. ASSUME NEW k \in 1..m PROVE FrameIs(G[k], Front(slices)[k], Front(parts)[k])
    <3>1. k \in 1..(m + 1)
      BY <1>1
    <3>2. FrameIs(F[k], slices[k], parts[k])
      BY <1>1, <1>2, <3>1
    <3>3. F[k] = G[k] /\ Front(slices)[k] = slices[k] /\ Front(parts)[k] = parts[k]
      BY <1>1, <1>4, <1>5
    <3>4. QED
      BY <3>2, <3>3
  <2>2. Sequences(Front(slices)) /\ Sequences(Front(parts)) /\ Len(Front(slices)) = Len(G) /\ Len(Front(parts)) = Len(G)
    BY <1>4, <1>5
  <2>3. QED
    BY <2>1, <2>2 DEF Held
<1> HIDE DEF ds, sl, ps, pa
<1>8. QED
  BY <1>4, <1>5, <1>6, <1>7

\* and whatever part it has, with those around it, is theirs.
LEMMA HeldMade ==
  ASSUME NEW G, NEW f, NEW D0, NEW slice, NEW P0, NEW part, Sequence(G), Sequence(slice), Sequence(part),
         FrameIs(f, slice, part), Held(G, D0, P0)
  PROVE  Held(Append(G, f), D0 \o slice, P0 \o part)
<1> DEFINE F == Append(G, f)
           m == Len(G)
<1>1. m \in Nat /\ Len(F) = m + 1 /\ F[m + 1] = f /\ \A k \in 1..m : F[k] = G[k]
  BY SeqAppended
<1> HIDE DEF F
<1>2. PICK slices, parts :
        /\ Sequences(slices) /\ Sequences(parts) /\ Len(slices) = m /\ Len(parts) = m
        /\ FlattenSeq(slices) = D0 /\ FlattenSeq(parts) = P0
        /\ \A k \in 1..m : FrameIs(G[k], slices[k], parts[k])
  BY DEF Held
<1> DEFINE ss == Append(slices, slice)
           pp == Append(parts, part)
<1>3. Sequences(slices) /\ Sequences(parts) /\ Sequence(slices) /\ Sequence(parts)
  BY <1>2 DEF Sequences
<1>4. /\ Sequences(ss) /\ FlattenSeq(ss) = D0 \o slice /\ Len(ss) = m + 1 /\ ss[m + 1] = slice
      /\ \A k \in 1..m : ss[k] = slices[k]
  <2>1. Sequences(ss) /\ FlattenSeq(ss) = FlattenSeq(slices) \o slice
    BY <1>3, SeqsAppended
  <2>2. Len(ss) = Len(slices) + 1 /\ ss[Len(slices) + 1] = slice /\ \A k \in 1..Len(slices) : ss[k] = slices[k]
    BY <1>3, SeqAppended
  <2> HIDE DEF ss
  <2>3. Len(ss) = m + 1 /\ ss[m + 1] = slice /\ \A k \in 1..m : ss[k] = slices[k]
    BY <1>2, <2>2, Zenon
  <2>4. FlattenSeq(ss) = D0 \o slice
    BY <1>2, <2>1, Zenon
  <2>5. QED
    BY <2>1, <2>3, <2>4
<1>5. /\ Sequences(pp) /\ FlattenSeq(pp) = P0 \o part /\ Len(pp) = m + 1 /\ pp[m + 1] = part
      /\ \A k \in 1..m : pp[k] = parts[k]
  <2>1. Sequences(pp) /\ FlattenSeq(pp) = FlattenSeq(parts) \o part
    BY <1>3, SeqsAppended
  <2>2. Len(pp) = Len(parts) + 1 /\ pp[Len(parts) + 1] = part /\ \A k \in 1..Len(parts) : pp[k] = parts[k]
    BY <1>3, SeqAppended
  <2> HIDE DEF pp
  <2>3. Len(pp) = m + 1 /\ pp[m + 1] = part /\ \A k \in 1..m : pp[k] = parts[k]
    BY <1>2, <2>2, Zenon
  <2>4. FlattenSeq(pp) = P0 \o part
    BY <1>2, <2>1, Zenon
  <2>5. QED
    BY <2>1, <2>3, <2>4
<1> HIDE DEF ss, pp
<1>6. ASSUME NEW k \in 1..(m + 1) PROVE FrameIs(F[k], ss[k], pp[k])
  <2>1. CASE k = m + 1
    BY <1>1, <1>4, <1>5, <2>1
  <2>2. CASE k # m + 1
    <3>1. k \in 1..m
      BY <1>1, <2>2
    <3>2. QED
      BY <1>1, <1>2, <1>4, <1>5, <3>1
  <2>3. QED
    BY <2>1, <2>2
<1>7. Held(F, D0 \o slice, P0 \o part)
  <2> DEFINE dd == D0 \o slice
             tt == P0 \o part
  <2>1. FlattenSeq(ss) = dd /\ FlattenSeq(pp) = tt /\ Len(ss) = Len(F) /\ Len(pp) = Len(F)
    BY <1>1, <1>4, <1>5
  <2>2. \A k \in 1..Len(F) : FrameIs(F[k], ss[k], pp[k])
    BY <1>1, <1>6
  <2> HIDE DEF dd, tt
  <2>3. Held(F, dd, tt)
    BY <1>4, <1>5, <2>1, <2>2, Zenon DEF Held
  <2>4. QED
    BY <2>3 DEF dd, tt
<1>8. QED
  BY <1>7 DEF F

\* A part of a sequence.
LEMMA SeqPart ==
  ASSUME NEW s, Sequence(s), NEW c \in Nat, NEW d \in Nat, c >= 1, d <= Len(s), c <= d + 1
  PROVE  /\ Sequence(SubSeq(s, c, d)) /\ Len(SubSeq(s, c, d)) = (d - c) + 1
         /\ \A k \in 1..((d - c) + 1) : SubSeq(s, c, d)[k] = s[(c + k) - 1]
<1>1. PICK S : s \in Seq(S)
  BY DEF Sequence
<1>2. \A k \in c..d : s[k] \in S
  <2>1. Len(s) \in Nat /\ \A k \in 1..Len(s) : s[k] \in S
    BY <1>1, ElementsIn
  <2>2. \A k \in c..d : k \in 1..Len(s)
    BY <2>1
  <2>3. QED
    BY <2>1, <2>2
<1>3. c \in Int /\ d \in Int
  OBVIOUS
<1>4. /\ SubSeq(s, c, d) \in Seq(S) /\ Len(SubSeq(s, c, d)) = (IF c <= d THEN d - c + 1 ELSE 0)
      /\ \A k \in 1..(d - c + 1) : SubSeq(s, c, d)[k] = s[c + k - 1]
  BY <1>2, <1>3, SubSeqProperties
<1>5. (IF c <= d THEN d - c + 1 ELSE 0) = (d - c) + 1
  OBVIOUS
<1>6. QED
  BY <1>4, <1>5 DEF Sequence

\* A part from the beginning on.
LEMMA SeqPrefix ==
  ASSUME NEW s, Sequence(s), NEW d \in Nat, d <= Len(s)
  PROVE  /\ Sequence(SubSeq(s, 1, d)) /\ Len(SubSeq(s, 1, d)) = d
         /\ \A k \in 1..d : SubSeq(s, 1, d)[k] = s[k]
<1>1. PICK S : s \in Seq(S)
  BY DEF Sequence
<1>2. \A k \in 1..d : s[k] \in S
  <2>1. Len(s) \in Nat /\ \A k \in 1..Len(s) : s[k] \in S
    BY <1>1, ElementsIn
  <2>2. \A k \in 1..d : k \in 1..Len(s)
    BY <2>1
  <2>3. QED
    BY <2>1, <2>2
<1>3. 1 \in Int /\ d \in Int
  OBVIOUS
<1>4. /\ SubSeq(s, 1, d) \in Seq(S) /\ Len(SubSeq(s, 1, d)) = (IF 1 <= d THEN d - 1 + 1 ELSE 0)
      /\ \A k \in 1..(d - 1 + 1) : SubSeq(s, 1, d)[k] = s[1 + k - 1]
  BY <1>2, <1>3, SubSeqProperties
<1>5. (IF 1 <= d THEN d - 1 + 1 ELSE 0) = d /\ d - 1 + 1 = d /\ \A k \in 1..d : 1 + k - 1 = k
  OBVIOUS
<1>6. QED
  BY <1>4, <1>5 DEF Sequence

\* What is in front of a compound's values, and they.
LEMMA Cut ==
  ASSUME NEW a, Sequence(a), NEW b, Sequence(b), Len(b) >= 1, NEW s, s = a \o b
  PROVE  /\ SubSeq(s, 1, Len(a)) = a
         /\ Sequence(SubSeq(s, Len(a) + 2, Len(s))) /\ Len(SubSeq(s, Len(a) + 2, Len(s))) = Len(b) - 1
         /\ \A k \in 1..(Len(b) - 1) : SubSeq(s, Len(a) + 2, Len(s))[k] = b[k + 1]
<1> DEFINE l == Len(a)
           m == Len(b)
           h == SubSeq(s, 1, l)
           e == SubSeq(s, l + 2, l + m)
<1>0. m >= 1
  OBVIOUS
<1>1. Sequence(s) /\ l \in Nat /\ m \in Nat /\ Len(s) = l + m /\ (\A k \in 1..l : s[k] = a[k]) /\ \A k \in 1..m : s[l + k] = b[k]
  BY SeqJoined
<1> HIDE DEF l, m
<1>9. l \in Nat /\ m \in Nat /\ Sequence(s)
  BY <1>1
<1>2. Sequence(s) /\ 1 \in Nat /\ l + 2 \in Nat /\ l + m \in Nat /\ l <= Len(s) /\ 1 <= l + 1 /\ l + 2 >= 1 /\ l + m <= Len(s)
      /\ l + 2 <= (l + m) + 1
  BY <1>0, <1>1
<1>3. Sequence(h) /\ Len(h) = l /\ \A k \in 1..l : h[k] = s[k]
  BY <1>2, <1>9, SeqPrefix
<1>4. Sequence(e) /\ Len(e) = ((l + m) - (l + 2)) + 1 /\ \A k \in 1..(((l + m) - (l + 2)) + 1) : e[k] = s[((l + 2) + k) - 1]
  BY <1>2, <1>9, SeqPart, ZenonT(60)
<1> HIDE DEF h, e
<1>5. h = a
  <2>2. Sequence(h) /\ Len(h) = Len(a) /\ \A k \in 1..Len(a) : h[k] = a[k]
    BY <1>1, <1>3 DEF l
  <2>3. QED
    BY <2>2, SeqSame
<1>6. Len(e) = m - 1 /\ \A k \in 1..(m - 1) : e[k] = b[k + 1]
  <2>1. ((l + m) - (l + 2)) + 1 = m - 1 /\ \A k \in 1..(m - 1) : ((l + 2) + k) - 1 = l + (k + 1) /\ k + 1 \in 1..m
    BY <1>1
  <2>2. QED
    BY <1>1, <1>4, <2>1
<1>7. e = SubSeq(s, l + 2, Len(s))
  BY <1>1, Zenon DEF e
<1>8. QED
  BY <1>4, <1>5, <1>6, <1>7 DEF l, m, h

\* The end of a compound leaves one value.
ArrayOf(E) == [kind |-> "array", elements |-> E]
TailOf(doc, A0) == SubSeq(doc, Len(A0) + 2, Len(doc))
IsTail(E, slice, n) == Sequence(E) /\ Len(E) = n /\ \A k \in 1..n : E[k] = slice[k + 1]

\* The elements become an array,
LEMMA EndArrayIs ==
  ASSUME NEW A0, Sequence(A0), NEW slice, Sequence(slice), NEW n \in Nat, n + 1 = Len(slice), NEW doc, doc = A0 \o slice
  PROVE  /\ IsTail(TailOf(doc, A0), slice, n)
         /\ EndArray(doc, n) = Append(A0, ArrayOf(TailOf(doc, A0)))
<1> DEFINE l == Len(A0)
           E == SubSeq(doc, l + 2, Len(doc))
<1>1. l \in Nat /\ Len(doc) = l + (n + 1)
  BY SeqJoined
<1>2. Len(slice) >= 1
  OBVIOUS
<1>10. Len(slice) - 1 = n
  OBVIOUS
<1>3. SubSeq(doc, 1, l) = A0 /\ Sequence(E) /\ Len(E) = n /\ \A k \in 1..n : E[k] = slice[k + 1]
  <2>1. /\ SubSeq(doc, 1, l) = A0
        /\ Sequence(E) /\ Len(E) = Len(slice) - 1 /\ \A k \in 1..(Len(slice) - 1) : E[k] = slice[k + 1]
    <3>1. SubSeq(doc, 1, l) = A0
      BY <1>2, Cut
    <3>2. Sequence(E)
      BY <1>2, Cut
    <3>3. Len(E) = Len(slice) - 1
      BY <1>2, Cut
    <3>4. \A k \in 1..(Len(slice) - 1) : E[k] = slice[k + 1]
      BY <1>2, Cut
    <3>5. QED
      BY <3>1, <3>2, <3>3, <3>4
  <2> HIDE DEF E, l
  <2>2. QED
    BY <1>10, <2>1
<1>4. (Len(doc) - n) - 1 = l /\ (Len(doc) - n) + 1 = l + 2
  BY <1>1
<1>5. EndArray(doc, n) = Append(SubSeq(doc, 1, (Len(doc) - n) - 1), [kind |-> "array", elements |-> SubSeq(doc, (Len(doc) - n) + 1, Len(doc))])
  BY Zenon DEF EndArray
<1>6. EndArray(doc, n) = Append(A0, [kind |-> "array", elements |-> E])
  BY <1>3, <1>4, <1>5, Zenon
<1> HIDE DEF E
<1>7. E = TailOf(doc, A0)
  BY DEF E, TailOf
<1>8. EndArray(doc, n) = Append(A0, ArrayOf(E))
  BY <1>6, Zenon DEF ArrayOf
<1>9. IsTail(E, slice, n)
  BY <1>3 DEF IsTail
<1>11. QED
  BY <1>3, <1>7, <1>8, <1>9, Zenon

\* the names and values an object.
LEMMA EndObjectIs ==
  ASSUME NEW A0, Sequence(A0), NEW slice, Sequence(slice), NEW n \in Nat, 2 * n + 1 = Len(slice), NEW doc, doc = A0 \o slice
  PROVE  EndObject(doc, n) = Append(A0, [kind |-> "object",
                               members |-> [j \in 1..n |-> [name |-> slice[2 * j].str, value |-> slice[2 * j + 1]]]])
<1> DEFINE l == Len(A0)
           base == Len(doc) - 2 * n
           M == [j \in 1..n |-> [name |-> doc[base + 2 * j - 1].str, value |-> doc[base + 2 * j]]]
           N == [j \in 1..n |-> [name |-> slice[2 * j].str, value |-> slice[2 * j + 1]]]
<1>1. l \in Nat /\ Len(doc) = l + (2 * n + 1) /\ \A k \in 1..(2 * n + 1) : doc[l + k] = slice[k]
  <2>1. l \in Nat /\ Len(A0 \o slice) = Len(A0) + Len(slice) /\ \A k \in 1..Len(slice) : (A0 \o slice)[Len(A0) + k] = slice[k]
    BY SeqJoined
  <2>2. QED
    BY <2>1
<1>2. base - 1 = l
  BY <1>1
<1>3. Len(slice) >= 1
  OBVIOUS
<1>4. SubSeq(doc, 1, l) = A0
  BY <1>3, Cut
<1>5. M = N
  <2>1. ASSUME NEW j \in 1..n PROVE doc[base + 2 * j - 1] = slice[2 * j] /\ doc[base + 2 * j] = slice[2 * j + 1]
    <3>1. 2 * j \in 1..(2 * n + 1) /\ 2 * j + 1 \in 1..(2 * n + 1) /\ base + 2 * j - 1 = l + 2 * j /\ base + 2 * j = l + (2 * j + 1)
      BY <1>1
    <3>2. doc[l + 2 * j] = slice[2 * j] /\ doc[l + (2 * j + 1)] = slice[2 * j + 1]
      BY <1>1, <3>1
    <3>3. QED
      BY <3>1, <3>2, Zenon
  <2> HIDE DEF base
  <2>2. \A j \in 1..n : [name |-> doc[base + 2 * j - 1].str, value |-> doc[base + 2 * j]] = [name |-> slice[2 * j].str, value |-> slice[2 * j + 1]]
    BY <2>1
  <2>3. QED
    BY <2>2
<1>6. EndObject(doc, n) = Append(SubSeq(doc, 1, base - 1), [kind |-> "object", members |-> M])
  BY Zenon DEF EndObject
<1> HIDE DEF M, N, base
<1>7. EndObject(doc, n) = Append(A0, [kind |-> "object", members |-> N])
  BY <1>2, <1>4, <1>5, <1>6, Zenon
<1>8. QED
  BY <1>7 DEF N

\* The innermost frame goes on with a token.
LEMMA HeldGoes ==
  ASSUME NEW G, Sequence(G), NEW D0, Sequence(D0), NEW P0, Sequence(P0), Held(G, D0, P0),
         NEW part, Sequence(part), NEW slice2, Sequence(slice2), NEW tok, NEW g, FrameIs(g, slice2, Append(part, tok)),
         NEW toks, toks = P0 \o part
  PROVE  Held(Append(G, g), D0 \o slice2, Append(toks, tok))
<1> DEFINE part2 == Append(part, tok)
<1>1. Sequence(part2)
  BY SeqAppended
<1>2. P0 \o part2 = Append(toks, tok)
  BY SeqJoinedOne
<1> HIDE DEF part2
<1>3. FrameIs(g, slice2, part2)
  BY DEF part2
<1>4. Held(Append(G, g), D0 \o slice2, P0 \o part2)
  BY <1>1, <1>3, HeldMade
<1>5. QED
  BY <1>2, <1>4, Zenon

\* It takes a value.
LEMMA HeldTakes ==
  ASSUME NEW G, Sequence(G), NEW f, NEW doc, NEW toks, Held(Append(G, f), doc, toks), Awaits(f),
         NEW v, NEW z, Becomes(<<Unspelled(v)>>, z, Len(z)),
         NEW place \in {"behind", "rest"}, NEW g, g = [in |-> f.in, at |-> place, n |-> f.n + 1]
  PROVE  Held(Append(G, g), Append(doc, v), toks \o z)
<1>1. PICK D0, slice, P0, part :
        /\ Sequence(D0) /\ Sequence(slice) /\ Sequence(P0) /\ Sequence(part)
        /\ doc = D0 \o slice /\ toks = P0 \o part /\ FrameIs(f, slice, part) /\ Held(G, D0, P0)
  BY HeldParts, SMTT(40)
<1> DEFINE slice2 == Append(slice, v)
           part2 == part \o z
<1>2. Sequence(slice) /\ Sequence(part) /\ Sequence(D0) /\ Sequence(P0)
  BY <1>1
<1>3. Sequence(z)
  BY BecomesTypes
<1>4. Sequence(slice2) /\ Sequence(part2)
  BY <1>2, <1>3, SeqAppended, SeqJoined
<1>5. FrameIs(g, slice2, part2)
  <2>1. CASE RootIs(f, slice, part)
    <3>1. f.at = "first"
      BY <2>1 DEF RootIs, Awaits
    <3>2. RootIs(g, slice2, part2)
      BY <2>1, <3>1, RootTakes
    <3>3. QED
      BY <3>2 DEF FrameIs
  <2>2. CASE CompoundIs(f, slice, part)
    <3>1. CompoundIs(g, slice2, part2)
      BY <2>2, FrameTakes
    <3>2. QED
      BY <3>1 DEF FrameIs
  <2>3. QED
    BY <1>1, <2>1, <2>2 DEF FrameIs
<1>6. D0 \o slice2 = Append(doc, v)
  <2>1. D0 \o Append(slice, v) = Append(D0 \o slice, v)
    BY <1>2, SeqJoinedOne
  <2>2. QED
    BY <1>1, <2>1, Zenon DEF slice2
<1>7. P0 \o part2 = toks \o z
  <2>1. (P0 \o part) \o z = P0 \o (part \o z)
    BY <1>2, <1>3, SeqJoinedTwice, SMTT(40)
  <2>2. QED
    BY <1>1, <2>1, Zenon DEF part2
<1> HIDE DEF slice2, part2
<1>8. Held(G, D0, P0)
  BY <1>1
<1>9. Held(Append(G, g), D0 \o slice2, P0 \o part2)
  BY <1>4, <1>5, <1>8, HeldMade
<1>10. QED
  BY <1>6, <1>7, <1>9, Zenon

\* The frames and the document of a parser.
LEMMA ReadingParts ==
  ASSUME NEW frames, NEW doc, NEW r PROVE r = Reading(frames, doc) => r.frames = frames /\ r.doc = doc
  BY DEF Reading

\* The document and the text are sequences.
LEMMA HeldTypes ==
  ASSUME NEW F, NEW doc, NEW toks, Held(F, doc, toks) PROVE Sequence(doc) /\ Sequence(toks)
<1>1. PICK slices, parts : Sequences(slices) /\ Sequences(parts) /\ FlattenSeq(slices) = doc /\ FlattenSeq(parts) = toks
  BY DEF Held
<1>2. Sequence(FlattenSeq(slices)) /\ Sequence(FlattenSeq(parts))
  <2>1. Sequences(slices) /\ Sequences(parts) /\ Sequence(<<>>)
    BY <1>1, SeqOne
  <2>2. QED
    BY <2>1, SeqsAppended
<1>3. QED
  BY <1>1, <1>2

\* A compound begins inside.
LEMMA HeldBegins ==
  ASSUME NEW F, Sequence(F), NEW doc, NEW toks, Held(F, doc, toks), NEW token, token.t \in {"LeftCurly", "LeftBracket"},
         NEW g, g = Frame(IF token.t = "LeftCurly" THEN "object" ELSE "array"), NEW o
  PROVE  Held(Append(F, g), Append(doc, o), Append(toks, Meant(token)))
<1>1. Sequence(doc) /\ Sequence(toks) /\ Sequence(<<>>) /\ Sequence(<<o>>) /\ Sequence(<<Token(token.t)>>)
  BY HeldTypes, SeqOne
<1>2. doc \o <<o>> = Append(doc, o) /\ toks \o <<Token(token.t)>> = Append(toks, Token(token.t))
  BY <1>1, SeqJoinedOne
<1>3. Meant(token) = Token(token.t)
  BY DEF Meant
<1>4. CompoundIs(g, <<o>>, <<Token(token.t)>>)
  BY FrameBegins
<1>5. FrameIs(g, <<o>>, <<Token(token.t)>>)
  BY <1>4 DEF FrameIs
<1>6. Held(Append(F, g), doc \o <<o>>, toks \o <<Token(token.t)>>)
  BY <1>1, <1>5, HeldMade
<1>7. QED
  BY <1>2, <1>3, <1>6, Zenon

\* A token that is no value, in the innermost frame f.
LEMMA HeldNames ==
  ASSUME NEW G, Sequence(G), NEW f, NEW doc, NEW toks, Held(Append(G, f), doc, toks), f.in = "object", f.at \in {"first", "name"},
         NEW g, g = [in |-> "object", at |-> "colon", n |-> f.n], NEW w, NEW tok, tok = StringToken(w.str)
  PROVE  Held(Append(G, g), Append(doc, w), Append(toks, tok))
<1>1. PICK D0, slice, P0, part :
        /\ Sequence(D0) /\ Sequence(slice) /\ Sequence(P0) /\ Sequence(part)
        /\ doc = D0 \o slice /\ toks = P0 \o part /\ FrameIs(f, slice, part) /\ Held(G, D0, P0)
  BY HeldParts, SMTT(40)
<1> DEFINE slice2 == Append(slice, w)
<1>2. Sequence(D0) /\ Sequence(slice) /\ Sequence(P0) /\ Sequence(part) /\ Sequence(slice2)
  BY <1>1, SeqAppended
<1>3. CompoundIs(f, slice, part)
  BY <1>1 DEF FrameIs, RootIs
<1>4. CompoundIs(g, slice2, Append(part, tok))
  BY <1>3, FrameNames
<1>5. FrameIs(g, slice2, Append(part, tok))
  BY <1>4 DEF FrameIs
<1>6. D0 \o slice2 = Append(doc, w)
  <2>1. D0 \o Append(slice, w) = Append(D0 \o slice, w)
    BY <1>2, SeqJoinedOne
  <2>2. QED
    BY <1>1, <2>1, Zenon DEF slice2
<1> HIDE DEF slice2
<1>7. Held(G, D0, P0) /\ toks = P0 \o part
  BY <1>1
<1>8. Held(Append(G, g), D0 \o slice2, Append(toks, tok))
  BY <1>2, <1>5, <1>7, HeldGoes
<1>9. QED
  BY <1>6, <1>8, Zenon

\* A colon or comma there.
LEMMA HeldPasses ==
  ASSUME NEW G, Sequence(G), NEW f, NEW doc, NEW toks, Held(Append(G, f), doc, toks), NEW place, NEW t,
         \/ f.in = "object" /\ f.at = "colon" /\ t = "Colon" /\ place = "value"
         \/ f.in = "object" /\ f.at = "behind" /\ t = "Comma" /\ place = "name"
         \/ f.in = "array" /\ f.at = "behind" /\ t = "Comma" /\ place = "value",
         NEW g, g = [in |-> f.in, at |-> place, n |-> f.n]
  PROVE  Held(Append(G, g), doc, Append(toks, Token(t)))
<1>1. PICK D0, slice, P0, part :
        /\ Sequence(D0) /\ Sequence(slice) /\ Sequence(P0) /\ Sequence(part)
        /\ doc = D0 \o slice /\ toks = P0 \o part /\ FrameIs(f, slice, part) /\ Held(G, D0, P0)
  BY HeldParts
<1>2. Sequence(D0) /\ Sequence(slice) /\ Sequence(P0) /\ Sequence(part)
  BY <1>1
<1>3. CompoundIs(f, slice, part)
  BY <1>1 DEF FrameIs, RootIs
<1>4. CompoundIs(g, slice, Append(part, Token(t)))
  BY <1>3, FramePasses
<1>5. FrameIs(g, slice, Append(part, Token(t)))
  BY <1>4 DEF FrameIs
<1>7. Held(G, D0, P0) /\ toks = P0 \o part
  BY <1>1
<1>8. Held(Append(G, g), D0 \o slice, Append(toks, Token(t)))
  BY <1>2, <1>5, <1>7, HeldGoes
<1>9. QED
  BY <1>1, <1>8, Zenon

\* The innermost compound ends, and is a value of the frame f around it.
LEMMA HeldEnds ==
  ASSUME NEW G, Sequence(G), NEW f, NEW h, NEW doc, NEW toks, NEW t, NEW doc2, NEW g
  PROVE  /\ Awaits(f) /\ Held(Append(Append(G, f), h), doc, toks)
         /\ h.at \in {"first", "behind"} /\ h.n \in Nat
         /\ \/ h.in = "object" /\ t = "RightCurly" /\ doc2 = EndObject(doc, h.n)
            \/ h.in = "array" /\ t = "RightBracket" /\ doc2 = EndArray(doc, h.n)
         /\ g = [in |-> f.in, at |-> "behind", n |-> f.n + 1]
         => Held(Append(G, g), doc2, Append(toks, Token(t)))
<1> DEFINE F == Append(G, f)
           n == h.n
<1>1. Sequence(F)
  BY SeqAppended
<1>2. ASSUME Held(Append(F, h), doc, toks)
      PROVE  \E D0, slice, P0, part :
                /\ Sequence(D0) /\ Sequence(slice) /\ Sequence(P0) /\ Sequence(part)
                /\ doc = D0 \o slice /\ toks = P0 \o part /\ FrameIs(h, slice, part) /\ Held(F, D0, P0)
  <2> HIDE DEF F
  <2>1. QED
    BY <1>1, <1>2, HeldParts
<1>3. ASSUME NEW D0, Sequence(D0), NEW slice, Sequence(slice), NEW part, CompoundIs(h, slice, part), n \in Nat
      PROVE  /\ h.in = "array" /\ h.at \in {"first", "behind"} =>
                  \E v : EndArray(D0 \o slice, n) = Append(D0, v) /\ Becomes(<<Unspelled(v)>>, Append(part, Token("RightBracket")), Len(Append(part, Token("RightBracket"))))
             /\ h.in = "object" /\ h.at \in {"first", "behind"} =>
                  \E v : EndObject(D0 \o slice, n) = Append(D0, v) /\ Becomes(<<Unspelled(v)>>, Append(part, Token("RightCurly")), Len(Append(part, Token("RightCurly"))))
  <2>1. ASSUME h.in = "array", h.at \in {"first", "behind"}
        PROVE  \E v : EndArray(D0 \o slice, n) = Append(D0, v) /\ Becomes(<<Unspelled(v)>>, Append(part, Token("RightBracket")), Len(Append(part, Token("RightBracket"))))
    <3>1. n + 1 = Len(slice)
      BY <1>3, <2>1 DEF CompoundIs, TextsFit
    <3> DEFINE d == D0 \o slice
               E == TailOf(d, D0)
               v == ArrayOf(E)
    <3>2. d = D0 \o slice /\ n \in Nat
      BY <1>3
    <3> HIDE DEF n, d
    <3>3. IsTail(E, slice, n)
      BY <1>3, <3>1, <3>2, EndArrayIs
    <3>5. EndArray(d, n) = Append(D0, v)
      BY <1>3, <3>1, <3>2, EndArrayIs
    <3>9. v = [kind |-> "array", elements |-> E]
      BY DEF ArrayOf
    <3> HIDE DEF E, v
    <3>6. Becomes(<<Unspelled(v)>>, Append(part, Token("RightBracket")), Len(Append(part, Token("RightBracket"))))
      <4>1. Len(E) = h.n /\ \A k \in 1..h.n : E[k] = slice[k + 1]
        BY <3>3 DEF n, IsTail
      <4>2. Sequence(E)
        BY <3>3 DEF IsTail
      <4>3. QED
        BY <1>3, <2>1, <3>9, <4>1, <4>2, ArrayEnds
    <3>7. EndArray(D0 \o slice, n) = Append(D0, v)
      BY <3>5 DEF d
    <3>10. QED
      BY <3>6, <3>7, Zenon
  <2>2. ASSUME h.in = "object", h.at \in {"first", "behind"}
        PROVE  \E v : EndObject(D0 \o slice, n) = Append(D0, v) /\ Becomes(<<Unspelled(v)>>, Append(part, Token("RightCurly")), Len(Append(part, Token("RightCurly"))))
    <3>0. ~Named(h)
      BY <2>2 DEF Named
    <3>1. 2 * n + 1 = Len(slice)
      BY <1>3, <2>2, <3>0 DEF CompoundIs, TextsFit
    <3> DEFINE v == [kind |-> "object", members |-> [j \in 1..n |-> [name |-> slice[2 * j].str, value |-> slice[2 * j + 1]]]]
    <3>3. EndObject(D0 \o slice, n) = Append(D0, v)
      <4> HIDE DEF n
      <4>1. QED
        BY <1>3, <3>1, EndObjectIs
    <3>4. v = [kind |-> "object", members |-> [j \in 1..h.n |-> [name |-> slice[2 * j].str, value |-> slice[2 * j + 1]]]]
      OBVIOUS
    <3> HIDE DEF v
    <3>6. Becomes(<<Unspelled(v)>>, Append(part, Token("RightCurly")), Len(Append(part, Token("RightCurly"))))
      BY <1>3, <2>2, <3>4, ObjectEnds
    <3>7. QED
      BY <3>3, <3>6, Zenon
  <2>3. QED
    BY <2>1, <2>2
<1>4. ASSUME Awaits(f), Held(Append(F, h), doc, toks), h.at \in {"first", "behind"}, n \in Nat,
             \/ h.in = "object" /\ t = "RightCurly" /\ doc2 = EndObject(doc, n)
             \/ h.in = "array" /\ t = "RightBracket" /\ doc2 = EndArray(doc, n),
             g = [in |-> f.in, at |-> "behind", n |-> f.n + 1]
      PROVE  Held(Append(G, g), doc2, Append(toks, Token(t)))
  <2>1. PICK D0, slice, P0, part :
          /\ Sequence(D0) /\ Sequence(slice) /\ Sequence(P0) /\ Sequence(part)
          /\ doc = D0 \o slice /\ toks = P0 \o part /\ FrameIs(h, slice, part) /\ Held(F, D0, P0)
    BY <1>2, <1>4
  <2> DEFINE z == Append(part, Token(t))
  <2>2. Sequence(D0) /\ Sequence(slice) /\ Sequence(P0) /\ Sequence(part) /\ Held(Append(G, f), D0, P0)
    BY <2>1
  <2>3. CompoundIs(h, slice, part)
    BY <1>4, <2>1 DEF FrameIs, RootIs
  <2>4. PICK v : doc2 = Append(D0, v) /\ Becomes(<<Unspelled(v)>>, z, Len(z))
    <3>1. CASE h.in = "array"
      <4>1. t = "RightBracket" /\ doc2 = EndArray(D0 \o slice, n)
        BY <1>4, <2>1, <3>1
      <4>2. \E v : EndArray(D0 \o slice, n) = Append(D0, v) /\ Becomes(<<Unspelled(v)>>, Append(part, Token("RightBracket")), Len(Append(part, Token("RightBracket"))))
        BY <1>3, <1>4, <2>2, <2>3, <3>1
      <4>3. QED
        BY <4>1, <4>2, Zenon
    <3>2. CASE h.in = "object"
      <4>1. t = "RightCurly" /\ doc2 = EndObject(D0 \o slice, n)
        BY <1>4, <2>1, <3>2
      <4>2. \E v : EndObject(D0 \o slice, n) = Append(D0, v) /\ Becomes(<<Unspelled(v)>>, Append(part, Token("RightCurly")), Len(Append(part, Token("RightCurly"))))
        BY <1>3, <1>4, <2>2, <2>3, <3>2
      <4>3. QED
        BY <4>1, <4>2, Zenon
    <3>3. QED
      BY <1>4, <3>1, <3>2
  <2>5. P0 \o z = Append(toks, Token(t))
    <3>1. P0 \o Append(part, Token(t)) = Append(P0 \o part, Token(t))
      BY <2>2, SeqJoinedOne
    <3>2. QED
      BY <2>1, <3>1, Zenon DEF z
  <2> HIDE DEF z
  <2>6. Becomes(<<Unspelled(v)>>, z, Len(z))
    BY <2>4
  <2>7. Held(Append(G, g), Append(D0, v), P0 \o z)
    BY <1>4, <2>2, <2>6, HeldTakes
  <2>8. QED
    BY <2>4, <2>5, <2>7, Zenon
<1>5. QED
  BY <1>4

\* What a document says is what its text says, as far as both go.
LEMMA HeldStep ==
  ASSUME NEW F, FramesFit(F), NEW doc, NEW toks, Held(F, doc, toks), NEW token, NEW r2
  PROVE  r2 = ParseNext(Reading(F, doc), token)
         => Refuses(r2) \/ Stops(F, doc, token, r2) \/ Held(r2.frames, r2.doc, Append(toks, Meant(token)))
<1> DEFINE f == Last(F)
           G == Front(F)
           tok == Meant(token)
<1>1. Sequence(F) /\ Sequence(G) /\ F = Append(G, f) /\ IsFrame(f)
  BY FramesParts DEF FramesFit
<1>2. Held(Append(G, f), doc, toks)
  BY <1>1
<1> HIDE DEF f, G, tok
<1>3. CASE BeginsValue(F, doc, token, r2)
  <2> DEFINE g == Frame(IF token.t = "LeftCurly" THEN "object" ELSE "array")
             o == [kind |-> "open"]
  <2>1. r2 = Reading(Append(F, g), Append(doc, o)) /\ token.t \in {"LeftCurly", "LeftBracket"}
    BY <1>3 DEF BeginsValue
  <2>2. g = Frame(IF token.t = "LeftCurly" THEN "object" ELSE "array")
    OBVIOUS
  <2> HIDE DEF g, o
  <2>3. Held(Append(F, g), Append(doc, o), Append(toks, Meant(token)))
    BY <1>1, <2>1, <2>2, HeldBegins
  <2>11. r2 = Reading(Append(F, g), Append(doc, o))
    BY <2>1
  <2>4. r2.frames = Append(F, g) /\ r2.doc = Append(doc, o)
    <3> DEFINE a == Append(F, g)
               b == Append(doc, o)
    <3>1. r2 = Reading(a, b)
      BY <2>11
    <3> HIDE DEF a, b
    <3>2. r2.frames = a /\ r2.doc = b
      BY <3>1, ReadingParts
    <3>3. QED
      BY <3>2 DEF a, b
  <2>5. QED
    BY <2>3, <2>4
<1>4. CASE Takes(F, doc, token, r2)
  <2>1. PICK place \in {"behind", "rest"} :
          r2 = Reading(Append(G, [in |-> f.in, at |-> place, n |-> f.n + 1]), Append(doc, Scalar(token).value))
    BY <1>4 DEF Takes, G, f
  <2>2. Awaits(f) /\ token.t \in Scalars
    BY <1>4 DEF Takes, f
  <2> DEFINE g == [in |-> f.in, at |-> place, n |-> f.n + 1]
             v == Scalar(token).value
  <2>3. Becomes(<<Unspelled(v)>>, <<tok>>, Len(<<tok>>))
    BY <2>2, ScalarSpelled DEF tok
  <2>4. Held(Append(G, g), Append(doc, v), toks \o <<tok>>)
    <3>1. g = [in |-> f.in, at |-> place, n |-> f.n + 1]
      OBVIOUS
    <3> HIDE DEF g, v
    <3>2. QED
      BY <1>1, <1>2, <2>2, <2>3, <3>1, HeldTakes
  <2>5. toks \o <<tok>> = Append(toks, tok)
    <3>1. Sequence(toks) /\ Sequence(<<>>)
      BY HeldTypes, SeqOne
    <3>2. QED
      BY <3>1, SeqJoinedOne
  <2>11. r2 = Reading(Append(G, g), Append(doc, v))
    BY <2>1
  <2> HIDE DEF g, v
  <2>6. r2.frames = Append(G, g) /\ r2.doc = Append(doc, v)
    <3> DEFINE a == Append(G, g)
               b == Append(doc, v)
    <3>1. r2 = Reading(a, b)
      BY <2>11
    <3> HIDE DEF a, b
    <3>2. r2.frames = a /\ r2.doc = b
      BY <3>1, ReadingParts
    <3>3. QED
      BY <3>2 DEF a, b
  <2>7. Held(r2.frames, r2.doc, Append(toks, tok))
    BY <2>4, <2>5, <2>6, Zenon
  <2>8. QED
    BY <2>7 DEF tok
<1>5. CASE NamesMember(F, doc, token, r2)
  <2> DEFINE w == [kind |-> "string", str |-> ParseString(token.raw).str]
             g == [in |-> "object", at |-> "colon", n |-> f.n]
  <2>1. r2 = Reading(Append(G, g), Append(doc, w)) /\ f.in = "object" /\ f.at \in {"first", "name"} /\ token.t = "string"
    BY <1>5 DEF NamesMember, G, f
  <2>2. tok = StringToken(w.str)
    BY <2>1 DEF Meant, tok
  <2>3. g = [in |-> "object", at |-> "colon", n |-> f.n]
    OBVIOUS
  <2> HIDE DEF w, g
  <2>4. Held(Append(G, g), Append(doc, w), Append(toks, tok))
    BY <1>1, <1>2, <2>1, <2>2, <2>3, HeldNames
  <2>11. r2 = Reading(Append(G, g), Append(doc, w))
    BY <2>1
  <2>5. r2.frames = Append(G, g) /\ r2.doc = Append(doc, w)
    <3> DEFINE a == Append(G, g)
               b == Append(doc, w)
    <3>1. r2 = Reading(a, b)
      BY <2>11
    <3> HIDE DEF a, b
    <3>2. r2.frames = a /\ r2.doc = b
      BY <3>1, ReadingParts
    <3>3. QED
      BY <3>2 DEF a, b
  <2>6. QED
    BY <2>4, <2>5 DEF tok
<1>6. CASE Passes(F, doc, token, r2)
  <2>1. PICK place :
    /\ \/ f.in = "object" /\ f.at = "colon" /\ token.t = "Colon" /\ place = "value"
       \/ f.in = "object" /\ f.at = "behind" /\ token.t = "Comma" /\ place = "name"
       \/ f.in = "array" /\ f.at = "behind" /\ token.t = "Comma" /\ place = "value"
    /\ r2 = Reading(Append(G, [in |-> f.in, at |-> place, n |-> f.n]), doc)
    BY <1>6 DEF Passes, G, f
  <2> DEFINE g == [in |-> f.in, at |-> place, n |-> f.n]
  <2>11. r2 = Reading(Append(G, g), doc)
    BY <2>1
  <2>3. tok = Token(token.t)
    BY <2>1 DEF Meant, tok
  <2>4. g = [in |-> f.in, at |-> place, n |-> f.n]
    OBVIOUS
  <2> HIDE DEF g
  <2>2. r2.frames = Append(G, g) /\ r2.doc = doc
    BY <2>11, ReadingParts
  <2>5. Held(Append(G, g), doc, Append(toks, Token(token.t)))
    BY <1>1, <1>2, <2>1, <2>4, HeldPasses
  <2>6. QED
    BY <2>2, <2>3, <2>5 DEF tok
<1>7. CASE Ends(F, doc, token, r2)
  <2> DEFINE H == Front(G)
             g == Last(G)
             k == [in |-> g.in, at |-> "behind", n |-> g.n + 1]
  <2>1. PICK doc2 :
          /\ \/ f.in = "object" /\ token.t = "RightCurly" /\ doc2 = EndObject(doc, f.n)
             \/ f.in = "array" /\ token.t = "RightBracket" /\ doc2 = EndArray(doc, f.n)
          /\ r2 = Reading(Append(H, k), doc2) /\ f.at \in {"first", "behind"}
    BY <1>7 DEF Ends, G, f
  <2>2. f.in # "root" /\ f.n \in Nat
    BY <1>1, <2>1 DEF IsFrame
  <2>3. FramesFit(G) /\ Awaits(g)
    BY <2>2, FramesParts DEF f, G
  <2>4. Sequence(H) /\ G = Append(H, g)
    BY <2>3, FramesParts
  <2>5. k = [in |-> g.in, at |-> "behind", n |-> g.n + 1]
    OBVIOUS
  <2>6. tok = Token(token.t)
    BY <2>1 DEF Meant, tok
  <2> HIDE DEF H, g, k
  <2>7. Held(Append(Append(H, g), f), doc, toks)
    BY <1>2, <2>4
  <2>8. Held(Append(H, k), doc2, Append(toks, Token(token.t)))
    BY <2>1, <2>2, <2>3, <2>4, <2>5, <2>7, HeldEnds
  <2>11. r2 = Reading(Append(H, k), doc2)
    BY <2>1
  <2>9. r2.frames = Append(H, k) /\ r2.doc = doc2
    BY <2>11, ReadingParts
  <2>10. QED
    BY <2>6, <2>8, <2>9 DEF tok
<1>8. QED
  BY <1>3, <1>4, <1>5, <1>6, <1>7, NextSteps

\* Nothing has been read of the empty text.
LEMMA HeldFirst == Held(<<Frame("root")>>, <<>>, <<>>)
<1> DEFINE f == Frame("root")
<1>1. Held(<<>>, <<>>, <<>>)
  <2>1. Sequences(<<>>) /\ Len(<<>>) = 0 /\ FlattenSeq(<<>>) = <<>>
    BY ListedEmpty, FlattenEmpty
  <2>2. \A k \in 1..0 : FALSE
    OBVIOUS
  <2>3. QED
    BY <2>1, <2>2 DEF Held
<1>2. f.in = "root" /\ f.at = "first"
  BY DEF Frame
<1>3. FrameIs(f, <<>>, <<>>)
  BY <1>2 DEF FrameIs, RootIs
<1> HIDE DEF f
<1>4. Sequence(<<>>) /\ Append(<<>>, f) = <<f>>
  BY SeqOne
<1>5. <<>> \o <<>> = <<>>
  BY <1>4, SeqJoinedEmpty
<1>6. Held(Append(<<>>, f), <<>> \o <<>>, <<>> \o <<>>)
  BY <1>1, <1>3, <1>4, HeldMade
<1>7. QED
  BY <1>4, <1>5, <1>6, Zenon DEF f

\* A text that ends is that of its document.
LEMMA HeldStops ==
  ASSUME NEW F, FramesFit(F), NEW doc, NEW toks, Held(F, doc, toks), NEW token, NEW r2, Stops(F, doc, token, r2),
         NEW n \in Nat, n >= Len(toks)
  PROVE  Len(r2.doc) = 1 /\ TokensOf(Head(r2.doc), n) = toks /\ Meant(token) = Token("end")
<1> DEFINE f == Last(F)
           G == Front(F)
<1>1. f.in = "root" /\ f.at = "behind" /\ token.t = "end" /\ r2.doc = doc
  BY DEF Stops
<1>2. G = <<>> /\ F = Append(G, f) /\ Sequence(G)
  BY <1>1, FramesParts
<1> HIDE DEF f, G
<1>3. PICK D0, slice, P0, part :
        /\ Sequence(D0) /\ Sequence(slice) /\ Sequence(P0) /\ Sequence(part)
        /\ doc = D0 \o slice /\ toks = P0 \o part /\ FrameIs(f, slice, part) /\ Held(G, D0, P0)
  <2>1. Held(Append(G, f), doc, toks)
    BY <1>2
  <2>2. Sequence(G)
    BY <1>2
  <2>3. QED
    BY <2>1, <2>2, HeldParts
<1>4. PICK v : slice = <<v>> /\ Becomes(<<Unspelled(v)>>, part, Len(part))
  BY <1>1, <1>3 DEF FrameIs, RootIs, CompoundIs
<1>5. D0 = <<>> /\ P0 = <<>>
  <2>1. PICK slices, parts : /\ Sequences(slices) /\ Sequences(parts) /\ Len(slices) = Len(<<>>) /\ Len(parts) = Len(<<>>)
                             /\ FlattenSeq(slices) = D0 /\ FlattenSeq(parts) = P0
    BY <1>2, <1>3 DEF Held
  <2>2. Sequence(slices) /\ Sequence(parts) /\ Len(<<>>) = 0
    BY <2>1 DEF Sequences
  <2>3. slices = <<>> /\ parts = <<>>
    BY <2>1, <2>2 DEF Sequence
  <2>4. QED
    BY <2>1, <2>3, FlattenEmpty
<1>6. doc = <<v>> /\ toks = part
  <2>1. Sequence(<<v>>) /\ Sequence(part)
    BY <1>3, SeqOne
  <2>2. <<>> \o <<v>> = <<v>> /\ <<>> \o part = part
    BY <2>1, SeqJoinedEmpty
  <2>3. QED
    BY <1>3, <1>4, <1>5, <2>2, Zenon
<1>7. TokensOf(v, n) = part
  <2>1. n >= Len(part)
    BY <1>6
  <2>2. Becomes(<<Unspelled(v)>>, part, Len(part))
    BY <1>4
  <2>3. QED
    BY <2>1, <2>2, TokensAre
<1>8. Len(r2.doc) = 1 /\ Head(r2.doc) = v
  BY <1>1, <1>6
<1>9. Meant(token) = Token("end")
  BY <1>1 DEF Meant
<1>10. QED
  BY <1>6, <1>7, <1>8, <1>9

------------------------------------------------------------------------------
(* A text and its parsers                                                   *)

\* What the tokens of a text say.
MeantAll(toks) == [j \in DOMAIN toks |-> Meant(toks[j])]

\* A token more says one thing more.
LEMMA MeantAppended ==
  ASSUME NEW toks, Sequence(toks), NEW token
  PROVE  Sequence(MeantAll(toks)) /\ Len(MeantAll(toks)) = Len(toks) /\ MeantAll(Append(toks, token)) = Append(MeantAll(toks), Meant(token))
<1> DEFINE t2 == Append(toks, token)
           m == MeantAll(toks)
           m2 == MeantAll(t2)
           x == Append(m, Meant(token))
           l == Len(toks)
<1>1. Sequence(t2) /\ l \in Nat /\ Len(t2) = l + 1 /\ t2[l + 1] = token /\ \A k \in 1..l : t2[k] = toks[k]
  BY SeqAppended
<1>2. ASSUME NEW u, Sequence(u) PROVE Sequence(MeantAll(u)) /\ Len(MeantAll(u)) = Len(u) /\ \A k \in 1..Len(u) : MeantAll(u)[k] = Meant(u[k])
  <2>1. DOMAIN u = 1..Len(u) /\ Len(u) \in Nat
    BY <1>2 DEF Sequence
  <2> DEFINE v == MeantAll(u)
             h == Len(u)
  <2>2. v = [k \in 1..h |-> Meant(u[k])]
    BY <2>1, Zenon DEF MeantAll
  <2>3. v = [k \in 1..h |-> v[k]] /\ \A k \in 1..h : v[k] = Meant(u[k])
    BY <2>2, Zenon
  <2>4. h \in Nat
    BY <2>1
  <2> HIDE DEF v, h
  <2>5. Sequence(v) /\ Len(v) = h
    BY <2>3, <2>4, SeqTable
  <2>6. QED
    BY <2>3, <2>5 DEF v, h
<1> HIDE DEF t2, l
<1>3. Sequence(m) /\ Len(m) = l /\ \A k \in 1..l : m[k] = Meant(toks[k])
  BY <1>2 DEF l
<1>4. Sequence(m2) /\ Len(m2) = l + 1 /\ \A k \in 1..(l + 1) : m2[k] = Meant(t2[k])
  <2>1. Sequence(m2) /\ Len(m2) = Len(t2) /\ \A k \in 1..Len(t2) : m2[k] = Meant(t2[k])
    BY <1>1, <1>2
  <2> HIDE DEF m2
  <2>2. QED
    BY <1>1, <2>1
<1> HIDE DEF m, m2
<1>5. Sequence(x) /\ Len(x) = l + 1 /\ x[l + 1] = Meant(token) /\ \A k \in 1..l : x[k] = m[k]
  <2>1. Sequence(m)
    BY <1>3
  <2>2. Sequence(x) /\ Len(x) = Len(m) + 1 /\ x[Len(m) + 1] = Meant(token) /\ \A k \in 1..Len(m) : x[k] = m[k]
    BY <2>1, SeqAppended
  <2>3. Len(m) = l
    BY <1>3
  <2> HIDE DEF x
  <2>4. QED
    BY <2>2, <2>3, Zenon
<1> HIDE DEF x
<1>6. ASSUME NEW k \in 1..(l + 1) PROVE m2[k] = x[k]
  <2>1. m2[k] = Meant(t2[k])
    BY <1>4
  <2>2. CASE k = l + 1
    BY <1>1, <1>5, <2>1, <2>2
  <2>3. CASE k # l + 1
    <3>1. k \in 1..l
      BY <1>1, <2>3
    <3>2. QED
      BY <1>1, <1>3, <1>5, <2>1, <3>1
  <2>4. QED
    BY <2>2, <2>3
<1>7. m2 = x
  BY <1>4, <1>5, <1>6, SeqSame
<1>8. QED
  BY <1>3, <1>7 DEF l, m, m2, x, t2

\* A text half read, by both parsers; a text read.
Halfway(toks, r, p) ==
  \E F, doc :
    /\ FramesFit(F) /\ r = Reading(F, doc) /\ p = Mirror(F, doc) /\ Held(F, doc, MeantAll(toks))
    /\ ~Begun(Last(F)) => toks = <<>>
AllRead(toks, r, p) ==
  /\ r.done /\ p.done /\ r.doc = p.doc /\ (r.err = p.err \/ (Len(toks) = 1 /\ p.err = "DocumentEmpty"))
  /\ r.err = "none" =>
       /\ Len(r.doc) = 1 /\ Sequence(TokensOf(Head(r.doc), Len(toks)))
       /\ MeantAll(toks) = Append(TokensOf(Head(r.doc), Len(toks)), Token("end"))

\* Halfway, neither has stopped, and their documents are the same.
LEMMA HalfwayOn ==
  ASSUME NEW toks, NEW r, NEW p, Halfway(toks, r, p) PROVE ~r.done /\ ~p.done /\ r.doc = p.doc /\ r.err = "none" /\ p.err = "none"
<1>1. PICK F, doc : r = Reading(F, doc) /\ p = Mirror(F, doc)
  BY DEF Halfway
<1>2. r = [frames |-> F, doc |-> doc, err |-> "none", done |-> FALSE]
  BY <1>1 DEF Reading
<1>3. p = [state |-> StateOf(Last(F)), stack |-> StackOf(F), doc |-> doc, err |-> "none", done |-> FALSE, rest |-> Last(F).at = "rest"]
  BY <1>1, Zenon DEF Mirror, Iterating
<1>4. p.done = FALSE /\ p.doc = doc /\ p.err = "none"
  BY <1>3
<1>5. QED
  BY <1>2, <1>4

\* The next token.
LEMMA ReadStep ==
  ASSUME NEW toks, Sequence(toks), NEW r, NEW p, Halfway(toks, r, p), NEW token
  PROVE  Halfway(Append(toks, token), ParseNext(r, token), IterativeNext(p, token))
         \/ AllRead(Append(toks, token), ParseNext(r, token), IterativeNext(p, token))
<1> DEFINE r2 == ParseNext(r, token)
           p2 == IterativeNext(p, token)
           t2 == Append(toks, token)
<1>1. PICK F, doc : /\ FramesFit(F) /\ r = Reading(F, doc) /\ p = Mirror(F, doc) /\ Held(F, doc, MeantAll(toks))
                    /\ ~Begun(Last(F)) => toks = <<>>
  BY DEF Halfway
<1>2. FramesFit(F) /\ Held(F, doc, MeantAll(toks))
  BY <1>1
<1>3. Agreed(r2, p2, Last(F))
  BY <1>1, NextAgrees
<1>4. r2 = ParseNext(Reading(F, doc), token)
  BY <1>1
<1>5. Sequence(MeantAll(toks)) /\ Len(MeantAll(toks)) = Len(toks)
  BY MeantAppended
<1>6. MeantAll(t2) = Append(MeantAll(toks), Meant(token))
  BY MeantAppended
<1>7. Len(t2) = Len(toks) + 1 /\ Len(toks) \in Nat
  BY SeqAppended
<1> HIDE DEF r2, p2, t2
<1>8. Last(F).in = "root" /\ Last(F).at = "first" => Len(t2) = 1
  <2>1. Last(F).in = "root" /\ Last(F).at = "first" => toks = <<>>
    BY <1>1 DEF Begun
  <2>2. QED
    BY <1>7, <2>1
<1>9. r2.done = p2.done /\ r2.doc = p2.doc /\ (r2.err = p2.err \/ (Len(t2) = 1 /\ p2.err = "DocumentEmpty"))
  BY <1>3, <1>8 DEF Agreed
<1>10. CASE Refuses(r2)
  <2>1. r2.done /\ r2.err # "none"
    BY <1>10 DEF Refuses
  <2>2. QED
    BY <1>9, <2>1 DEF AllRead, r2, p2, t2
<1>11. CASE Stops(F, doc, token, r2)
  <2>1. r2.done
    BY <1>11 DEF Stops
  <2> DEFINE n == Len(t2)
  <2>2. n \in Nat /\ n >= Len(MeantAll(toks))
    BY <1>5, <1>7
  <2> HIDE DEF n
  <2>3. Len(r2.doc) = 1 /\ TokensOf(Head(r2.doc), n) = MeantAll(toks) /\ Meant(token) = Token("end")
    BY <1>2, <1>11, <2>2, HeldStops
  <2>4. MeantAll(t2) = Append(TokensOf(Head(r2.doc), n), Token("end")) /\ Sequence(TokensOf(Head(r2.doc), n))
    BY <1>5, <1>6, <2>3
  <2>5. AllRead(t2, r2, p2)
    BY <1>9, <2>1, <2>3, <2>4 DEF AllRead, n
  <2>6. QED
    BY <2>5 DEF r2, p2, t2
<1>12. CASE ~Refuses(r2) /\ ~Stops(F, doc, token, r2)
  <2>1. Held(r2.frames, r2.doc, Append(MeantAll(toks), Meant(token)))
    BY <1>2, <1>4, <1>12, HeldStep
  <2>2. ~r2.done
    <3>1. \/ BeginsValue(F, doc, token, r2) \/ Takes(F, doc, token, r2) \/ NamesMember(F, doc, token, r2)
          \/ Passes(F, doc, token, r2) \/ Ends(F, doc, token, r2)
      BY <1>1, <1>4, <1>12, NextSteps
    <3>2. \E G, d : r2 = Reading(G, d)
      BY <3>1, Zenon DEF BeginsValue, Takes, NamesMember, Passes, Ends
    <3>3. QED
      BY <3>2, ReadingOn
  <2>3. FramesFit(r2.frames) /\ r2 = Reading(r2.frames, r2.doc) /\ p2 = Mirror(r2.frames, r2.doc) /\ Begun(Last(r2.frames))
    BY <1>3, <2>2 DEF Agreed
  <2> DEFINE G == r2.frames
             d == r2.doc
  <2>4. FramesFit(G) /\ r2 = Reading(G, d) /\ p2 = Mirror(G, d) /\ Begun(Last(G)) /\ Held(G, d, MeantAll(t2))
    BY <1>6, <2>1, <2>3
  <2> HIDE DEF G, d
  <2>5. Halfway(t2, r2, p2)
    BY <2>4, Zenon DEF Halfway
  <2>6. QED
    BY <2>5 DEF r2, p2, t2
<1>13. QED
  BY <1>10, <1>11, <1>12

------------------------------------------------------------------------------
(* Strings                                                                  *)

\* The steps of ParseString().
UnescapedSteps(st, raw, count) == st = [n \in 0..count |-> IF n = 0 THEN NothingRead ELSE UnescapeStep(st[n - 1], raw)]

\* ParseString() is what is known after the last step,
LEMMA UnescapedIs ==
  ASSUME NEW raw, NEW n
  PROVE  Unescaped(raw, n) = (CHOOSE st : UnescapedSteps(st, raw, n))[n]
  BY Zenon DEF Unescaped, UnescapedSteps

\* which is the last of whatever follows its steps.
LEMMA UnescapedAre ==
  ASSUME NEW raw, NEW n \in Nat, NEW g, g[0] = NothingRead, \A d \in Nat : d < n => g[d + 1] = UnescapeStep(g[d], raw)
  PROVE  Unescaped(raw, n) = g[n]
<1> DEFINE u == [d \in 0..n |-> g[d]]
<1>2. UnescapedSteps(u, raw, n)
  <2>1. ASSUME NEW d \in 0..n PROVE u[d] = IF d = 0 THEN NothingRead ELSE UnescapeStep(u[d - 1], raw)
    <3>1. CASE d = 0
      BY <3>1
    <3>2. CASE d # 0
      <4>1. d - 1 \in Nat /\ d - 1 \in 0..n /\ (d - 1) + 1 = d /\ d - 1 < n
        BY <3>2
      <4>2. g[(d - 1) + 1] = UnescapeStep(g[d - 1], raw)
        BY <4>1
      <4>3. QED
        BY <3>2, <4>1, <4>2
    <3>3. QED
      BY <3>1, <3>2
  <2>2. QED
    BY <2>1, Zenon DEF UnescapedSteps
<1> HIDE DEF u
<1>3. PICK st : UnescapedSteps(st, raw, n) /\ Unescaped(raw, n) = st[n]
  BY <1>2, UnescapedIs
<1>4. \A d \in 0..n : st[d] = IF d = 0 THEN NothingRead ELSE UnescapeStep(st[d - 1], raw)
  BY <1>3, Zenon DEF UnescapedSteps
<1> DEFINE T == {d \in Nat : d <= n => st[d] = g[d]}
<1>5. 0 \in T
  <2>1. 0 \in 0..n
    OBVIOUS
  <2>2. st[0] = NothingRead
    BY <1>4, <2>1
  <2>3. QED
    BY <2>2
<1>6. ASSUME NEW d \in Nat, d \in T PROVE d + 1 \in T
  <2> SUFFICES ASSUME d + 1 <= n PROVE st[d + 1] = g[d + 1]
    OBVIOUS
  <2>1. d + 1 \in 0..n /\ d + 1 # 0 /\ (d + 1) - 1 = d /\ d <= n /\ d < n
    OBVIOUS
  <2>2. st[d + 1] = UnescapeStep(st[d], raw)
    BY <1>4, <2>1
  <2>3. g[d + 1] = UnescapeStep(g[d], raw)
    BY <2>1
  <2>4. QED
    BY <1>6, <2>1, <2>2, <2>3
<1> HIDE DEF T
<1>7. n \in T
  BY <1>5, <1>6, Induction
<1>8. QED
  BY <1>3, <1>7 DEF T

\* What was escaped is read as what it was.
LEMMA EscapedShape ==
  ASSUME NEW x
  PROVE  Sequence(Escaped(x)) /\ Len(Escaped(x)) \in 1..6
<1>1. CASE x \in {"quote", "\\"}
  <2>1. Escaped(x) = <<"\\", x>>
    BY <1>1 DEF Escaped
  <2>2. <<"\\", x>> \in Seq({"\\", x}) /\ Len(<<"\\", x>>) \in 1..6
    OBVIOUS
  <2>3. Sequence(<<"\\", x>>)
    BY <2>2 DEF Sequence
  <2>4. QED
    BY <2>1, <2>2, <2>3, Zenon
<1>2. CASE x = "LF"
  <2>1. Escaped(x) = <<"\\", "n">>
    BY <1>2 DEF Escaped
  <2>2. <<"\\", "n">> \in Seq({"\\", "n"}) /\ Len(<<"\\", "n">>) \in 1..6
    OBVIOUS
  <2>3. Sequence(<<"\\", "n">>)
    BY <2>2 DEF Sequence
  <2>4. QED
    BY <2>1, <2>2, <2>3, Zenon
<1>3. CASE x = "SOH"
  <2> DEFINE e == <<"\\", "u", "0", "0", "0", "1">>
  <2>1. Escaped(x) = e
    BY <1>3 DEF Escaped
  <2>2. e \in Seq({"\\", "u", "0", "1"}) /\ Len(e) \in 1..6
    OBVIOUS
  <2> HIDE DEF e
  <2>3. Sequence(e)
    BY <2>2 DEF Sequence
  <2>4. QED
    BY <2>1, <2>2, <2>3, Zenon
<1>4. CASE x \notin {"quote", "\\", "LF", "SOH"}
  <2>1. Escaped(x) = <<x>>
    BY <1>4 DEF Escaped
  <2>2. QED
    BY <2>1, SeqOne
<1>5. QED
  BY <1>1, <1>2, <1>3, <1>4

\* The digits of the escape of a control character.
LEMMA DigitValues == hex_to_bin("0") = 0 /\ hex_to_bin("1") = 1
<1>1. HexDigits[1] = "0" /\ HexDigits[2] = "1" /\ 0 + 1 = 1 /\ 1 + 1 = 2 /\ 0 \in 0..15 /\ 1 \in 0..15
  BY DEF HexDigits
<1>2. hex_to_bin(HexDigits[0 + 1]) = 0 /\ hex_to_bin(HexDigits[1 + 1]) = 1
  BY <1>1, DigitIs
<1>3. QED
  BY <1>1, <1>2

\* That escape is read as the character.
LEMMA EscapeUnicode ==
  ASSUME NEW raw, NEW k, NEW code, code # -1, code \notin HighSurrogate, NEW code2
  PROVE  EscapeOf(raw, k, "u", code, code2) = [err |-> "none", str |-> EncodeUTF8(code), length |-> 6]
  BY DEF EscapeOf

Taken(k, str) == [k |-> k, err |-> "none", str |-> str]
IsAt(raw, k, x, l) ==
  /\ k \in Nat /\ x # "NUL" /\ l = Len(Escaped(x)) /\ k <= Len(raw) /\ Len(raw) \in Nat
  /\ \A j \in 1..l : CharAt(raw, (k + j) - 1) = Escaped(x)[j]

\* So is whatever the Writer makes of one.
LEMMA PieceRead ==
  ASSUME NEW raw, NEW k, NEW x, NEW l, NEW str
  PROVE  IsAt(raw, k, x, l) => UnescapeStep(Taken(k, str), raw) = Taken(k + l, str \o <<x>>)
<1> DEFINE st == Taken(k, str)
<1> SUFFICES ASSUME k \in Nat, x # "NUL", l = Len(Escaped(x)), k <= Len(raw), Len(raw) \in Nat,
                    \A j \in 1..l : CharAt(raw, (k + j) - 1) = Escaped(x)[j]
             PROVE  UnescapeStep(st, raw) = [k |-> k + l, err |-> "none", str |-> str \o <<x>>]
  BY Zenon DEF IsAt, Taken
<1>9. st = [k |-> k, err |-> "none", str |-> str]
  BY DEF Taken
<1> HIDE DEF st
<1>1. st.k = k /\ st.err = "none" /\ st.str = str
  BY <1>9
<1> DEFINE c == CharAt(raw, k)
           escape == Escape(raw, k)
<1>2. UnescapeStep(st, raw) = CASE c = "\\" /\ escape.err # "none" -> StringFails(st, escape.err)
            [] c = "\\" /\ escape.err = "none" -> StringGoes(st, escape.length, escape.str)
            [] c = "NUL" -> StringFails(st, "StringMissQuotationMark")
            [] c \in Controls -> StringFails(st, "StringEscapeInvalid")
            [] OTHER -> StringGoes(st, 1, <<c>>)
  BY <1>1 DEF UnescapeStep
<1>3. CASE x \notin {"quote", "\\", "LF", "SOH"}
  <2>1. Escaped(x) = <<x>> /\ l = 1
    BY <1>3 DEF Escaped
  <2>2. c = x
    BY <2>1
  <2>3. UnescapeStep(st, raw) = StringGoes(st, 1, <<x>>)
    BY <1>2, <1>3, <2>2 DEF Controls
  <2>4. QED
    BY <1>1, <2>1, <2>3 DEF StringGoes
<1>4. ASSUME NEW n, NEW y, escape = [err |-> "none", str |-> y, length |-> n], c = "\\", n = l, y = <<x>>
      PROVE  UnescapeStep(st, raw) = [k |-> k + l, err |-> "none", str |-> str \o <<x>>]
  <2>1. escape.err = "none" /\ escape.length = l /\ escape.str = <<x>>
    BY <1>4
  <2>9. c = "\\"
    BY <1>4
  <2> HIDE DEF escape, c
  <2>8. UnescapeStep(st, raw) = StringGoes(st, escape.length, escape.str)
    BY <1>2, <2>1, <2>9 DEF Controls
  <2>2. UnescapeStep(st, raw) = StringGoes(st, l, <<x>>)
    BY <2>1, <2>8, Zenon
  <2>3. QED
    BY <1>1, <2>2 DEF StringGoes
<1>5. CASE x \in {"quote", "\\"}
  <2>1. Escaped(x) = <<"\\", x>> /\ l = 2
    BY <1>5 DEF Escaped
  <2>2. c = "\\" /\ CharAt(raw, k + 1) = x
    BY <2>1
  <2>3. escape = [err |-> "none", str |-> <<x>>, length |-> 2]
    BY <1>5, <2>2 DEF Escape, EscapeOf
  <2>4. QED
    BY <1>4, <2>1, <2>2, <2>3
<1>6. CASE x = "LF"
  <2>1. Escaped(x) = <<"\\", "n">> /\ l = 2
    BY <1>6 DEF Escaped
  <2>2. c = "\\" /\ CharAt(raw, k + 1) = "n"
    BY <2>1
  <2>3. escape = [err |-> "none", str |-> <<"LF">>, length |-> 2]
    BY <2>2 DEF Escape, EscapeOf
  <2>4. QED
    BY <1>4, <1>6, <2>1, <2>2, <2>3
<1>7. CASE x = "SOH"
  <2>1. Escaped(x) = <<"\\", "u", "0", "0", "0", "1">> /\ l = 6
    BY <1>7 DEF Escaped
  <2>2. c = "\\" /\ CharAt(raw, k + 1) = "u" /\ CharAt(raw, k + 2) = "0" /\ CharAt(raw, k + 3) = "0"
        /\ CharAt(raw, k + 4) = "0" /\ CharAt(raw, k + 5) = "1"
    BY <2>1
  <2>3. ParseHex4(raw, k + 2) = 1
    <3>1. (k + 2) + 0 = k + 2 /\ (k + 2) + 1 = k + 3 /\ (k + 2) + 2 = k + 4 /\ (k + 2) + 3 = k + 5
      OBVIOUS
    <3>2. \A j \in 0..3 : j = 0 \/ j = 1 \/ j = 2 \/ j = 3
      OBVIOUS
    <3>3. \A j \in 0..3 : hex_to_bin(CharAt(raw, (k + 2) + j)) # -1
      BY <2>2, <3>1, <3>2, DigitValues
    <3>4. 4096 * hex_to_bin(CharAt(raw, (k + 2) + 0)) + 256 * hex_to_bin(CharAt(raw, (k + 2) + 1))
          + 16 * hex_to_bin(CharAt(raw, (k + 2) + 2)) + hex_to_bin(CharAt(raw, (k + 2) + 3)) = 1
      BY <2>2, <3>1, DigitValues
    <3>5. QED
      BY <3>3, <3>4 DEF ParseHex4
  <2>4. EncodeUTF8(1) = <<"SOH">>
    BY DEF EncodeUTF8
  <2>5. 1 \notin HighSurrogate \cup {-1}
    BY DEF HighSurrogate
  <2>6. escape = [err |-> "none", str |-> <<"SOH">>, length |-> 6]
    <3> DEFINE code == ParseHex4(raw, k + 2)
               code2 == ParseHex4(raw, k + 8)
               e == CharAt(raw, k + 1)
    <3>1. escape = EscapeOf(raw, k, e, code, code2)
      BY DEF Escape
    <3>2. e = "u" /\ code = 1 /\ code # -1 /\ code \notin HighSurrogate \cup {-1} /\ code \notin HighSurrogate
      BY <2>2, <2>3, <2>5
    <3> HIDE DEF e, code, code2, escape
    <3>3. EscapeOf(raw, k, e, code, code2) = [err |-> "none", str |-> EncodeUTF8(code), length |-> 6]
      BY <3>2, EscapeUnicode
    <3>4. QED
      BY <2>4, <3>1, <3>2, <3>3
  <2>7. QED
    BY <1>4, <1>7, <2>1, <2>2, <2>6
<1>8. QED
  BY <1>3, <1>5, <1>6, <1>7

\* A part one element longer.
LEMMA SeqPrefixNext ==
  ASSUME NEW s, Sequence(s), NEW m \in Nat, m < Len(s)
  PROVE  SubSeq(s, 1, m + 1) = Append(SubSeq(s, 1, m), s[m + 1])
<1>1. PICK S : s \in Seq(S)
  BY DEF Sequence
<1>2. m \in 0..(Len(s) - 1)
  BY <1>1
<1>3. QED
  BY <1>1, <1>2, PrefixNext

\* The whole, and nothing.
LEMMA SeqPrefixEnds ==
  ASSUME NEW s, Sequence(s)
  PROVE  SubSeq(s, 1, Len(s)) = s /\ SubSeq(s, 1, 0) = <<>>
<1>1. Len(s) \in Nat /\ Len(s) <= Len(s) /\ 0 \in Nat /\ 0 <= Len(s)
  BY SeqAppended
<1> DEFINE p == SubSeq(s, 1, Len(s))
           o == SubSeq(s, 1, 0)
<1>2. Sequence(p) /\ Len(p) = Len(s) /\ \A k \in 1..Len(s) : p[k] = s[k]
  BY <1>1, SeqPrefix
<1>3. Sequence(o) /\ Len(o) = 0
  BY <1>1, SeqPrefix
<1> HIDE DEF p, o
<1>4. p = s
  BY <1>2, SeqSame
<1>5. o = <<>>
  BY <1>3 DEF Sequence
<1>6. QED
  BY <1>4, <1>5 DEF p, o

\* A sequence is two parts of it.
LEMMA SeqSplit ==
  ASSUME NEW s, Sequences(s), NEW m \in Nat, m <= Len(s)
  PROVE  Sequences(SubSeq(s, 1, m)) /\ \E q : Sequences(q) /\ s = SubSeq(s, 1, m) \o q
<1>1. Sequence(s) /\ Len(s) \in Nat
  BY SeqAppended DEF Sequences
<1> DEFINE p == SubSeq(s, 1, m)
           l == Len(s)
           q == SubSeq(s, m + 1, l)
           t == p \o q
<1>2. Sequence(p) /\ Len(p) = m /\ \A k \in 1..m : p[k] = s[k]
  BY <1>1, SeqPrefix
<1>3. Sequence(q) /\ Len(q) = (l - (m + 1)) + 1 /\ \A k \in 1..((l - (m + 1)) + 1) : q[k] = s[((m + 1) + k) - 1]
  <2>1. m + 1 \in Nat /\ l \in Nat /\ m + 1 >= 1 /\ l <= Len(s) /\ m + 1 <= l + 1
    BY <1>1
  <2>2. QED
    BY <1>1, <2>1, SeqPart
<1> HIDE DEF p, q
<1>4. Len(q) = l - m /\ \A k \in 1..(l - m) : q[k] = s[m + k]
  <2>1. (l - (m + 1)) + 1 = l - m /\ \A k \in 1..(l - m) : ((m + 1) + k) - 1 = m + k
    BY <1>1
  <2>2. QED
    BY <1>3, <2>1
<1>5. Sequences(p)
  <2>1. \A k \in 1..m : k \in 1..l
    BY <1>1
  <2>2. \A k \in 1..m : Sequence(p[k])
    BY <1>2, <2>1 DEF Sequences
  <2>3. QED
    BY <1>2, <2>2 DEF Sequences
<1>6. Sequences(q)
  <2>1. \A k \in 1..(l - m) : m + k \in 1..l
    BY <1>1
  <2>2. \A k \in 1..(l - m) : Sequence(q[k])
    BY <1>4, <2>1 DEF Sequences
  <2>3. QED
    BY <1>3, <1>4, <2>2 DEF Sequences
<1>7. s = t
  <2>0. Sequence(p) /\ Sequence(q)
    BY <1>2, <1>3
  <2>1. Sequence(t) /\ Len(t) = Len(p) + Len(q) /\ (\A k \in 1..Len(p) : t[k] = p[k]) /\ \A k \in 1..Len(q) : t[Len(p) + k] = q[k]
    BY <2>0, SeqJoined
  <2> HIDE DEF t
  <2>2. Len(t) = l
    BY <1>1, <1>2, <1>4, <2>1
  <2>3. ASSUME NEW k \in 1..l PROVE s[k] = t[k]
    <3>1. CASE k <= m
      <4>1. k \in 1..m
        BY <3>1
      <4>2. QED
        BY <1>2, <2>1, <4>1
    <3>2. CASE ~(k <= m)
      <4>1. k - m \in 1..(l - m) /\ m + (k - m) = k
        BY <1>1, <3>2
      <4>2. t[m + (k - m)] = q[k - m] /\ q[k - m] = s[m + (k - m)]
        BY <1>2, <1>4, <2>1, <4>1
      <4>3. QED
        BY <4>1, <4>2
    <3>3. QED
      BY <3>1, <3>2
  <2>4. QED
    BY <1>1, <2>1, <2>2, <2>3, SeqSame
<1>8. QED
  BY <1>5, <1>6, <1>7 DEF p

\* What has been written of a text is a prefix of all of it.
LEMMA FlatPrefix ==
  ASSUME NEW s, Sequences(s), NEW m \in Nat, m <= Len(s)
  PROVE  /\ Sequences(SubSeq(s, 1, m)) /\ Sequence(FlattenSeq(SubSeq(s, 1, m))) /\ Sequence(FlattenSeq(s))
         /\ Len(FlattenSeq(SubSeq(s, 1, m))) \in Nat /\ Len(FlattenSeq(s)) \in Nat
         /\ Len(FlattenSeq(SubSeq(s, 1, m))) <= Len(FlattenSeq(s))
         /\ \A k \in 1..Len(FlattenSeq(SubSeq(s, 1, m))) : FlattenSeq(s)[k] = FlattenSeq(SubSeq(s, 1, m))[k]
<1> DEFINE p == SubSeq(s, 1, m)
           a == FlattenSeq(p)
<1>1. PICK q : Sequences(q) /\ s = p \o q
  BY SeqSplit
<1>2. Sequences(p) /\ Sequences(q)
  BY <1>1, SeqSplit
<1> HIDE DEF p
<1> DEFINE b == FlattenSeq(q)
           d == a \o b
<1>3. FlattenSeq(p \o q) = a \o b
  BY <1>2, SeqsJoined
<1>4. Sequence(a) /\ Sequence(b)
  <2>1. Sequence(<<>>)
    BY SeqOne
  <2>2. QED
    BY <1>2, <2>1, SeqsAppended
<1>5. FlattenSeq(s) = d
  BY <1>1, <1>3, Zenon
<1> HIDE DEF a, b
<1>6. Sequence(d) /\ Len(a) \in Nat /\ Len(b) \in Nat /\ Len(d) = Len(a) + Len(b) /\ \A k \in 1..Len(a) : d[k] = a[k]
  BY <1>4, SeqJoined
<1> HIDE DEF d
<1>7. Len(d) \in Nat /\ Len(a) <= Len(d)
  BY <1>6
<1>8. Sequences(p) /\ Sequence(a) /\ Sequence(d) /\ Len(a) \in Nat /\ Len(d) \in Nat /\ Len(a) <= Len(d) /\ \A k \in 1..Len(a) : d[k] = a[k]
  BY <1>2, <1>4, <1>6, <1>7
<1>9. QED
  BY <1>5, <1>8, Zenon DEF a, p

\* A C string has no NUL.
LEMMA CStringIs ==
  ASSUME NEW s, Sequence(s)
  PROVE  /\ Sequence(CString(s)) /\ Len(CString(s)) \in Nat
         /\ \A k \in 1..Len(CString(s)) : CString(s)[k] = s[k] /\ s[k] # "NUL"
<1> DEFINE nuls == {j \in DOMAIN s : s[j] = "NUL"}
<1>1. DOMAIN s = 1..Len(s) /\ Len(s) \in Nat
  BY DEF Sequence
<1>2. CASE nuls = {}
  <2>1. CString(s) = s
    BY <1>2 DEF CString
  <2>2. QED
    BY <1>1, <1>2, <2>1
<1>3. CASE nuls # {}
  <2>1. nuls \in SUBSET Nat
    BY <1>1
  <2>2. PICK n \in nuls : \A m \in nuls : n <= m
    BY <1>3, <2>1, Least
  <2> HIDE DEF nuls
  <2>3. Min(nuls) \in nuls /\ \A m \in nuls : Min(nuls) <= m
    BY <2>2 DEF Min
  <2> DEFINE h == Min(nuls)
             d == h - 1
  <2>4. h \in nuls /\ \A m \in nuls : h <= m
    BY <2>3
  <2> HIDE DEF h
  <2>5. h \in 1..Len(s)
    BY <1>1, <2>4 DEF nuls
  <2>6. d \in Nat /\ d <= Len(s)
    BY <1>1, <2>5
  <2>7. CString(s) = SubSeq(s, 1, d)
    BY <1>3 DEF CString, nuls, h
  <2> HIDE DEF d
  <2>8. Sequence(SubSeq(s, 1, d)) /\ Len(SubSeq(s, 1, d)) = d /\ \A k \in 1..d : SubSeq(s, 1, d)[k] = s[k]
    BY <2>6, SeqPrefix
  <2>9. ASSUME NEW k \in 1..d PROVE s[k] # "NUL"
    <3>1. k \in DOMAIN s /\ ~(h <= k)
      BY <1>1, <2>5, <2>6, <1>1 DEF d
    <3>2. k \notin nuls
      BY <2>4, <3>1
    <3>3. QED
      BY <3>1, <3>2 DEF nuls
  <2>10. QED
    BY <2>6, <2>7, <2>8, <2>9
<1>4. QED
  BY <1>2, <1>3

EscapedAll(s) == [j \in DOMAIN CString(s) |-> EscapedChar(s[j])]

\* WriteString() lays the escapes of a C string end to end.
LEMMA EscapedAllIs ==
  ASSUME NEW s, Sequence(s)
  PROVE  /\ Sequences(EscapedAll(s)) /\ Len(EscapedAll(s)) = Len(CString(s)) /\ WriteString(s) = FlattenSeq(EscapedAll(s))
         /\ \A j \in 1..Len(CString(s)) : EscapedAll(s)[j] = Escaped(CString(s)[j])
<1> DEFINE c == CString(s)
           n == Len(c)
           e == EscapedAll(s)
<1>1. Sequence(c) /\ n \in Nat /\ \A k \in 1..n : c[k] = s[k]
  BY CStringIs
<1>2. DOMAIN c = 1..n
  BY <1>1 DEF Sequence
<1>3. e = [j \in 1..n |-> EscapedChar(s[j])]
  BY <1>2, Zenon DEF EscapedAll
<1>4. e = [j \in 1..n |-> e[j]] /\ \A j \in 1..n : e[j] = EscapedChar(s[j])
  BY <1>3, Zenon
<1>5. WriteString(s) = FlattenSeq(e)
  BY Zenon DEF WriteString, EscapedAll
<1>6. n \in Nat
  BY <1>1
<1> HIDE DEF e, c, n
<1>7. Sequence(e) /\ Len(e) = n
  BY <1>4, <1>6, SeqTable
<1>8. \A j \in 1..n : e[j] = Escaped(c[j])
  BY <1>1, <1>4 DEF EscapedChar
<1>9. \A j \in 1..n : Sequence(e[j])
  BY <1>8, EscapedShape
<1>10. Sequences(e)
  BY <1>7, <1>9 DEF Sequences
<1>11. QED
  BY <1>5, <1>7, <1>8, <1>10 DEF e, c, n

\* What the Writer writes of a string is read as the string, up to its first NUL.
LEMMA StringRead ==
  ASSUME NEW s, Sequence(s)
  PROVE  ParseString(WriteString(s)).err = "none" /\ ParseString(WriteString(s)).str = CString(s)
<1> DEFINE c == CString(s)
           n == Len(c)
           e == EscapedAll(s)
           raw == FlattenSeq(e)
           p(m) == FlattenSeq(SubSeq(e, 1, m))
           z(m) == Len(p(m))
           l == Len(raw)
<1>1. Sequence(c) /\ n \in Nat /\ \A k \in 1..n : c[k] # "NUL"
  BY CStringIs
<1>2. Sequences(e) /\ Len(e) = n /\ WriteString(s) = raw /\ \A j \in 1..n : e[j] = Escaped(c[j])
  BY EscapedAllIs
<1> HIDE DEF c, e
<1>3. ASSUME NEW m \in 0..n
      PROVE  /\ Sequences(SubSeq(e, 1, m)) /\ Sequence(p(m)) /\ Sequence(raw) /\ z(m) \in Nat /\ l \in Nat /\ z(m) <= l
             /\ \A k \in 1..z(m) : raw[k] = p(m)[k]
  <2>1. m \in Nat /\ m <= Len(e) /\ Sequences(e)
    BY <1>1, <1>2
  <2>2. QED
    BY <2>1, FlatPrefix
<1>4. p(0) = <<>> /\ z(0) = 0 /\ p(n) = raw
  <2>1. Sequence(e)
    BY <1>2 DEF Sequences
  <2>2. SubSeq(e, 1, Len(e)) = e /\ SubSeq(e, 1, 0) = <<>>
    BY <2>1, SeqPrefixEnds
  <2>3. p(0) = <<>>
    BY <2>2, FlattenEmpty
  <2>4. p(n) = raw
    BY <1>2, <2>2, Zenon
  <2>5. QED
    BY <2>3, <2>4
<1>5. ASSUME NEW m \in Nat, m < n
      PROVE  /\ m \in 0..n /\ m + 1 \in 0..n /\ m + 1 \in 1..n
             /\ p(m + 1) = p(m) \o e[m + 1] /\ z(m + 1) = z(m) + Len(e[m + 1])
             /\ \A k \in 1..Len(e[m + 1]) : p(m + 1)[z(m) + k] = e[m + 1][k]
  <2>1. m \in 0..n /\ m + 1 \in 0..n /\ m + 1 \in 1..n /\ m < Len(e)
    BY <1>1, <1>2, <1>5
  <2>2. Sequence(e) /\ Sequence(e[m + 1]) /\ Sequences(SubSeq(e, 1, m)) /\ Sequence(p(m))
    BY <1>2, <1>3, <2>1 DEF Sequences
  <2>3. SubSeq(e, 1, m + 1) = Append(SubSeq(e, 1, m), e[m + 1])
    BY <2>1, <2>2, SeqPrefixNext
  <2>4. FlattenSeq(Append(SubSeq(e, 1, m), e[m + 1])) = p(m) \o e[m + 1]
    BY <2>2, SeqsAppended
  <2>5. p(m + 1) = p(m) \o e[m + 1]
    BY <2>3, <2>4, Zenon
  <2> DEFINE a == p(m)
             b == e[m + 1]
  <2>6. Len(a \o b) = Len(a) + Len(b) /\ \A k \in 1..Len(b) : (a \o b)[Len(a) + k] = b[k]
    BY <2>2, SeqJoined
  <2>7. Len(p(m + 1)) = Len(a) + Len(b) /\ \A k \in 1..Len(b) : p(m + 1)[Len(a) + k] = b[k]
    BY <2>5, <2>6, Zenon
  <2>8. QED
    BY <2>1, <2>5, <2>7
<1>6. ASSUME NEW m \in Nat, m < n
      PROVE  Len(e[m + 1]) \in 1..6 /\ \A j \in 1..Len(e[m + 1]) : CharAt(raw, ((z(m) + 1) + j) - 1) = Escaped(c[m + 1])[j]
             /\ z(m) + 1 <= l
  <2>1. e[m + 1] = Escaped(c[m + 1])
    BY <1>2, <1>5, <1>6
  <2>2. Len(e[m + 1]) \in 1..6
    BY <2>1, EscapedShape
  <2> DEFINE f == z(m)
             g == z(m + 1)
             w == Len(e[m + 1])
  <2>3. f \in Nat /\ g \in Nat /\ g = f + w /\ g <= l /\ l \in Nat /\ w \in 1..6 /\ w \in Nat /\ (\A k \in 1..g : raw[k] = p(m + 1)[k])
        /\ \A k \in 1..w : p(m + 1)[f + k] = e[m + 1][k]
    <3>1. m \in 0..n /\ m + 1 \in 0..n /\ g = f + w
      BY <1>5, <1>6, Zenon
    <3>2. f \in Nat /\ l \in Nat
      BY <1>3, <3>1, Zenon
    <3>3. g \in Nat /\ g <= l
      BY <1>3, <3>1, Zenon
    <3>4. \A k \in 1..g : raw[k] = p(m + 1)[k]
      BY <1>3, <3>1, Zenon
    <3>5. \A k \in 1..w : p(m + 1)[f + k] = e[m + 1][k]
      BY <1>5, <1>6, Zenon
    <3> HIDE DEF f, g, w, l, p
    <3>6. w \in Nat
      BY <2>2 DEF w
    <3>7. QED
      BY <2>2, <3>1, <3>2, <3>3, <3>4, <3>5, <3>6, Zenon DEF w
  <2> HIDE DEF f, g, w
  <2>7. w \in Nat
    BY <2>3
  <2>4. ASSUME NEW j \in 1..w PROVE CharAt(raw, ((f + 1) + j) - 1) = Escaped(c[m + 1])[j]
    <3>0. f \in Nat /\ g \in Nat /\ g = f + w /\ g <= l /\ l \in Nat /\ w \in Nat
      BY <2>3, Zenon DEF l
    <3>9. j \in Nat /\ j >= 1 /\ j <= w
      BY <2>7
    <3> HIDE DEF l
    <3>1. ((f + 1) + j) - 1 = f + j /\ f + j \in 1..g /\ f + j <= l
      BY <3>0, <3>9
    <3>2. raw[f + j] = e[m + 1][j]
      BY <2>3, <3>1
    <3>3. CharAt(raw, f + j) = raw[f + j]
      <4>1. f + j \in 1..Len(raw)
        BY <3>0, <3>1, <3>9 DEF l
      <4>2. Sequence(raw)
        BY <1>3, <1>6, <1>5, Zenon
      <4>4. DOMAIN raw = 1..Len(raw)
        BY <4>2 DEF Sequence
      <4>3. QED
        BY <4>1, <4>4 DEF CharAt
    <3>4. QED
      BY <2>1, <3>1, <3>2, <3>3
  <2>5. f + 1 <= l
    BY <2>3
  <2>6. QED
    BY <2>2, <2>4, <2>5 DEF f, w
<1>16. ASSUME NEW m \in Nat, m < n PROVE z(m) + 1 <= l
  <2>1. z(m) \in Nat /\ z(m + 1) = z(m) + Len(e[m + 1]) /\ m + 1 \in 0..n
    BY <1>3, <1>5, <1>16
  <2>2. Len(e[m + 1]) \in 1..6
    BY <1>6, <1>16, Zenon
  <2>3. z(m + 1) <= l /\ l \in Nat
    BY <1>3, <2>1, Zenon
  <2> DEFINE a == z(m)
             b == z(m + 1)
             w == Len(e[m + 1])
  <2> HIDE DEF l
  <2>4. a \in Nat /\ b = a + w /\ w \in 1..6 /\ b <= l /\ l \in Nat
    BY <2>1, <2>2, <2>3
  <2> HIDE DEF a, b, w
  <2>5. a + 1 <= l
    BY <2>4
  <2>6. QED
    BY <2>5, Zenon DEF a, l
<1> DEFINE State(m) == [k |-> z(m) + 1, err |-> "none", str |-> SubSeq(c, 1, m)]
           gg == [d \in Nat |-> IF d <= n THEN State(d) ELSE State(n)]
<1> HIDE DEF raw, p, z, l, n
<1>7. gg[0] = NothingRead
  <2>1. SubSeq(c, 1, 0) = <<>>
    BY <1>1, SeqPrefixEnds
  <2>2. gg[0] = State(0)
    BY <1>1
  <2>3. z(0) + 1 = 1
    BY <1>4
  <2>4. QED
    BY <2>1, <2>2, <2>3 DEF NothingRead
<1>8. ASSUME NEW d \in Nat PROVE gg[d + 1] = UnescapeStep(gg[d], raw)
  <2>1. CASE d < n
    <3>1. gg[d] = State(d) /\ gg[d + 1] = State(d + 1)
      <4>1. d \in Nat /\ d + 1 \in Nat /\ d <= n /\ d + 1 <= n
        BY <1>1, <2>1
      <4> HIDE DEF State
      <4>2. QED
        BY <4>1 
    <3>2. z(d) \in Nat /\ z(d) + 1 \in Nat /\ l \in Nat
      BY <1>1, <1>3, <2>1
    <3> DEFINE x == c[d + 1]
               k == z(d) + 1
               w == Len(Escaped(x))
               str == SubSeq(c, 1, d)
    <3>3. e[d + 1] = Escaped(x) /\ x # "NUL" /\ d + 1 \in 1..n
      BY <1>1, <1>2, <1>5, <2>1
    <3>4. Len(e[d + 1]) = w
      BY <3>3
    <3>5. (\A j \in 1..w : CharAt(raw, (k + j) - 1) = Escaped(x)[j]) /\ k <= l
      <4>1. \A j \in 1..Len(e[d + 1]) : CharAt(raw, ((z(d) + 1) + j) - 1) = Escaped(x)[j]
        BY <1>6, <2>1, Zenon
      <4>2. z(d) + 1 <= l
        BY <1>16, <2>1, Zenon
      <4>3. QED
        BY <3>4, <4>1, <4>2, Zenon
    <3>6. SubSeq(c, 1, d + 1) = Append(str, x)
      <4>1. d < Len(c)
        BY <2>1 DEF n
      <4>2. QED
        BY <1>1, <4>1, SeqPrefixNext
    <3>7. str \o <<x>> = Append(str, x)
      <4>1. Sequence(str) /\ Sequence(<<>>)
        <5>1. d <= Len(c)
          BY <1>1, <2>1 DEF n
        <5>2. Sequence(str)
          BY <1>1, <5>1, SeqPrefix
        <5>3. QED
          BY <5>2, SeqOne
      <4>2. QED
        BY <4>1, SeqJoinedOne
    <3>8. z(d + 1) + 1 = k + w
      <4>1. z(d + 1) = z(d) + Len(e[d + 1]) /\ Len(e[d + 1]) \in 1..6
        BY <1>5, <1>6, <2>1
      <4>2. QED
        BY <3>2, <3>4, <4>1
    <3> DEFINE st == State(d)
    <3>9. k \in Nat /\ x # "NUL" /\ w = Len(Escaped(x)) /\ k <= Len(raw)
          /\ Len(raw) \in Nat
      BY <3>2, <3>3, <3>5 DEF l
    <3>13. st = [k |-> k, err |-> "none", str |-> str]
      BY Zenon
    <3> HIDE DEF st, k, w, str, x
    <3>10. UnescapeStep(st, raw) = [k |-> k + w, err |-> "none", str |-> str \o <<x>>]
      <4>1. IsAt(raw, k, x, w)
        BY <3>5, <3>9, Zenon DEF IsAt
      <4>2. UnescapeStep(Taken(k, str), raw) = Taken(k + w, str \o <<x>>)
        BY <4>1, PieceRead
      <4>3. QED
        BY <3>13, <4>2, Zenon DEF Taken
    <3>11. State(d + 1) = [k |-> k + w, err |-> "none", str |-> str \o <<x>>]
      BY <3>6, <3>7, <3>8
    <3>12. QED
      BY <3>1, <3>10, <3>11 DEF st
  <2>2. CASE ~(d < n)
    <3>1. gg[d] = State(n) /\ gg[d + 1] = State(n)
      <4>1. d = n \/ d > n
        BY <1>1, <2>2
      <4> HIDE DEF State
      <4>2. CASE d = n
        <5>1. d \in Nat /\ d + 1 \in Nat /\ d <= n /\ ~(d + 1 <= n)
          BY <1>1, <4>2
        <5>2. QED
          BY <4>2, <5>1
      <4>3. CASE d > n
        <5>1. d \in Nat /\ d + 1 \in Nat /\ ~(d <= n) /\ ~(d + 1 <= n)
          BY <1>1, <4>3
        <5>2. QED
          BY <5>1
      <4>4. QED
        BY <4>1, <4>2, <4>3
    <3>2. z(n) = l
      BY <1>4 DEF z, l
    <3>3. UnescapeStep(State(n), raw) = State(n)
      <4>1. State(n).k > Len(raw)
        BY <1>1, <1>3, <3>2 DEF l
      <4>2. QED
        BY <4>1, Zenon DEF UnescapeStep
    <3>4. QED
      BY <3>1, <3>3
  <2>3. QED
    BY <2>1, <2>2
<1>9. n <= l /\ l \in Nat
  <2> DEFINE T == {m \in Nat : m <= n => z(m) >= m}
  <2>1. 0 \in T
    BY <1>4
  <2>2. ASSUME NEW m \in Nat, m \in T PROVE m + 1 \in T
    <3> SUFFICES ASSUME m + 1 <= n PROVE z(m + 1) >= m + 1
      OBVIOUS
    <3>1. m < n /\ m <= n /\ m \in 0..n
      BY <1>1
    <3>2. z(m) >= m /\ z(m) \in Nat
      BY <1>3, <2>2, <3>1
    <3>3. z(m + 1) = z(m) + Len(e[m + 1]) /\ Len(e[m + 1]) \in 1..6
      BY <1>5, <1>6, <3>1
    <3> DEFINE a == z(m)
               b == z(m + 1)
               w == Len(e[m + 1])
    <3>4. a \in Nat /\ b = a + w /\ w \in 1..6 /\ a >= m /\ m \in Nat
      BY <3>2, <3>3
    <3> HIDE DEF a, b, w
    <3>5. b >= m + 1
      BY <3>4
    <3>6. QED
      BY <3>5 DEF b
  <2> HIDE DEF T
  <2>3. n \in T
    BY <1>1, <2>1, <2>2, Induction
  <2>4. z(n) >= n /\ z(n) <= l /\ z(n) \in Nat /\ l \in Nat
    BY <1>1, <1>3, <2>3 DEF T
  <2>5. QED
    BY <1>1, <2>4
<1>10. Unescaped(raw, l) = gg[l]
  <2>1. \A d \in Nat : d < l => gg[d + 1] = UnescapeStep(gg[d], raw)
    BY <1>8
  <2>2. l \in Nat
    BY <1>9
  <2> HIDE DEF gg
  <2>3. QED
    BY <1>7, <2>1, <2>2, UnescapedAre
<1>11. gg[l] = State(n)
  <2>1. l = n \/ l > n
    BY <1>1, <1>9
  <2>2. QED
    BY <1>1, <1>9, <2>1
<1>12. SubSeq(c, 1, n) = c
  BY <1>1, SeqPrefixEnds DEF n
<1>13. ParseString(raw) = State(n)
  BY <1>10, <1>11 DEF ParseString, l
<1>14. ParseString(raw).err = "none" /\ ParseString(raw).str = c
  BY <1>12, <1>13
<1>15. QED
  BY <1>2, <1>14 DEF c

------------------------------------------------------------------------------
(* Numbers                                                                  *)

\* A digit is one of ten characters, and has its value.
LEMMA DecimalDigits ==
  /\ Digits = {"0", "1", "2", "3", "4", "5", "6", "7", "8", "9"}
  /\ \A c \in Digits : hex_to_bin(c) \in 0..9
<1> DEFINE s == SubSeq(HexDigits, 1, 10)
<1>5. \A k \in 1..10 : k = 1 \/ k = 2 \/ k = 3 \/ k = 4 \/ k = 5 \/ k = 6 \/ k = 7 \/ k = 8 \/ k = 9 \/ k = 10
  OBVIOUS
<1>6. /\ HexDigits[1] = "0" /\ HexDigits[2] = "1" /\ HexDigits[3] = "2" /\ HexDigits[4] = "3" /\ HexDigits[5] = "4"
      /\ HexDigits[6] = "5" /\ HexDigits[7] = "6" /\ HexDigits[8] = "7" /\ HexDigits[9] = "8" /\ HexDigits[10] = "9"
  BY DEF HexDigits
<1> DEFINE ten == {"0", "1", "2", "3", "4", "5", "6", "7", "8", "9"}
<1>1. \A k \in 1..10 : HexDigits[k] \in ten
  BY <1>5, <1>6
<1> HIDE DEF ten
<1>2. s \in Seq(ten) /\ Len(s) = 10 /\ \A k \in 1..10 : s[k] = HexDigits[k]
  <2>1. /\ s \in Seq(ten) /\ Len(s) = (IF 1 <= 10 THEN 10 - 1 + 1 ELSE 0)
        /\ \A k \in 1..(10 - 1 + 1) : s[k] = HexDigits[1 + k - 1]
    BY <1>1, SubSeqProperties
  <2>2. \A k \in 1..10 : k \in 1..(10 - 1 + 1) /\ 1 + k - 1 = k
    OBVIOUS
  <2> HIDE DEF s
  <2>3. QED
    BY <2>1, <2>2
<1>3. Digits = {s[k] : k \in 1..10}
  <2>2. DOMAIN s = 1..10
    BY <1>2
  <2>3. QED
    BY <2>2, Zenon DEF Digits, Range
<1>4. Digits = {HexDigits[k] : k \in 1..10}
  BY <1>2, <1>3
<1>7. Digits = {"0", "1", "2", "3", "4", "5", "6", "7", "8", "9"}
  <2>1. \A c : c \in Digits <=> \E k \in 1..10 : c = HexDigits[k]
    BY <1>4
  <2>2. \A c \in Digits : c \in {"0", "1", "2", "3", "4", "5", "6", "7", "8", "9"}
    BY <1>5, <1>6, <2>1
  <2>3. \A c \in {"0", "1", "2", "3", "4", "5", "6", "7", "8", "9"} : c \in Digits
    BY <1>6, <2>1
  <2>4. QED
    BY <2>2, <2>3
<1>8. ASSUME NEW c \in Digits PROVE hex_to_bin(c) \in 0..9
  <2>1. PICK k \in 1..10 : c = HexDigits[k]
    BY <1>4
  <2>2. k - 1 \in 0..15 /\ k - 1 \in 0..9 /\ (k - 1) + 1 = k
    OBVIOUS
  <2>3. hex_to_bin(HexDigits[(k - 1) + 1]) = k - 1
    BY <2>2, DigitIs
  <2>4. QED
    BY <2>1, <2>2, <2>3
<1>9. QED
  BY <1>7, <1>8

\* The values of the first digits of a number.
IsDecimal(v, digits, n) == v = [j \in 0..n |-> IF j = 0 THEN 0 ELSE TenTimes(v[j - 1], digits[j])]

\* Decimal() is the last value of its steps,
LEMMA DecimalIs ==
  ASSUME NEW digits
  PROVE  Decimal(digits) = (CHOOSE v : IsDecimal(v, digits, Len(digits)))[Len(digits)]
  BY Zenon DEF Decimal, IsDecimal

\* which exist,
LEMMA DecimalMade ==
  ASSUME NEW digits, NEW n \in Nat
  PROVE  \E v : IsDecimal(v, digits, n)
<1> DEFINE T == {k \in Nat : \E v : IsDecimal(v, digits, k)}
<1>1. 0 \in T
  <2> DEFINE v == [j \in 0..0 |-> 0]
  <2>1. ASSUME NEW j \in 0..0 PROVE v[j] = IF j = 0 THEN 0 ELSE TenTimes(v[j - 1], digits[j])
    OBVIOUS
  <2> HIDE DEF v
  <2>2. v = [j \in 0..0 |-> v[j]]
    BY DEF v
  <2>3. v = [j \in 0..0 |-> IF j = 0 THEN 0 ELSE TenTimes(v[j - 1], digits[j])]
    BY <2>1, <2>2
  <2>4. QED
    BY <2>3 DEF IsDecimal
<1>2. ASSUME NEW k \in Nat, k \in T PROVE k + 1 \in T
  <2>1. PICK v : IsDecimal(v, digits, k)
    BY <1>2
  <2>2. v = [j \in 0..k |-> IF j = 0 THEN 0 ELSE TenTimes(v[j - 1], digits[j])]
    BY <2>1, Zenon DEF IsDecimal
  <2>3. \A j \in 0..k : v[j] = IF j = 0 THEN 0 ELSE TenTimes(v[j - 1], digits[j])
    BY <2>2, Zenon
  <2> DEFINE u == [j \in 0..(k + 1) |-> IF j <= k THEN v[j] ELSE TenTimes(v[k], digits[k + 1])]
  <2>4. ASSUME NEW j \in 0..(k + 1) PROVE u[j] = IF j = 0 THEN 0 ELSE TenTimes(u[j - 1], digits[j])
    <3>1. CASE j <= k
      <4>1. j \in 0..k /\ u[j] = v[j]
        BY <3>1
      <4>2. j # 0 => j - 1 \in 0..(k + 1) /\ j - 1 <= k
        BY <3>1
      <4>3. j # 0 => u[j - 1] = v[j - 1]
        BY <4>2
      <4> HIDE DEF u
      <4>4. QED
        BY <2>3, <4>1, <4>3
    <3>2. CASE ~(j <= k)
      <4>1. j = k + 1 /\ j - 1 = k /\ k \in 0..(k + 1) /\ k <= k /\ j # 0
        BY <3>2
      <4>2. u[k] = v[k] /\ u[j] = TenTimes(v[k], digits[k + 1])
        BY <3>2, <4>1
      <4> HIDE DEF u
      <4>3. QED
        BY <4>1, <4>2
    <3>3. QED
      BY <3>1, <3>2
  <2>5. u = [j \in 0..(k + 1) |-> u[j]]
    BY Zenon
  <2> HIDE DEF u
  <2>6. u = [j \in 0..(k + 1) |-> IF j = 0 THEN 0 ELSE TenTimes(u[j - 1], digits[j])]
    BY <2>4, <2>5
  <2>7. IsDecimal(u, digits, k + 1)
    BY <2>6, Zenon DEF IsDecimal
  <2>8. QED
    BY <2>7
<1> HIDE DEF T
<1>3. n \in T
  BY <1>1, <1>2, Induction
<1>4. QED
  BY <1>3 DEF T

\* and take one digit each.
LEMMA DecimalAre ==
  ASSUME NEW digits, Sequence(digits), \A j \in 1..Len(digits) : digits[j] \in Digits
  PROVE  \E v : /\ Decimal(digits) = v[Len(digits)] /\ v[0] = 0
                /\ \A j \in 0..Len(digits) : v[j] \in Nat
                /\ \A j \in 0..Len(digits) : j < Len(digits) => v[j + 1] = 10 * v[j] + hex_to_bin(digits[j + 1])
<1> DEFINE l == Len(digits)
<1>1. l \in Nat
  BY DEF Sequence
<1>2. PICK v : IsDecimal(v, digits, l) /\ Decimal(digits) = v[l]
  BY <1>1, DecimalMade, DecimalIs
<1> HIDE DEF l
<1>3. v = [j \in 0..l |-> IF j = 0 THEN 0 ELSE TenTimes(v[j - 1], digits[j])]
  BY <1>2, Zenon DEF IsDecimal
<1>4. \A j \in 0..l : v[j] = IF j = 0 THEN 0 ELSE TenTimes(v[j - 1], digits[j])
  BY <1>3, Zenon
<1>5. 0 \in 0..l /\ v[0] = 0
  BY <1>1, <1>4
<1>6. ASSUME NEW j \in 0..l, j < l PROVE v[j + 1] = 10 * v[j] + hex_to_bin(digits[j + 1])
  <2>1. j + 1 \in 0..l /\ j + 1 # 0 /\ (j + 1) - 1 = j
    BY <1>1, <1>6
  <2>2. v[j + 1] = TenTimes(v[j], digits[j + 1])
    BY <1>4, <2>1
  <2>3. QED
    BY <2>2 DEF TenTimes
<1> DEFINE T == {j \in Nat : j <= l => v[j] \in Nat}
<1>7. 0 \in T
  BY <1>5
<1>8. ASSUME NEW j \in Nat, j \in T PROVE j + 1 \in T
  <2> SUFFICES ASSUME j + 1 <= l PROVE v[j + 1] \in Nat
    OBVIOUS
  <2>1. j \in 0..l /\ j < l /\ j + 1 \in 1..l /\ j <= l
    BY <1>1
  <2>2. v[j] \in Nat
    BY <1>8, <2>1
  <2>3. hex_to_bin(digits[j + 1]) \in 0..9
    BY <2>1, DecimalDigits DEF l
  <2>4. v[j + 1] = 10 * v[j] + hex_to_bin(digits[j + 1])
    BY <1>6, <2>1
  <2>5. QED
    BY <2>2, <2>3, <2>4, SMTT(40)
<1> HIDE DEF T
<1>9. \A j \in 0..l : v[j] \in Nat
  <2>1. Nat \subseteq T
    BY <1>7, <1>8, Induction
  <2>2. QED
    BY <1>1, <2>1 DEF T
<1>10. QED
  BY <1>2, <1>5, <1>6, <1>9 DEF l

\* The next digit takes n beyond max if the comparison says so.
LEMMA ExceedsIs ==
  ASSUME NEW n \in Nat, NEW c, c \in Digits, NEW max \in Nat
  PROVE  Overflows(n, c, max) <=> 10 * n + hex_to_bin(c) > max
<1> DEFINE a == hex_to_bin(c)
           q == max \div 10
           z == max % 10
<1>1. a \in 0..9
  BY DecimalDigits
<1>2. q \in Nat /\ z \in 0..9 /\ max = 10 * q + z
  OBVIOUS
<1>3. Overflows(n, c, max) <=> n >= q /\ (n # q \/ a > z)
  BY Zenon DEF Overflows, Exceeds
<1> HIDE DEF a, q, z
<1>4. n >= q /\ (n # q \/ a > z) <=> 10 * n + a > max
  <2>1. CASE n < q
    <3>1. 10 * n + 10 <= 10 * q
      BY <1>2, <2>1
    <3>2. QED
      BY <1>1, <1>2, <2>1, <3>1
  <2>2. CASE n = q
    BY <1>1, <1>2, <2>2
  <2>3. CASE n > q
    <3>1. 10 * q + 10 <= 10 * n
      BY <1>2, <2>3
    <3>2. QED
      BY <1>1, <1>2, <2>3, <3>1
  <2>4. QED
    BY <1>2, <2>1, <2>2, <2>3
<1>5. QED
  BY <1>3, <1>4 DEF a

\* The steps of Accumulate().
Accumulates(st, raw, k, n, max, count) ==
  st = [m \in 0..count |-> IF m = 0 THEN [n |-> n, k |-> k] ELSE AccumulateStep(st[m - 1], raw, max)]

\* Accumulate() is the last of its steps,
LEMMA AccumulateIs ==
  ASSUME NEW raw, NEW k, NEW n, NEW max
  PROVE  Accumulate(raw, k, n, max) = (CHOOSE st : Accumulates(st, raw, k, n, max, Len(raw)))[Len(raw)]
  BY Zenon DEF Accumulate, Accumulates

\* or of whatever follows them.
LEMMA AccumulateAre ==
  ASSUME NEW raw, NEW k, NEW m, NEW max, Len(raw) \in Nat, NEW g, g[0] = [n |-> m, k |-> k],
         \A d \in Nat : d < Len(raw) => g[d + 1] = AccumulateStep(g[d], raw, max)
  PROVE  Accumulate(raw, k, m, max) = g[Len(raw)]
<1> DEFINE n == Len(raw)
           u == [d \in 0..n |-> g[d]]
           first == [n |-> m, k |-> k]
<1>1. n \in Nat /\ (\A d \in Nat : d < n => g[d + 1] = AccumulateStep(g[d], raw, max)) /\ g[0] = first
  OBVIOUS
<1>11. Accumulate(raw, k, m, max) = (CHOOSE st : Accumulates(st, raw, k, m, max, n))[n]
  BY AccumulateIs
<1>12. \A st : Accumulates(st, raw, k, m, max, n)
               <=> st = [d \in 0..n |-> IF d = 0 THEN first ELSE AccumulateStep(st[d - 1], raw, max)]
  BY Zenon DEF Accumulates
<1> HIDE DEF n, first
<1>2. Accumulates(u, raw, k, m, max, n)
  <2>1. ASSUME NEW d \in 0..n PROVE u[d] = IF d = 0 THEN first ELSE AccumulateStep(u[d - 1], raw, max)
    <3>1. CASE d = 0
      BY <1>1, <3>1
    <3>2. CASE d # 0
      <4>1. d - 1 \in Nat /\ d - 1 \in 0..n /\ (d - 1) + 1 = d /\ d - 1 < n
        BY <1>1, <3>2
      <4>2. g[(d - 1) + 1] = AccumulateStep(g[d - 1], raw, max)
        BY <1>1, <4>1
      <4>3. QED
        BY <3>2, <4>1, <4>2
    <3>3. QED
      BY <3>1, <3>2
  <2>2. u = [d \in 0..n |-> u[d]]
    BY Zenon
  <2> HIDE DEF u
  <2>3. u = [d \in 0..n |-> IF d = 0 THEN first ELSE AccumulateStep(u[d - 1], raw, max)]
    BY <2>1, <2>2
  <2>4. QED
    BY <1>12, <2>3, Zenon
<1> HIDE DEF u
<1>3. PICK st : Accumulates(st, raw, k, m, max, n) /\ Accumulate(raw, k, m, max) = st[n]
  BY <1>2, <1>11
<1>13. st = [d \in 0..n |-> IF d = 0 THEN first ELSE AccumulateStep(st[d - 1], raw, max)]
  BY <1>3, <1>12, Zenon
<1>4. \A d \in 0..n : st[d] = IF d = 0 THEN first ELSE AccumulateStep(st[d - 1], raw, max)
  BY <1>13, Zenon
<1> DEFINE T == {d \in Nat : d <= n => st[d] = g[d]}
<1>5. 0 \in T
  <2>1. 0 \in 0..n
    BY <1>1
  <2>2. st[0] = first
    BY <1>4, <2>1
  <2>3. QED
    BY <1>1, <2>2
<1>6. ASSUME NEW d \in Nat, d \in T PROVE d + 1 \in T
  <2> SUFFICES ASSUME d + 1 <= n PROVE st[d + 1] = g[d + 1]
    OBVIOUS
  <2>1. d + 1 \in 0..n /\ d + 1 # 0 /\ (d + 1) - 1 = d /\ d <= n /\ d < n
    BY <1>1
  <2>2. st[d + 1] = AccumulateStep(st[d], raw, max)
    BY <1>4, <2>1
  <2>3. g[d + 1] = AccumulateStep(g[d], raw, max)
    BY <1>1, <2>1
  <2>4. QED
    BY <1>6, <2>1, <2>2, <2>3
<1> HIDE DEF T
<1>7. n \in T
  BY <1>1, <1>5, <1>6, Induction
<1>8. QED
  BY <1>3, <1>7, <1>1 DEF T, n

\* A number of l digits, and the values of its first ones.
Spelt(raw, start, l, v) ==
  /\ Sequence(raw) /\ start \in {1, 2} /\ l \in Nat /\ l >= 1 /\ Len(raw) + 1 = start + l
  /\ \A j \in 0..l : v[j] \in Nat
  /\ \A j \in 0..l : j < l =>
       /\ raw[start + j] \in Digits /\ v[j + 1] = 10 * v[j] + hex_to_bin(raw[start + j])
       /\ hex_to_bin(raw[start + j]) \in 0..9
ReadTo(start, v, m) == [n |-> v[m], k |-> start + m]

\* The characters of an integer, and what is behind them.
LEMMA NumberChars ==
  ASSUME NEW raw, NEW start, NEW l, NEW v, Spelt(raw, start, l, v)
  PROVE  /\ \A j \in 0..l : j < l => CharAt(raw, start + j) = raw[start + j] /\ CharAt(raw, start + j) \in Digits
         /\ CharAt(raw, start + l) = "NUL" /\ "NUL" \notin Digits
<1>1. start \in {1, 2} /\ l \in Nat /\ l >= 1 /\ Len(raw) + 1 = start + l /\ Len(raw) \in Nat
  BY DEF Spelt, Sequence
<1>2. "NUL" \notin Digits
  BY DecimalDigits
<1>3. CharAt(raw, start + l) = "NUL"
  <2>1. ~(start + l <= Len(raw))
    BY <1>1
  <2>2. QED
    BY <2>1, Zenon DEF CharAt
<1>4. ASSUME NEW j \in 0..l, j < l PROVE CharAt(raw, start + j) = raw[start + j] /\ CharAt(raw, start + j) \in Digits
  <2>1. start + j <= Len(raw)
    BY <1>1, <1>4
  <2>2. CharAt(raw, start + j) = raw[start + j]
    BY <2>1, Zenon DEF CharAt
  <2>3. raw[start + j] \in Digits
    BY <1>4, Zenon DEF Spelt
  <2>4. QED
    BY <2>2, <2>3
<1>5. QED
  BY <1>2, <1>3, <1>4

\* A step takes a digit unless that takes the value past the limit.
LEMMA AccumulateSteps ==
  ASSUME NEW raw, NEW start, NEW l, NEW v, Spelt(raw, start, l, v), NEW max \in Nat, NEW m \in 0..l, m >= 1
  PROVE  AccumulateStep(ReadTo(start, v, m), raw, max)
         = IF m = l \/ v[m + 1] > max THEN ReadTo(start, v, m) ELSE ReadTo(start, v, m + 1)
<1> DEFINE st == ReadTo(start, v, m)
           c == CharAt(raw, start + m)
<1>1. st.n = v[m] /\ st.k = start + m
  BY DEF ReadTo
<1>2. l \in Nat /\ start \in Nat /\ v[m] \in Nat
  BY DEF Spelt
<1> HIDE DEF st
<1>3. AccumulateStep(st, raw, max) =
        IF c \notin Digits \/ Overflows(v[m], c, max) THEN st ELSE [n |-> TenTimes(v[m], c), k |-> (start + m) + 1]
  BY <1>1 DEF AccumulateStep
<1>4. CASE m = l
  <2>1. c \notin Digits
    BY <1>4, NumberChars
  <2>2. QED
    BY <1>3, <1>4, <2>1 DEF st
<1>5. CASE m < l
  <2>1. c \in Digits /\ c = raw[start + m]
    BY <1>5, NumberChars
  <2>2. v[m + 1] = 10 * v[m] + hex_to_bin(raw[start + m])
    BY <1>5 DEF Spelt
  <2>3. v[m + 1] = 10 * v[m] + hex_to_bin(c)
    BY <2>1, <2>2
  <2> HIDE DEF c
  <2>4. Overflows(v[m], c, max) <=> v[m + 1] > max
    BY <1>2, <2>1, <2>3, ExceedsIs
  <2>5. TenTimes(v[m], c) = v[m + 1]
    BY <2>3 DEF TenTimes
  <2>6. (start + m) + 1 = start + (m + 1) /\ m # l
    BY <1>2, <1>5
  <2>7. [n |-> TenTimes(v[m], c), k |-> (start + m) + 1] = ReadTo(start, v, m + 1)
    BY <2>5, <2>6, Zenon DEF ReadTo
  <2>8. QED
    BY <1>3, <2>1, <2>4, <2>6, <2>7, Zenon DEF st
<1>6. m = l \/ m < l
  BY <1>2
<1>7. QED
  BY <1>4, <1>5, <1>6

\* Accumulate() takes the digits up to the first one that would take the value past max.
LEMMA AccumulateTo ==
  ASSUME NEW raw, NEW start, NEW l, NEW v, Spelt(raw, start, l, v), NEW max \in Nat, NEW m \in 0..l, m >= 1, v[m] <= max
  PROVE  \E e \in m..l : /\ Accumulate(raw, start + m, v[m], max) = ReadTo(start, v, e)
                         /\ v[e] <= max /\ (e = l \/ v[e + 1] > max)
<1>1. l \in Nat /\ l >= 1 /\ start \in Nat /\ start >= 1 /\ Len(raw) + 1 = start + l /\ Len(raw) \in Nat /\ m \in Nat
  BY DEF Spelt, Sequence
<1> DEFINE T == {x \in m..l : x = l \/ v[x + 1] > max}
<1>2. T \in SUBSET Nat /\ T # {}
  <2>1. l \in T
    BY <1>1
  <2>2. QED
    BY <1>1, <2>1
<1>3. PICK e \in T : \A x \in T : e <= x
  BY <1>2, Least
<1>4. e \in m..l /\ e \in Nat /\ (e = l \/ v[e + 1] > max) /\ \A x \in m..l : x < e => x # l /\ ~(v[x + 1] > max)
  <2>1. e \in m..l /\ (e = l \/ v[e + 1] > max)
    BY <1>3
  <2>2. ASSUME NEW x \in m..l, x < e PROVE x # l /\ ~(v[x + 1] > max)
    <3>1. ~(e <= x)
      BY <1>1, <2>1, <2>2
    <3>2. x \notin T
      BY <1>3, <3>1
    <3>3. QED
      BY <3>2
  <2>3. QED
    BY <1>1, <2>1, <2>2
<1> HIDE DEF T
<1>5. \A j \in 0..l : v[j] \in Nat
  BY DEF Spelt
<1>6. v[e] <= max
  <2>1. CASE e = m
    BY <2>1
  <2>2. CASE e # m
    <3>1. e - 1 \in m..l /\ e - 1 < e /\ (e - 1) + 1 = e /\ e \in 0..l
      BY <1>1, <1>4, <2>2
    <3>2. ~(v[e] > max) /\ v[e] \in Nat
      BY <1>4, <1>5, <3>1
    <3>3. QED
      BY <3>2
  <2>3. QED
    BY <2>1, <2>2
<1> DEFINE P(j) == IF m + j <= e THEN m + j ELSE e
           g == [j \in Nat |-> ReadTo(start, v, P(j))]
           n == Len(raw)
<1>7. \A j \in Nat : P(j) \in m..e /\ P(j) \in 0..l /\ P(j) >= 1 /\ P(j) \in m..l
  BY <1>1, <1>4
<1>8. g[0] = [n |-> v[m], k |-> start + m]
  <2>1. P(0) = m
    BY <1>1, <1>4
  <2>2. g[0] = ReadTo(start, v, P(0))
    OBVIOUS
  <2>3. QED
    BY <2>1, <2>2 DEF ReadTo
<1>9. ASSUME NEW j \in Nat PROVE g[j + 1] = AccumulateStep(g[j], raw, max)
  <2> DEFINE x == P(j)
             y == P(j + 1)
  <2>1. x \in 0..l /\ x >= 1 /\ x \in m..l /\ x <= e
    BY <1>1, <1>4, <1>7
  <2>2. (x < e => y = x + 1) /\ (x = e => y = e)
    BY <1>1, <1>4
  <2>3. j + 1 \in Nat
    OBVIOUS
  <2>4. g[j] = ReadTo(start, v, x) /\ g[j + 1] = ReadTo(start, v, y)
    BY <2>3
  <2> HIDE DEF x, y, g
  <2>5. AccumulateStep(ReadTo(start, v, x), raw, max)
        = IF x = l \/ v[x + 1] > max THEN ReadTo(start, v, x) ELSE ReadTo(start, v, x + 1)
    BY <2>1, AccumulateSteps
  <2>6. CASE x < e
    <3>1. x # l /\ ~(v[x + 1] > max)
      BY <1>4, <2>1, <2>6
    <3>2. AccumulateStep(ReadTo(start, v, x), raw, max) = ReadTo(start, v, x + 1)
      BY <2>5, <3>1, Zenon
    <3>3. QED
      BY <2>2, <2>4, <2>6, <3>2
  <2>7. CASE x = e
    <3>1. x = l \/ v[x + 1] > max
      BY <1>4, <2>7
    <3>2. AccumulateStep(ReadTo(start, v, x), raw, max) = ReadTo(start, v, x)
      BY <2>5, <3>1, Zenon
    <3>3. QED
      BY <2>2, <2>4, <2>7, <3>2
  <2>8. x < e \/ x = e
    BY <1>1, <1>4, <2>1
  <2>9. QED
    BY <2>6, <2>7, <2>8
<1>10. g[n] = ReadTo(start, v, e)
  <2>1. P(n) = e
    <3>1. n + 1 >= l + 1
      BY <1>1
    <3>2. m + n >= e
      BY <1>1, <1>4
    <3>3. QED
      BY <1>1, <1>4, <3>2
  <2>2. n \in Nat
    BY <1>1
  <2>3. g[n] = ReadTo(start, v, P(n))
    BY <2>2
  <2>4. QED
    BY <2>1, <2>3
<1> HIDE DEF g, P
<1> DEFINE k == start + m
           b == v[m]
<1>11. g[0] = [n |-> b, k |-> k] /\ Len(raw) \in Nat /\ \A j \in Nat : j < Len(raw) => g[j + 1] = AccumulateStep(g[j], raw, max)
  BY <1>1, <1>8, <1>9
<1> HIDE DEF k, b
<1>12. Accumulate(raw, k, b, max) = g[Len(raw)]
  BY <1>11, AccumulateAre
<1>13. QED
  BY <1>4, <1>6, <1>10, <1>12 DEF k, b

\* The value of more digits is not less.
LEMMA ValuesGrow ==
  ASSUME NEW raw, NEW start, NEW l, NEW v, Spelt(raw, start, l, v), NEW m \in 0..l
  PROVE  v[m] <= v[l]
<1>1. l \in Nat /\ \A j \in 0..l : v[j] \in Nat
  BY DEF Spelt
<1> DEFINE T == {d \in Nat : m + d <= l => v[m] <= v[m + d]}
<1>2. 0 \in T
  <2>1. m + 0 = m /\ v[m] \in Nat
    BY <1>1
  <2>2. QED
    BY <2>1
<1>3. ASSUME NEW d \in Nat, d \in T PROVE d + 1 \in T
  <2> SUFFICES ASSUME m + (d + 1) <= l PROVE v[m] <= v[m + (d + 1)]
    OBVIOUS
  <2> DEFINE x == m + d
  <2>1. x \in 0..l /\ x + 1 \in 0..l /\ x < l /\ x <= l /\ m + (d + 1) = x + 1
    BY <1>1
  <2>2. v[m] <= v[x] /\ v[m] \in Nat /\ v[x] \in Nat /\ v[x + 1] \in Nat
    BY <1>1, <1>3, <2>1
  <2> HIDE DEF x
  <2>3. v[x + 1] = 10 * v[x] + hex_to_bin(raw[start + x]) /\ hex_to_bin(raw[start + x]) \in 0..9
    BY <2>1 DEF Spelt
  <2> DEFINE a == v[x]
             b == hex_to_bin(raw[start + x])
             c == v[x + 1]
             z == v[m]
  <2>4. a \in Nat /\ b \in 0..9 /\ c = 10 * a + b /\ z \in Nat /\ z <= a
    BY <2>2, <2>3
  <2> HIDE DEF a, b, c, z
  <2>5. z <= c
    BY <2>4
  <2>6. QED
    BY <2>1, <2>5 DEF z, c
<1> HIDE DEF T
<1>4. l - m \in T
  <2>1. l - m \in Nat
    BY <1>1
  <2>2. QED
    BY <1>2, <1>3, <2>1, Induction
<1>5. m + (l - m) = l
  BY <1>1
<1>6. QED
  BY <1>1, <1>4, <1>5 DEF T

\* Where no fraction and no exponent follows, a number is an integer.
Plain(raw, minus, int) ==
  LET Is(type, n) == [err |-> "none", type |-> type, num |-> n, rest |-> int.k <= Len(raw)]
  IN IF int.big THEN Is("Double", 0)
     ELSE IF minus THEN Is(IF int.use64bit THEN "Int64" ELSE "Int", -int.n)
     ELSE Is(IF int.use64bit THEN "Uint64" ELSE "Uint", int.n)

\* Such a number has no error, and the type of its integer.
LEMMA PlainNumber ==
  ASSUME NEW raw, NEW minus, NEW int, CharAt(raw, int.k) \notin {".", "e", "E"}
  PROVE  BehindInteger(raw, minus, int) = Plain(raw, minus, int)
<1> DEFINE k == int.k
           frac == [given |-> FALSE, from |-> k, k |-> k]
           exp == [given |-> FALSE, minus |-> FALSE, from |-> k, k |-> k]
<1>1. Fraction(raw, k) = frac
  BY Zenon DEF Fraction
<1>2. Exponent(raw, k) = exp
  BY Zenon DEF Exponent
<1>3. ~frac.given /\ frac.k = k /\ ~exp.given /\ exp.k = k
  OBVIOUS
<1>4. BehindInteger(raw, minus, int) = NumberOf(raw, minus, int, frac, exp)
  <2>1. BehindInteger(raw, minus, int) = NumberOf(raw, minus, int, Fraction(raw, k), Exponent(raw, Fraction(raw, k).k))
    BY Zenon DEF BehindInteger, BehindFraction
  <2>2. QED
    BY <1>1, <1>2, <1>3, <2>1, Zenon
<1> HIDE DEF frac, exp
<1>5. NumberOf(raw, minus, int, frac, exp) = Plain(raw, minus, int)
  BY <1>3, Zenon DEF NumberOf, Plain
<1>6. QED
  BY <1>4, <1>5

\* SkipDigits() stops behind the digits.
LEMMA SkippedIs ==
  ASSUME NEW raw, NEW start, NEW l, NEW v, Spelt(raw, start, l, v), NEW m \in 0..l
  PROVE  SkipDigits(raw, start + m) = start + l
<1>1. l \in Nat /\ start \in Nat /\ Len(raw) + 1 = start + l
  BY DEF Spelt
<1> DEFINE S == {j \in (start + m)..(Len(raw) + 1) : CharAt(raw, j) \notin Digits}
<1>2. ASSUME NEW j \in (start + m)..(start + l), CharAt(raw, j) \notin Digits PROVE j = start + l
  <2>1. j - start \in 0..l /\ start + (j - start) = j
    BY <1>1
  <2>2. ~(j - start < l)
    BY <1>2, <2>1, NumberChars
  <2>3. QED
    BY <1>1, <2>1, <2>2
<1>3. start + l \in (start + m)..(start + l) /\ CharAt(raw, start + l) \notin Digits
  BY <1>1, NumberChars
<1>4. S = {start + l}
  BY <1>1, <1>2, <1>3
<1>5. SkipDigits(raw, start + m) = Min({start + l, start + l})
  BY <1>4 DEF SkipDigits
<1> HIDE DEF S
<1>6. start + l \in Nat
  BY <1>1
<1>7. QED
  BY <1>5, <1>6, MinIs

\* What Integer32() reads.
LEMMA Integer32Is ==
  ASSUME NEW raw, NEW start, NEW l, NEW v, Spelt(raw, start, l, v), v[0] = 0, NEW minus \in BOOLEAN, JsonTextConstants
  PROVE  \E e \in 1..l : /\ Integer32(raw, start, minus) = ReadTo(start, v, e) /\ v[e] <= Limit(minus, Half32)
                         /\ IF CharAt(raw, start) = "0" THEN e = 1 ELSE e = l \/ v[e + 1] > Limit(minus, Half32)
<1> DEFINE c == CharAt(raw, start)
           max == Limit(minus, Half32)
<1>1. l \in Nat /\ l >= 1 /\ start \in Nat /\ 0 \in 0..l /\ 1 \in 0..l /\ 0 < l /\ start + 0 = start /\ 0 + 1 = 1
  BY DEF Spelt
<1>2. c = raw[start] /\ c \in Digits
  BY <1>1, NumberChars
<1>3. v[1] = 10 * 0 + hex_to_bin(c) /\ hex_to_bin(c) \in 0..9
  <2>1. v[0 + 1] = 10 * v[0] + hex_to_bin(raw[start + 0]) /\ hex_to_bin(raw[start + 0]) \in 0..9
    BY <1>1, Zenon DEF Spelt
  <2>2. QED
    BY <1>1, <1>2, <2>1
<1>4. v[1] = hex_to_bin(c)
  BY <1>3
<1>5. max \in Nat /\ v[1] <= max
  <2>1. Half32 \in Nat /\ Half32 >= 10
    BY DEF JsonTextConstants
  <2>2. max = IF minus THEN Half32 ELSE 2 * Half32 - 1
    BY DEF Limit
  <2> HIDE DEF max
  <2>3. max \in Nat /\ max >= 10
    BY <2>1, <2>2
  <2>4. QED
    BY <1>3, <1>4, <2>3
<1>6. CASE c = "0"
  <2>1. v[1] = 0
    BY <1>4, <1>6, DigitValues
  <2>2. Integer32(raw, start, minus) = [n |-> 0, k |-> start + 1]
    BY <1>6, Zenon DEF Integer32
  <2>3. Integer32(raw, start, minus) = ReadTo(start, v, 1)
    BY <2>1, <2>2 DEF ReadTo
  <2>4. 1 \in 1..l
    BY <1>1
  <2>5. QED
    BY <1>5, <1>6, <2>3, <2>4
<1>7. CASE c # "0"
  <2>1. Integer32(raw, start, minus) = Accumulate(raw, start + 1, v[1], max)
    BY <1>4, <1>7, Zenon DEF Integer32
  <2> HIDE DEF max, c
  <2>2. \E e \in 1..l : /\ Accumulate(raw, start + 1, v[1], max) = ReadTo(start, v, e)
                        /\ v[e] <= max /\ (e = l \/ v[e + 1] > max)
    BY <1>1, <1>5, AccumulateTo
  <2>3. QED
    BY <1>7, <2>1, <2>2, Zenon DEF max, c
<1>8. QED
  BY <1>6, <1>7

\* The stage of 64 bits.
LEMMA Integer64Is ==
  ASSUME NEW raw, NEW start, NEW l, NEW v, Spelt(raw, start, l, v), NEW max \in Nat, NEW m \in 1..l, v[m] <= max
  PROVE  \E e \in 1..l : /\ Integer64(raw, Accumulate(raw, start + m, v[m], max))
                            = [n |-> v[e], use64bit |-> TRUE, big |-> e # l, k |-> start + l]
                         /\ v[e] <= max /\ (e = l \/ v[e + 1] > max)
<1>1. l \in Nat /\ m \in 0..l /\ m >= 1
  BY DEF Spelt
<1>2. PICK e \in m..l : /\ Accumulate(raw, start + m, v[m], max) = ReadTo(start, v, e)
                        /\ v[e] <= max /\ (e = l \/ v[e + 1] > max)
  BY <1>1, AccumulateTo
<1>3. e \in 1..l /\ e \in 0..l
  BY <1>1
<1> DEFINE int == ReadTo(start, v, e)
<1>4. int.n = v[e] /\ int.k = start + e
  BY DEF ReadTo
<1> HIDE DEF int
<1>5. (CharAt(raw, start + e) \in Digits) = (e # l)
  <2>1. CASE e = l
    <3>1. CharAt(raw, start + e) \notin Digits
      BY <2>1, NumberChars
    <3>2. QED
      BY <2>1, <3>1
  <2>2. CASE e # l
    <3>1. e < l
      BY <1>1, <1>3, <2>2
    <3>2. CharAt(raw, start + e) \in Digits
      BY <1>3, <3>1, NumberChars
    <3>3. QED
      BY <2>2, <3>2
  <2>3. QED
    BY <2>1, <2>2
<1>6. SkipDigits(raw, start + e) = start + l
  BY <1>3, SkippedIs
<1>7. Integer64(raw, int) = [n |-> v[e], use64bit |-> TRUE, big |-> e # l, k |-> start + l]
  BY <1>4, <1>5, <1>6, Zenon DEF Integer64
<1>8. QED
  BY <1>2, <1>3, <1>7, Zenon DEF int

\* A number is read as the integer x.
InLimit(x, minus, half) == x <= Limit(minus, half)
Exact(type, num, x, minus) ==
  /\ InLimit(x, minus, Half64) <=> type # "Double"
  /\ InLimit(x, minus, Half64) => num = IF minus THEN -x ELSE x
  /\ InLimit(x, minus, Half32) <=> type \in {"Int", "Uint"}

SignOf(raw, start, minus) == minus = (CharAt(raw, 1) = "-") /\ start = IF minus THEN 2 ELSE 1
ReadExactly(N, raw, start, l, v, minus) ==
  /\ N.err = "none" /\ (N.rest <=> (CharAt(raw, start) = "0" /\ l # 1))
  /\ ~N.rest => Exact(N.type, N.num, v[l], minus)

\* The limits, by sign.
LEMMA LimitsAre ==
  ASSUME JsonTextConstants, NEW minus \in BOOLEAN
  PROVE  Limit(minus, Half32) \in Nat /\ Limit(minus, Half64) \in Nat /\ Limit(minus, Half32) <= Limit(minus, Half64)
<1>1. Half32 \in Nat /\ Half64 \in Nat /\ Half32 >= 10 /\ Half64 > Half32
  BY DEF JsonTextConstants
<1>2. CASE minus
  <2>1. Limit(minus, Half32) = Half32 /\ Limit(minus, Half64) = Half64
    BY <1>2 DEF Limit
  <2>2. QED
    BY <1>1, <2>1
<1>3. CASE ~minus
  <2>1. Limit(minus, Half32) = 2 * Half32 - 1 /\ Limit(minus, Half64) = 2 * Half64 - 1
    BY <1>3 DEF Limit
  <2>2. QED
    BY <1>1, <2>1
<1>4. QED
  BY <1>2, <1>3

IsPlain(N, raw, minus, n, wide, big, k) ==
  /\ N.err = "none" /\ (N.rest <=> k <= Len(raw))
  /\ N.type = IF big THEN "Double" ELSE IF minus THEN (IF wide THEN "Int64" ELSE "Int") ELSE (IF wide THEN "Uint64" ELSE "Uint")
  /\ ~big => N.num = IF minus THEN -n ELSE n

\* What ParseNumber() gives for the integer x,
LEMMA PlainIs ==
  ASSUME NEW raw, NEW minus \in BOOLEAN, NEW n, NEW wide \in BOOLEAN, NEW big \in BOOLEAN, NEW k, NEW N
  PROVE  N = Plain(raw, minus, [n |-> n, use64bit |-> wide, big |-> big, k |-> k]) => IsPlain(N, raw, minus, n, wide, big, k)
<1> SUFFICES ASSUME N = Plain(raw, minus, [n |-> n, use64bit |-> wide, big |-> big, k |-> k])
             PROVE  /\ N.err = "none" /\ (N.rest <=> k <= Len(raw))
                    /\ N.type = IF big THEN "Double" ELSE IF minus THEN (IF wide THEN "Int64" ELSE "Int") ELSE (IF wide THEN "Uint64" ELSE "Uint")
                    /\ ~big => N.num = IF minus THEN -n ELSE n
  BY Zenon DEF IsPlain
<1> DEFINE r == (k <= Len(raw))
           type == IF big THEN "Double" ELSE IF minus THEN (IF wide THEN "Int64" ELSE "Int") ELSE (IF wide THEN "Uint64" ELSE "Uint")
           num == IF big THEN 0 ELSE IF minus THEN -n ELSE n
<1>1. N = [err |-> "none", type |-> type, num |-> num, rest |-> r]
  <2>1. CASE big
    BY <2>1, Zenon DEF Plain
  <2>2. CASE ~big /\ minus
    BY <2>2, Zenon DEF Plain
  <2>3. CASE ~big /\ ~minus
    BY <2>3, Zenon DEF Plain
  <2>4. QED
    BY <2>1, <2>2, <2>3
<1> HIDE DEF r, type, num
<1>2. N.err = "none" /\ N.type = type /\ N.num = num
  BY <1>1
<1>3. N.rest <=> r
  <2>1. r = TRUE \/ r = FALSE
    BY DEF r
  <2>2. CASE r = TRUE
    <3>1. N = [err |-> "none", type |-> type, num |-> num, rest |-> TRUE]
      BY <1>1, <2>2, Zenon
    <3>2. N.rest = TRUE
      BY <3>1
    <3>3. QED
      BY <2>2, <3>2, Zenon
  <2>3. CASE r = FALSE
    <3>1. N = [err |-> "none", type |-> type, num |-> num, rest |-> FALSE]
      BY <1>1, <2>3, Zenon
    <3>2. N.rest = FALSE
      BY <3>1
    <3>3. QED
      BY <2>3, <3>2, Zenon
  <2>4. QED
    BY <2>1, <2>2, <2>3
<1>4. ~big => num = IF minus THEN -n ELSE n
  BY DEF num
<1>5. QED
  BY <1>2, <1>3, <1>4, Zenon DEF r, type

\* so each integer that fits is read as itself, and another one as a double.
LEMMA NumberIs ==
  ASSUME NEW raw, NEW start, NEW l, NEW v, Spelt(raw, start, l, v), v[0] = 0, NEW minus \in BOOLEAN,
         JsonTextConstants, SignOf(raw, start, minus)
  PROVE  ReadExactly(ParseNumber(raw), raw, start, l, v, minus)
<1> DEFINE N == ParseNumber(raw)
           c == CharAt(raw, start)
           L32 == Limit(minus, Half32)
           L64 == Limit(minus, Half64)
           x == v[l]
           int == IntegerOf(raw, start, minus, Integer32(raw, start, minus))
<1>1. l \in Nat /\ l >= 1 /\ start \in Nat /\ 0 \in 0..l /\ 1 \in 0..l /\ 0 < l /\ start + 0 = start
      /\ Len(raw) + 1 = start + l /\ Len(raw) \in Nat
  BY DEF Spelt, Sequence
<1>2. c \in Digits
  BY <1>1, NumberChars
<1>3. N = BehindInteger(raw, minus, int)
  <2>1. ~(c \notin Digits)
    BY <1>2
  <2>2. QED
    BY <2>1, Zenon DEF ParseNumber, SignOf
<1> HIDE DEF N
<1>4. L32 \in Nat /\ L64 \in Nat /\ L32 <= L64
  BY LimitsAre
<1>5. PICK e \in 1..l : /\ Integer32(raw, start, minus) = ReadTo(start, v, e) /\ v[e] <= L32
                        /\ IF c = "0" THEN e = 1 ELSE e = l \/ v[e + 1] > L32
  <2> HIDE DEF int
  <2>1. JsonTextConstants /\ v[0] = 0 /\ Spelt(raw, start, l, v) /\ minus \in BOOLEAN
    OBVIOUS
  <2>2. QED
    BY <2>1, Integer32Is
<1>6. \A j \in 0..l : v[j] \in Nat /\ v[j] <= x
  BY ValuesGrow DEF Spelt
<1>7. x \in Nat /\ v[e] \in Nat /\ e \in 0..l /\ e \in Nat
  BY <1>1, <1>6
<1>8. \A k \in 0..l : CharAt(raw, start + k) \notin {".", "e", "E"}
  <2> SUFFICES ASSUME NEW k \in 0..l PROVE CharAt(raw, start + k) \notin {".", "e", "E"}
    OBVIOUS
  <2>1. CharAt(raw, start + k) = "NUL" \/ CharAt(raw, start + k) \in Digits
    <3>1. k = l \/ k < l
      BY <1>1
    <3>2. QED
      BY <3>1, NumberChars
  <2>2. QED
    BY <2>1, DecimalDigits
<1> DEFINE Short(m) == [n |-> v[m], use64bit |-> FALSE, big |-> FALSE, k |-> start + m]
<1>9. ReadTo(start, v, e).n = v[e] /\ ReadTo(start, v, e).k = start + e
  BY DEF ReadTo
<1>10. ASSUME NEW m \in 0..l, NEW wide \in BOOLEAN, NEW big \in BOOLEAN, NEW n, NEW k \in {start + m, start + l},
              int = [n |-> n, use64bit |-> wide, big |-> big, k |-> k]
       PROVE  N = Plain(raw, minus, [n |-> n, use64bit |-> wide, big |-> big, k |-> k])
  <2>1. int.k = k
    BY <1>10
  <2>2. l \in 0..l
    BY <1>1
  <2> HIDE DEF int
  <2>3. CharAt(raw, int.k) \notin {".", "e", "E"}
    BY <1>8, <2>1, <2>2
  <2>4. N = Plain(raw, minus, int)
    BY <1>3, <2>3, PlainNumber
  <2>5. QED
    BY <1>10, <2>4, Zenon
<1> HIDE DEF L32, L64, x
<1>11. CASE c = "0" \/ e = l
  <2>1. int = Short(e)
    <3>1. ~(c # "0" /\ CharAt(raw, start + e) \in Digits)
      BY <1>11, NumberChars
    <3>2. int = IntegerOf(raw, start, minus, ReadTo(start, v, e))
      BY <1>5, Zenon
    <3>3. QED
      BY <1>9, <3>1, <3>2, Zenon DEF IntegerOf
  <2> HIDE DEF int
  <2>2. N = Plain(raw, minus, Short(e))
    BY <1>7, <1>10, <2>1
  <2>3. /\ N.err = "none" /\ (N.rest <=> start + e <= Len(raw)) /\ N.type = (IF minus THEN "Int" ELSE "Uint")
        /\ N.num = IF minus THEN -v[e] ELSE v[e]
    <3>1. IsPlain(N, raw, minus, v[e], FALSE, FALSE, start + e)
      <4>1. FALSE \in BOOLEAN
        OBVIOUS
      <4>2. QED
        BY <2>2, <4>1, PlainIs
    <3>2. QED
      BY <3>1, Zenon DEF IsPlain
  <2>4. N.rest <=> c = "0" /\ l # 1
    <3>1. N.rest <=> start + e <= Len(raw)
      BY <2>3
    <3>2. start + e <= Len(raw) <=> e < l
      BY <1>1, <1>7
    <3>3. e <= l
      BY <1>1
    <3>4. QED
      BY <1>1, <1>5, <1>7, <1>11, <3>1, <3>2, <3>3
  <2>5. ASSUME ~N.rest PROVE Exact(N.type, N.num, v[l], minus)
    <3>1. e = l
      BY <1>5, <1>11, <2>4, <2>5
    <3>2. x = v[e] /\ x <= L32 /\ x <= L64
      BY <1>4, <1>5, <1>7, <3>1 DEF x
    <3>3. N.type # "Double" /\ N.type \in {"Int", "Uint"} /\ N.num = IF minus THEN -x ELSE x
      BY <2>3, <3>2
    <3>4. QED
      BY <3>2, <3>3, Zenon DEF Exact, InLimit, L32, L64, x
  <2>6. QED
    BY <2>3, <2>4, <2>5, Zenon DEF ReadExactly, N
<1>12. CASE c # "0" /\ e # l
  <2>1. e < l /\ v[e + 1] > L32 /\ e + 1 \in 0..l /\ e \in 1..l /\ v[e] <= L64
    BY <1>1, <1>4, <1>5, <1>7, <1>12
  <2>2. int = Integer64(raw, Accumulate(raw, start + e, v[e], L64))
    <3>1. c # "0" /\ CharAt(raw, start + e) \in Digits
      BY <1>7, <1>12, <2>1, NumberChars
    <3>2. int = IntegerOf(raw, start, minus, ReadTo(start, v, e))
      BY <1>5, Zenon
    <3>3. QED
      BY <1>9, <3>1, <3>2, Zenon DEF IntegerOf, L64
  <2> HIDE DEF int
  <2>3. PICK e2 \in 1..l : /\ Integer64(raw, Accumulate(raw, start + e, v[e], L64))
                                = [n |-> v[e2], use64bit |-> TRUE, big |-> e2 # l, k |-> start + l]
                           /\ v[e2] <= L64 /\ (e2 = l \/ v[e2 + 1] > L64)
    BY <1>4, <2>1, Integer64Is
  <2>4. N = Plain(raw, minus, [n |-> v[e2], use64bit |-> TRUE, big |-> e2 # l, k |-> start + l])
    <3>1. (e2 # l) \in BOOLEAN /\ TRUE \in BOOLEAN /\ start + l \in {start + e, start + l}
      OBVIOUS
    <3>2. int = [n |-> v[e2], use64bit |-> TRUE, big |-> e2 # l, k |-> start + l]
      BY <2>2, <2>3, Zenon
    <3>3. QED
      BY <1>7, <1>10, <3>1, <3>2, Zenon
  <2>5. /\ N.err = "none" /\ (N.rest <=> start + l <= Len(raw))
        /\ N.type = (IF e2 # l THEN "Double" ELSE IF minus THEN "Int64" ELSE "Uint64")
        /\ e2 = l => N.num = IF minus THEN -v[e2] ELSE v[e2]
    <3>1. (e2 # l) \in BOOLEAN
      OBVIOUS
    <3>2. IsPlain(N, raw, minus, v[e2], TRUE, e2 # l, start + l)
      <4>1. TRUE \in BOOLEAN
        OBVIOUS
      <4>2. QED
        BY <2>4, <3>1, <4>1, PlainIs
    <3>3. QED
      BY <3>2, Zenon DEF IsPlain
  <2>6. ~N.rest
    <3>1. ~(start + l <= Len(raw))
      BY <1>1
    <3>2. QED
      BY <2>5, <3>1, Zenon
  <2>7. ~(x <= L32)
    <3>1. v[e + 1] \in Nat /\ v[e + 1] <= x
      BY <1>6, <2>1
    <3>2. QED
      BY <1>4, <1>7, <2>1, <3>1
  <2>8. N.type \notin {"Int", "Uint"}
    BY <2>5
  <2>9. CASE e2 = l
    <3>1. x = v[e2] /\ x <= L64
      BY <2>3, <2>9 DEF x
    <3>2. N.type # "Double" /\ N.num = IF minus THEN -x ELSE x
      BY <2>5, <2>9, <3>1
    <3>3. Exact(N.type, N.num, x, minus)
      BY <2>7, <2>8, <3>1, <3>2, Zenon DEF Exact, InLimit, L32, L64
    <3>4. QED
      BY <1>12, <2>5, <2>6, <3>3, Zenon DEF x, N, ReadExactly
  <2>10. CASE e2 # l
    <3>1. e2 + 1 \in 0..l /\ v[e2 + 1] > L64
      BY <1>1, <2>3, <2>10
    <3>2. v[e2 + 1] \in Nat /\ v[e2 + 1] <= x
      BY <1>6, <3>1
    <3>3. ~(x <= L64)
      BY <1>4, <1>7, <3>1, <3>2
    <3>4. N.type = "Double"
      BY <2>5, <2>10
    <3>5. Exact(N.type, N.num, x, minus)
      BY <2>7, <2>8, <3>3, <3>4, Zenon DEF Exact, InLimit, L32, L64
    <3>6. QED
      BY <1>12, <2>5, <2>6, <3>5, Zenon DEF x, N, ReadExactly
  <2>11. QED
    BY <2>9, <2>10
<1>13. QED
  BY <1>11, <1>12

\* The digits of an integer, and what reading it has to give.
DigitsOf(raw) == IF raw[1] = "-" THEN Tail(raw) ELSE raw
FitsIn(raw, n, half) == IF raw[1] = "-" THEN n <= half ELSE n < 2 * half
IntegerRead(raw, type, num) ==
  LET n == Decimal(DigitsOf(raw))
  IN /\ DigitsOf(raw)[1] # "0" \/ Len(DigitsOf(raw)) = 1
     /\ FitsIn(raw, n, Half64) <=> type # "Double"
     /\ FitsIn(raw, n, Half64) => num = IF raw[1] = "-" THEN -n ELSE n
     /\ FitsIn(raw, n, Half32) <=> type \in {"Int", "Uint"}

AreDigits(digits, raw, start, l) == \A j \in 1..l : digits[j] = raw[(start + j) - 1] /\ digits[j] \in Digits

\* The digits of an integer spell its value.
LEMMA SpeltDigits ==
  ASSUME NEW raw, Sequence(raw), NEW digits, Sequence(digits), NEW start, start \in {1, 2}, NEW l
  PROVE  l \in Nat /\ l >= 1 /\ l = Len(digits) /\ Len(raw) + 1 = start + l /\ AreDigits(digits, raw, start, l)
         => \E v : Spelt(raw, start, l, v) /\ v[0] = 0 /\ Decimal(digits) = v[l]
<1> SUFFICES ASSUME l \in Nat, l >= 1, l = Len(digits), Len(raw) + 1 = start + l,
                    \A j \in 1..l : digits[j] = raw[(start + j) - 1] /\ digits[j] \in Digits
             PROVE  \E v : Spelt(raw, start, l, v) /\ v[0] = 0 /\ Decimal(digits) = v[l]
  BY Zenon DEF AreDigits
<1>1. PICK v : /\ Decimal(digits) = v[l] /\ v[0] = 0 /\ \A j \in 0..l : v[j] \in Nat
               /\ \A j \in 0..l : j < l => v[j + 1] = 10 * v[j] + hex_to_bin(digits[j + 1])
  BY DecimalAre, ZenonT(60)
<1>2. ASSUME NEW j \in 0..l, j < l
      PROVE  /\ raw[start + j] \in Digits /\ v[j + 1] = 10 * v[j] + hex_to_bin(raw[start + j])
             /\ hex_to_bin(raw[start + j]) \in 0..9
  <2>1. j + 1 \in 1..l /\ (start + (j + 1)) - 1 = start + j
    BY <1>2
  <2>2. digits[j + 1] = raw[start + j] /\ digits[j + 1] \in Digits
    BY <2>1
  <2>3. hex_to_bin(raw[start + j]) \in 0..9
    BY <2>2, DecimalDigits
  <2>4. v[j + 1] = 10 * v[j] + hex_to_bin(digits[j + 1])
    BY <1>1, <1>2
  <2>5. QED
    BY <2>2, <2>3, <2>4
<1>3. Spelt(raw, start, l, v)
  BY <1>1, <1>2 DEF Spelt
<1>4. QED
  BY <1>1, <1>3

\* A sequence without its first element.
LEMMA TailIs ==
  ASSUME NEW s, Sequence(s), Len(s) >= 1
  PROVE  Sequence(Tail(s)) /\ Len(Tail(s)) + 1 = Len(s) /\ \A k \in 1..Len(Tail(s)) : Tail(s)[k] = s[k + 1]
<1>1. PICK S : s \in Seq(S)
  BY DEF Sequence
<1>2. s # <<>>
  BY DEF Sequence
<1>3. /\ Tail(s) \in Seq(S) /\ Len(Tail(s)) = Len(s) - 1 /\ \A k \in 1..Len(Tail(s)) : Tail(s)[k] = s[k + 1]
  BY <1>1, <1>2, HeadTailProperties
<1>4. Sequence(Tail(s))
  BY <1>3 DEF Sequence
<1>5. QED
  BY <1>1, <1>3, <1>4 DEF Sequence

\* An integer that is accepted is read as what it is.
LEMMA IntegerExact ==
  ASSUME NEW raw, Sequence(raw), JsonTextConstants, ParseNumber(raw).err = "none", ~ParseNumber(raw).rest,
         \A j \in 1..Len(DigitsOf(raw)) : DigitsOf(raw)[j] \in Digits
  PROVE  IntegerRead(raw, ParseNumber(raw).type, ParseNumber(raw).num)
<1> DEFINE minus == (CharAt(raw, 1) = "-")
           start == IF minus THEN 2 ELSE 1
           digits == DigitsOf(raw)
           l == Len(digits)
           N == ParseNumber(raw)
<1>1. CharAt(raw, start) \in Digits
  <2>1. SUFFICES ASSUME CharAt(raw, start) \notin Digits PROVE FALSE
    OBVIOUS
  <2>2. N = [err |-> "ValueInvalid", type |-> "none", num |-> 0, rest |-> FALSE]
    BY <2>1, Zenon DEF ParseNumber
  <2>3. N.err = "ValueInvalid"
    BY <2>2
  <2>4. QED
    BY <2>3
<1>2. Len(raw) \in Nat /\ start \in {1, 2} /\ start <= Len(raw) /\ 1 <= Len(raw)
  <2>1. Len(raw) \in Nat /\ start \in {1, 2}
    BY DEF Sequence
  <2>2. start <= Len(raw)
    <3>1. "NUL" \notin Digits
      BY DecimalDigits
    <3> HIDE DEF start
    <3>2. QED
      BY <1>1, <3>1 DEF CharAt
  <2>3. QED
    BY <2>1, <2>2
<1>3. minus <=> raw[1] = "-"
  BY <1>2 DEF CharAt
<1>4. Sequence(digits) /\ l \in Nat /\ l >= 1 /\ Len(raw) + 1 = start + l /\ \A j \in 1..l : digits[j] = raw[(start + j) - 1]
  <2>1. CASE minus
    <3>1. digits = Tail(raw) /\ start = 2
      BY <1>3, <2>1 DEF DigitsOf
    <3> DEFINE t == Tail(raw)
    <3>2. Sequence(t) /\ Len(t) + 1 = Len(raw) /\ \A k \in 1..Len(t) : t[k] = raw[k + 1]
      BY <1>2, TailIs
    <3>3. Len(t) \in Nat
      BY <3>2 DEF Sequence
    <3> HIDE DEF t
    <3>4. Len(t) >= 1 /\ Len(raw) + 1 = 2 + Len(t) /\ \A j \in 1..Len(t) : t[j] = raw[(2 + j) - 1]
      <4>1. \A j \in 1..Len(t) : (2 + j) - 1 = j + 1
        OBVIOUS
      <4>2. \A j \in 1..Len(t) : t[j] = raw[(2 + j) - 1]
        BY <3>2, <4>1
      <4>3. Len(raw) >= 2
        BY <1>2, <3>1
      <4>4. QED
        BY <1>2, <3>2, <3>3, <4>2, <4>3
    <3>5. digits = t /\ l = Len(t)
      BY <3>1 DEF t
    <3> HIDE DEF digits, l, start
    <3>6. QED
      BY <3>1, <3>2, <3>3, <3>4, <3>5
  <2>2. CASE ~minus
    <3>1. digits = raw /\ start = 1
      BY <1>3, <2>2 DEF DigitsOf
    <3>2. \A j \in 1..Len(raw) : (1 + j) - 1 = j
      OBVIOUS
    <3>3. l = Len(raw)
      BY <3>1
    <3> HIDE DEF digits, l, start
    <3>4. QED
      BY <1>2, <3>1, <3>2, <3>3
  <2>3. QED
    BY <2>1, <2>2
<1>5. \A j \in 1..l : digits[j] \in Digits
  OBVIOUS
<1>9. N.err = "none" /\ ~N.rest /\ minus \in BOOLEAN /\ SignOf(raw, start, minus)
  BY DEF SignOf
<1> HIDE DEF digits, l, start, minus, N
<1>6. PICK v : Spelt(raw, start, l, v) /\ v[0] = 0 /\ Decimal(digits) = v[l]
  <2>1. AreDigits(digits, raw, start, l)
    BY <1>4, <1>5 DEF AreDigits
  <2>2. l \in Nat /\ l >= 1 /\ Len(raw) + 1 = start + l /\ start \in {1, 2} /\ Sequence(digits)
    BY <1>2, <1>4
  <2>3. l = Len(digits)
    BY Zenon DEF l
  <2>4. l \in Nat /\ l >= 1 /\ l = Len(digits) /\ Len(raw) + 1 = start + l /\ AreDigits(digits, raw, start, l)
         => \E v : Spelt(raw, start, l, v) /\ v[0] = 0 /\ Decimal(digits) = v[l]
    BY <2>2, SpeltDigits
  <2>5. QED
    BY <2>1, <2>2, <2>3, <2>4, Zenon
<1>7. ReadExactly(N, raw, start, l, v, minus)
  BY <1>6, <1>9, NumberIs DEF N
<1> DEFINE x == v[l]
<1>8. Exact(N.type, N.num, x, minus) /\ ~(CharAt(raw, start) = "0" /\ l # 1)
  BY <1>7, <1>9, Zenon DEF ReadExactly
<1>10. x \in Nat /\ Half32 \in Nat /\ Half64 \in Nat
  BY <1>4, <1>6 DEF Spelt, JsonTextConstants
<1>11. digits[1] = CharAt(raw, start)
  <2>1. 1 \in 1..l /\ (start + 1) - 1 = start
    BY <1>2, <1>4
  <2>2. digits[1] = raw[start]
    BY <1>4, <2>1
  <2>3. CharAt(raw, start) = raw[start]
    BY <1>2 DEF CharAt
  <2>4. QED
    BY <2>2, <2>3
<1>12. Decimal(digits) = x
  BY <1>6
<1> HIDE DEF x
<1>13. \A half \in Nat : FitsIn(raw, x, half) <=> InLimit(x, minus, half)
  <2> SUFFICES ASSUME NEW half \in Nat PROVE FitsIn(raw, x, half) <=> InLimit(x, minus, half)
    OBVIOUS
  <2>1. CASE minus
    BY <1>3, <2>1 DEF FitsIn, InLimit, Limit
  <2>2. CASE ~minus
    <3>1. FitsIn(raw, x, half) <=> x < 2 * half
      BY <1>3, <2>2 DEF FitsIn
    <3>2. InLimit(x, minus, half) <=> x <= 2 * half - 1
      BY <2>2 DEF InLimit, Limit
    <3>3. x < 2 * half <=> x <= 2 * half - 1
      BY <1>10
    <3>4. QED
      BY <3>1, <3>2, <3>3
  <2>3. QED
    BY <2>1, <2>2
<1>14. InLimit(x, minus, Half64) => N.num = IF raw[1] = "-" THEN -x ELSE x
  BY <1>3, <1>8 DEF Exact
<1>15. /\ FitsIn(raw, x, Half64) <=> N.type # "Double"
       /\ FitsIn(raw, x, Half64) => N.num = IF raw[1] = "-" THEN -x ELSE x
       /\ FitsIn(raw, x, Half32) <=> N.type \in {"Int", "Uint"}
  BY <1>8, <1>10, <1>13, <1>14, Zenon DEF Exact
<1>16. digits[1] # "0" \/ l = 1
  BY <1>8, <1>11
<1>17. QED
  BY <1>12, <1>15, <1>16, Zenon DEF IntegerRead, digits, l, N

------------------------------------------------------------------------------
(* A request that is a number                                               *)

\* What is read of a number.
LEMMA ScalarNumber ==
  ASSUME NEW token, token.t = "number"
  PROVE  /\ Scalar(token).err = ParseNumber(token.raw).err /\ (Scalar(token).rest <=> ParseNumber(token.raw).rest)
         /\ Scalar(token).value = [kind |-> ParseNumber(token.raw).type, num |-> ParseNumber(token.raw).num]
<1> DEFINE N == ParseNumber(token.raw)
           e == N.err
           v == [kind |-> N.type, num |-> N.num]
           b == N.rest
<1>1. Scalar(token) = [err |-> e, value |-> v, rest |-> b]
  BY DEF Scalar
<1> HIDE DEF N, e, v, b
<1>2. Scalar(token).err = e /\ Scalar(token).value = v /\ Scalar(token).rest = b
  BY <1>1
<1>3. QED
  BY <1>2 DEF N, e, v, b

\* The figure the Writer writes.
LEMMA FigureRead ==
  ASSUME JsonTextConstants
  PROVE  Scalar(Figure1).err = "none" /\ ~Scalar(Figure1).rest
<1> DEFINE raw == <<"1">>
<1>1. Sequence(raw) /\ Len(raw) = 1 /\ raw[1] = "1" /\ "1" \in Digits
  BY SeqOne, DecimalDigits
<1>2. CharAt(raw, 1) = "1"
  BY <1>1 DEF CharAt
<1> HIDE DEF raw
<1>3. AreDigits(raw, raw, 1, 1)
  <2>1. ASSUME NEW j \in 1..1 PROVE raw[j] = raw[(1 + j) - 1] /\ raw[j] \in Digits
    <3>1. j = 1 /\ (1 + j) - 1 = j
      OBVIOUS
    <3>2. QED
      BY <1>1, <3>1
  <2>2. QED
    BY <2>1 DEF AreDigits
<1>4. PICK v : Spelt(raw, 1, 1, v) /\ v[0] = 0 /\ Decimal(raw) = v[1]
  <2>1. 1 \in {1, 2} /\ 1 \in Nat /\ 1 >= 1 /\ 1 = Len(raw) /\ Len(raw) + 1 = 1 + 1
    BY <1>1
  <2>2. QED
    <3>1. 1 \in Nat /\ 1 >= 1 /\ 1 = Len(raw) /\ Len(raw) + 1 = 1 + 1 /\ AreDigits(raw, raw, 1, 1)
          => \E v : Spelt(raw, 1, 1, v) /\ v[0] = 0 /\ Decimal(raw) = v[1]
      <4> DEFINE start == 1
                 l == 1
      <4>1. Sequence(raw) /\ start \in {1, 2}
        BY <1>1
      <4> HIDE DEF start, l
      <4>2. l \in Nat /\ l >= 1 /\ l = Len(raw) /\ Len(raw) + 1 = start + l /\ AreDigits(raw, raw, start, l)
            => \E v : Spelt(raw, start, l, v) /\ v[0] = 0 /\ Decimal(raw) = v[l]
        BY <4>1, SpeltDigits
      <4>3. QED
        BY <4>2, Zenon DEF start, l
    <3>2. QED
      BY <1>3, <2>1, <3>1, Zenon
<1>5. SignOf(raw, 1, FALSE) /\ FALSE \in BOOLEAN
  BY <1>2 DEF SignOf
<1>6. ReadExactly(ParseNumber(raw), raw, 1, 1, v, FALSE)
  BY <1>4, <1>5, NumberIs
<1>7. ParseNumber(raw).err = "none" /\ ~ParseNumber(raw).rest
  BY <1>6 DEF ReadExactly
<1>8. Figure1.t = "number" /\ Figure1.raw = raw
  BY DEF Figure1, raw
<1>9. QED
  BY <1>7, <1>8, ScalarNumber

\* A number that stands alone.
Alone(place) == <<[in |-> "root", at |-> place, n |-> 1]>>
ReadsNumber(toks, r) ==
  toks # <<>> /\ toks[1].t = "number" =>
    /\ Len(toks) = 1 /\ ~r.done =>
         /\ Scalar(toks[1]).err = "none"
         /\ r = Reading(Alone(IF Scalar(toks[1]).rest THEN "rest" ELSE "behind"), <<Scalar(toks[1]).value>>)
    /\ Len(toks) = 2 /\ r.done /\ r.err = "none" =>
         Scalar(toks[1]).err = "none" /\ ~Scalar(toks[1]).rest /\ Head(r.doc) = Scalar(toks[1]).value

\* The root alone.
LEMMA RootFits ==
  ASSUME NEW place, NEW n \in Nat, place \in {"first", "behind", "rest"}, place # "first" => n >= 1
  PROVE  FramesFit(<<[in |-> "root", at |-> place, n |-> n]>>)
<1> DEFINE f == [in |-> "root", at |-> place, n |-> n]
           F == <<f>>
<1>1. IsFrame(f) /\ f.in = "root"
  BY DEF IsFrame
<1> HIDE DEF f
<1>2. Sequence(F) /\ F # <<>> /\ Len(F) = 1 /\ F[1] = f
  BY SeqOne
<1> HIDE DEF F
<1>3. ASSUME NEW k \in 1..Len(F) PROVE IsFrame(F[k]) /\ (F[k].in = "root" <=> k = 1) /\ (k < Len(F) => Awaits(F[k]))
  <2>1. k = 1 /\ ~(k < Len(F))
    BY <1>2
  <2>2. QED
    BY <1>1, <1>2, <2>1
<1>4. FramesFit(F)
  BY <1>2, <1>3 DEF FramesFit
<1>5. QED
  BY <1>4 DEF F, f

\* It is the last of one.
LEMMA RootLast ==
  ASSUME NEW f PROVE Last(<<f>>) = f /\ Front(<<f>>) = <<>> /\ Append(Front(<<f>>), f) = <<f>>
<1>1. Sequence(<<>>) /\ <<f>> = Append(<<>>, f)
  BY SeqOne
<1>2. Last(Append(<<>>, f)) = f /\ Front(Append(<<>>, f)) = <<>>
  BY <1>1, SeqAppended
<1>3. QED
  BY <1>1, <1>2, Zenon

\* A number that is the first token is read, or refused,
LEMMA NumberFirst ==
  ASSUME NEW token, token.t = "number", NEW r2, r2 = ParseNext(FreshReader, token), ~r2.done
  PROVE  /\ Scalar(token).err = "none"
         /\ r2 = Reading(Alone(IF Scalar(token).rest THEN "rest" ELSE "behind"), <<Scalar(token).value>>)
<1> DEFINE f == Frame("root")
           F == <<f>>
           doc == <<>>
           r == Reading(F, doc)
<1>1. f.in = "root" /\ f.at = "first" /\ f.n = 0 /\ f = [in |-> "root", at |-> "first", n |-> 0]
  BY DEF Frame
<1>2. FramesFit(F)
  <2>1. FramesFit(<<[in |-> "root", at |-> "first", n |-> 0]>>)
    BY RootFits
  <2>2. QED
    BY <1>1, <2>1, Zenon
<1>3. Last(F) = f /\ Front(F) = <<>>
  BY RootLast
<1>4. r2 = ParseNext(Reading(F, doc), token)
  BY DEF FreshReader
<1> HIDE DEF f, F, doc
<1>5. \/ Refuses(r2) \/ BeginsValue(F, doc, token, r2) \/ Takes(F, doc, token, r2) \/ NamesMember(F, doc, token, r2)
      \/ Passes(F, doc, token, r2) \/ Ends(F, doc, token, r2) \/ Stops(F, doc, token, r2)
  BY <1>2, <1>4, NextSteps
<1>6. ~Refuses(r2) /\ ~Stops(F, doc, token, r2)
  BY DEF Refuses, Stops
<1>7. ~BeginsValue(F, doc, token, r2)
  BY DEF BeginsValue
<1>8. ~NamesMember(F, doc, token, r2) /\ ~Passes(F, doc, token, r2)
  BY <1>1, <1>3 DEF NamesMember, Passes
<1>9. ~Ends(F, doc, token, r2)
  BY <1>1, <1>3 DEF Ends
<1>10. Takes(F, doc, token, r2)
  BY <1>5, <1>6, <1>7, <1>8, <1>9
<1> DEFINE v == Scalar(token).value
<1>11. PICK place \in {"behind", "rest"} :
         /\ (place = "rest") = Scalar(token).rest
         /\ r2 = Reading(Append(Front(F), [in |-> Last(F).in, at |-> place, n |-> Last(F).n + 1]), Append(doc, v))
  BY <1>10, Zenon DEF Takes
<1>12. Scalar(token).err = "none"
  BY <1>10, Zenon DEF Takes
<1> HIDE DEF v
<1>13. place = IF Scalar(token).rest THEN "rest" ELSE "behind"
  BY <1>11
<1>14. Append(doc, v) = <<v>>
  BY SeqOne DEF doc
<1>15. Append(Front(F), [in |-> Last(F).in, at |-> place, n |-> Last(F).n + 1]) = Alone(place)
  <2>1. [in |-> Last(F).in, at |-> place, n |-> Last(F).n + 1] = [in |-> "root", at |-> place, n |-> 1]
    <3>1. Last(F).in = "root" /\ Last(F).n + 1 = 1
      BY <1>1, <1>3
    <3>2. QED
      BY <3>1, Zenon
  <2>2. Append(<<>>, [in |-> "root", at |-> place, n |-> 1]) = <<[in |-> "root", at |-> place, n |-> 1]>>
    BY SeqOne
  <2>3. QED
    BY <1>3, <2>1, <2>2, Zenon DEF Alone
<1>16. QED
  BY <1>11, <1>12, <1>13, <1>14, <1>15, Zenon DEF v

\* and the end behind it is accepted only if nothing of it is left.
LEMMA NumberSecond ==
  ASSUME NEW v, NEW place, place \in {"behind", "rest"}, NEW token, NEW r2,
         r2 = ParseNext(Reading(Alone(place), <<v>>), token), r2.done, r2.err = "none"
  PROVE  place = "behind" /\ Head(r2.doc) = v
<1> DEFINE F == Alone(place)
           doc == <<v>>
<1>1. FramesFit(F) /\ Last(F).at = place
  BY RootFits, RootLast DEF Alone
<1> HIDE DEF F, doc
<1>2. r2 = ParseNext(Reading(F, doc), token)
  BY DEF F, doc
<1>3. \/ Refuses(r2) \/ BeginsValue(F, doc, token, r2) \/ Takes(F, doc, token, r2) \/ NamesMember(F, doc, token, r2)
      \/ Passes(F, doc, token, r2) \/ Ends(F, doc, token, r2) \/ Stops(F, doc, token, r2)
  BY <1>1, <1>2, NextSteps
<1>4. ~Refuses(r2)
  BY DEF Refuses
<1>5. \A G, d : r2 # Reading(G, d)
  BY ReadingOn
<1>6. Stops(F, doc, token, r2)
  <2>1. SUFFICES ASSUME ~Stops(F, doc, token, r2) PROVE FALSE
    OBVIOUS
  <2>2. \/ BeginsValue(F, doc, token, r2) \/ Takes(F, doc, token, r2) \/ NamesMember(F, doc, token, r2)
        \/ Passes(F, doc, token, r2) \/ Ends(F, doc, token, r2)
    BY <1>3, <1>4, <2>1
  <2>3. \E G, d : r2 = Reading(G, d)
    <3>1. ~BeginsValue(F, doc, token, r2)
      BY <1>5, Zenon DEF BeginsValue
    <3>2. ~Takes(F, doc, token, r2)
      <4> SUFFICES ASSUME Takes(F, doc, token, r2) PROVE FALSE
        OBVIOUS
      <4>1. PICK at2 : r2 = Reading(Append(Front(F), [in |-> Last(F).in, at |-> at2, n |-> Last(F).n + 1]), Append(doc, Scalar(token).value))
        BY DEF Takes
      <4>2. QED
        BY <1>5, <4>1, Zenon
    <3>3. ~NamesMember(F, doc, token, r2)
      BY <1>5, Zenon DEF NamesMember
    <3>4. ~Passes(F, doc, token, r2)
      BY <1>5, Zenon DEF Passes
    <3>5. ~Ends(F, doc, token, r2)
      BY <1>5, Zenon DEF Ends
    <3>6. QED
      BY <2>2, <3>1, <3>2, <3>3, <3>4, <3>5
  <2>4. QED
    BY <1>5, <2>3, Zenon
<1>7. place = "behind" /\ r2.doc = doc
  BY <1>1, <1>6 DEF Stops
<1>8. Head(doc) = v
  BY DEF doc
<1>9. QED
  BY <1>7, <1>8

------------------------------------------------------------------------------
(* The steps of a text that is accepted                                     *)

\* What may come next in a frame.
CanFollow(f, token) ==
  \/ Awaits(f) /\ token.t \in {"LeftCurly", "LeftBracket"}
  \/ Awaits(f) /\ token.t \in Scalars /\ Scalar(token).err = "none"
  \/ f.in = "object" /\ f.at \in {"first", "name"} /\ token.t = "string" /\ Scalar(token).err = "none"
  \/ f.in = "object" /\ f.at = "colon" /\ token.t = "Colon"
  \/ f.in \in {"array", "object"} /\ f.at = "behind" /\ token.t = "Comma"
  \/ f.in = "object" /\ f.at \in {"first", "behind"} /\ token.t = "RightCurly"
  \/ f.in = "array" /\ f.at \in {"first", "behind"} /\ token.t = "RightBracket"
  \/ f.in = "root" /\ f.at = "behind" /\ token.t = "end"

\* A value is accepted where one is awaited,
LEMMA ValueAccepted ==
  ASSUME NEW r, NEW token, NEW s, token.t \in {"LeftCurly", "LeftBracket"} \/ (token.t \in Scalars /\ s.err = "none")
  PROVE  ParseValue(r, token, s).err = "none"
<1>1. CASE token.t \in {"LeftCurly", "LeftBracket"}
  <2>1. ParseValue(r, token, s) = Reading(Append(r.frames, Frame(IF token.t = "LeftCurly" THEN "object" ELSE "array")),
                                          Append(r.doc, [kind |-> "open"]))
    BY <1>1, ValueParsed
  <2>2. QED
    BY <2>1, ReadingIs
<1>2. CASE token.t \in Scalars /\ s.err = "none"
  <2>1. ParseValue(r, token, s) = Counted(r.frames, Append(r.doc, s.value), IF s.rest THEN "rest" ELSE "behind")
    BY <1>2, ValueParsed
  <2>2. QED
    BY <2>1, ReadingIs DEF Counted
<1>3. QED
  BY <1>1, <1>2

\* a token that may come next in an object,
LEMMA ObjectAccepted ==
  ASSUME NEW r, NEW token, NEW f, f = Inner(r), IsFrame(f), f.in = "object", CanFollow(f, token)
  PROVE  ParseObject(r, token, Scalar(token)).err = "none"
<1> DEFINE s == Scalar(token)
<1>1. f.at \in {"first", "name", "colon", "value", "behind", "rest"}
  BY DEF IsFrame
<1>2. /\ f.at = "value" => token.t \in {"LeftCurly", "LeftBracket"} \/ (token.t \in Scalars /\ s.err = "none")
      /\ f.at = "name" => token.t = "string" /\ s.err = "none"
      /\ f.at = "first" => token.t = "RightCurly" \/ (token.t = "string" /\ s.err = "none")
      /\ f.at = "colon" => token.t = "Colon"
      /\ f.at = "behind" => token.t \in {"Comma", "RightCurly"}
      /\ f.at # "rest"
  BY <1>1 DEF CanFollow, Awaits
<1> HIDE DEF s
<1>3. ASSUME token.t = "string" /\ s.err = "none" PROVE Name(r, token, s).err = "none"
  <2>1. Name(r, token, s) = Goes(r, Append(r.doc, s.value), "colon")
    BY <1>3 DEF Name
  <2>2. QED
    BY <2>1, ReadingIs DEF Goes
<1>4. Goes(r, r.doc, "name").err = "none" /\ Goes(r, r.doc, "value").err = "none" /\ \A d : Ended(r, d).err = "none"
  BY ReadingIs DEF Goes, Ended, Counted
<1>5. CASE f.at = "value"
  <2>1. ParseObject(r, token, s) = ParseValue(r, token, s)
    BY <1>1, <1>5, ParseObjectIs
  <2>2. ParseValue(r, token, s).err = "none"
    BY <1>2, <1>5, ValueAccepted
  <2>3. QED
    BY <2>1, <2>2 DEF s
<1>6. CASE f.at = "name"
  <2>1. ParseObject(r, token, s) = Name(r, token, s)
    BY <1>1, <1>6, ParseObjectIs
  <2>2. QED
    BY <1>2, <1>3, <1>6, <2>1 DEF s
<1>7. CASE f.at = "first" /\ token.t # "RightCurly"
  <2>1. ParseObject(r, token, s) = Name(r, token, s)
    BY <1>1, <1>7, ParseObjectIs
  <2>2. QED
    BY <1>2, <1>3, <1>7, <2>1 DEF s
<1>8. CASE f.at \in {"first", "behind"} /\ token.t = "RightCurly"
  <2>1. ParseObject(r, token, s) = Ended(r, EndObject(r.doc, f.n))
    BY <1>1, <1>8, ParseObjectIs
  <2>2. QED
    BY <1>4, <2>1 DEF s
<1>9. CASE f.at = "colon"
  <2>1. ParseObject(r, token, s) = Goes(r, r.doc, "value")
    BY <1>1, <1>2, <1>9, ParseObjectIs
  <2>2. QED
    BY <1>4, <2>1 DEF s
<1>10. CASE f.at = "behind" /\ token.t = "Comma"
  <2>1. ParseObject(r, token, s) = Goes(r, r.doc, "name")
    BY <1>1, <1>10, ParseObjectIs
  <2>2. QED
    BY <1>4, <2>1 DEF s
<1>11. QED
  BY <1>1, <1>2, <1>5, <1>6, <1>7, <1>8, <1>9, <1>10

\* in an array,
LEMMA ArrayAccepted ==
  ASSUME NEW r, NEW token, NEW f, f = Inner(r), IsFrame(f), f.in = "array", CanFollow(f, token)
  PROVE  ParseArray(r, token, Scalar(token)).err = "none"
<1> DEFINE s == Scalar(token)
<1>1. f.at \in {"first", "value", "behind", "rest"}
  BY DEF IsFrame
<1>2. /\ f.at = "value" => token.t \in {"LeftCurly", "LeftBracket"} \/ (token.t \in Scalars /\ s.err = "none")
      /\ f.at = "first" => token.t = "RightBracket" \/ token.t \in {"LeftCurly", "LeftBracket"} \/ (token.t \in Scalars /\ s.err = "none")
      /\ f.at = "behind" => token.t \in {"Comma", "RightBracket"}
      /\ f.at # "rest"
  BY <1>1 DEF CanFollow, Awaits
<1> HIDE DEF s
<1>4. Goes(r, r.doc, "value").err = "none" /\ \A d : Ended(r, d).err = "none"
  BY ReadingIs DEF Goes, Ended, Counted
<1>5. CASE f.at = "value" \/ (f.at = "first" /\ token.t # "RightBracket")
  <2>1. ParseArray(r, token, s) = ParseValue(r, token, s)
    BY <1>1, <1>5, ParseArrayIs
  <2>2. token.t \in {"LeftCurly", "LeftBracket"} \/ (token.t \in Scalars /\ s.err = "none")
    BY <1>2, <1>5
  <2>3. ParseValue(r, token, s).err = "none"
    BY <2>2, ValueAccepted
  <2>4. QED
    BY <2>1, <2>3 DEF s
<1>6. CASE f.at \in {"first", "behind"} /\ token.t = "RightBracket"
  <2>1. ParseArray(r, token, s) = Ended(r, EndArray(r.doc, f.n))
    BY <1>1, <1>6, ParseArrayIs
  <2>2. QED
    BY <1>4, <2>1 DEF s
<1>7. CASE f.at = "behind" /\ token.t = "Comma"
  <2>1. ParseArray(r, token, s) = Goes(r, r.doc, "value")
    BY <1>1, <1>7, ParseArrayIs
  <2>2. QED
    BY <1>4, <2>1 DEF s
<1>8. QED
  BY <1>1, <1>2, <1>5, <1>6, <1>7

\* What may come next is accepted.
LEMMA NextAccepted ==
  ASSUME NEW F, FramesFit(F), NEW doc, NEW token, CanFollow(Last(F), token)
  PROVE  ParseNext(Reading(F, doc), token).err = "none"
<1> DEFINE r == Reading(F, doc)
           f == Last(F)
           s == Scalar(token)
<1>1. ~r.done /\ Inner(r) = f /\ r.err = "none"
  BY DEF Reading, Inner
<1>2. IsFrame(f)
  BY FramesParts
<1>3. CanFollow(f, token)
  OBVIOUS
<1> HIDE DEF r, f, s
<1>4. ParseNext(r, token) = Parse(r, token, s)
  BY DEF ParseNext, s
<1>5. CASE f.in = "object"
  <2>1. Parse(r, token, s) = ParseObject(r, token, s)
    BY <1>1, <1>5 DEF Parse
  <2>2. ParseObject(r, token, s).err = "none"
    BY <1>1, <1>2, <1>3, <1>5, ObjectAccepted DEF s
  <2>3. QED
    BY <1>4, <2>1, <2>2 DEF r
<1>6. CASE f.in = "array"
  <2>1. Parse(r, token, s) = ParseArray(r, token, s)
    BY <1>1, <1>6 DEF Parse
  <2>2. ParseArray(r, token, s).err = "none"
    BY <1>1, <1>2, <1>3, <1>6, ArrayAccepted DEF s
  <2>3. QED
    BY <1>4, <2>1, <2>2 DEF r
<1>7. CASE f.in = "root"
  <2>1. Parse(r, token, s) = ParseRoot(r, token, s)
    BY <1>1, <1>7 DEF Parse
  <2>2. \/ f.at = "first" /\ (token.t \in {"LeftCurly", "LeftBracket"} \/ (token.t \in Scalars /\ s.err = "none"))
        \/ f.at = "behind" /\ token.t = "end"
    BY <1>3, <1>7 DEF CanFollow, Awaits, s
  <2>3. CASE f.at = "first"
    <3>1. token.t # "end" /\ (token.t \in {"LeftCurly", "LeftBracket"} \/ (token.t \in Scalars /\ s.err = "none"))
      BY <2>2, <2>3 DEF Scalars
    <3>2. ParseRoot(r, token, s) = ParseValue(r, token, s)
      BY <1>1, <2>3, <3>1 DEF ParseRoot
    <3>3. ParseValue(r, token, s).err = "none"
      BY <3>1, ValueAccepted
    <3>4. QED
      BY <1>4, <2>1, <3>2, <3>3 DEF r
  <2>4. CASE f.at = "behind"
    <3>1. token.t = "end"
      BY <2>2, <2>4
    <3>2. ParseRoot(r, token, s) = [r EXCEPT !.done = TRUE]
      BY <1>1, <2>4, <3>1 DEF ParseRoot
    <3>3. [r EXCEPT !.done = TRUE].err = "none"
      BY DEF r, Reading
    <3>4. QED
      BY <1>4, <2>1, <3>2, <3>3 DEF r
  <2>5. QED
    BY <2>2, <2>3, <2>4
<1>8. f.in \in {"object", "array", "root"}
  BY <1>2 DEF IsFrame
<1>9. QED
  BY <1>5, <1>6, <1>7, <1>8

\* What each token does where it may come next.
LEMMA StepOf ==
  ASSUME NEW F, FramesFit(F), NEW doc, NEW token, CanFollow(Last(F), token), NEW r2, r2 = ParseNext(Reading(F, doc), token)
  PROVE  /\ r2.err = "none"
         /\ \/ BeginsValue(F, doc, token, r2) \/ Takes(F, doc, token, r2) \/ NamesMember(F, doc, token, r2)
            \/ Passes(F, doc, token, r2) \/ Ends(F, doc, token, r2) \/ Stops(F, doc, token, r2)
<1>1. r2.err = "none"
  BY NextAccepted
<1>2. ~Refuses(r2)
  BY <1>1 DEF Refuses
<1>3. QED
  BY <1>1, <1>2, NextSteps

\* The guards of the kinds of steps.
LEMMA Guards ==
  ASSUME NEW F, NEW doc, NEW token, NEW r2
  PROVE  /\ BeginsValue(F, doc, token, r2) => Awaits(Last(F)) /\ token.t \in {"LeftCurly", "LeftBracket"}
         /\ Takes(F, doc, token, r2) => Awaits(Last(F)) /\ token.t \in Scalars
         /\ NamesMember(F, doc, token, r2) => Last(F).in = "object" /\ Last(F).at \in {"first", "name"} /\ token.t = "string"
         /\ Passes(F, doc, token, r2) => token.t \in {"Colon", "Comma"}
         /\ Ends(F, doc, token, r2) => token.t \in {"RightCurly", "RightBracket"}
         /\ Stops(F, doc, token, r2) => token.t = "end"
<1>1. BeginsValue(F, doc, token, r2) => Awaits(Last(F)) /\ token.t \in {"LeftCurly", "LeftBracket"}
  BY Zenon DEF BeginsValue
<1>2. Takes(F, doc, token, r2) => Awaits(Last(F)) /\ token.t \in Scalars
  BY Zenon DEF Takes
<1>3. NamesMember(F, doc, token, r2) => Last(F).in = "object" /\ Last(F).at \in {"first", "name"} /\ token.t = "string"
  BY Zenon DEF NamesMember
<1>4. Passes(F, doc, token, r2) => token.t \in {"Colon", "Comma"}
  BY DEF Passes
<1>5. Ends(F, doc, token, r2) => token.t \in {"RightCurly", "RightBracket"}
  BY DEF Ends
<1>6. Stops(F, doc, token, r2) => token.t = "end"
  BY Zenon DEF Stops
<1>7. QED
  BY <1>1, <1>2, <1>3, <1>4, <1>5, <1>6

\* The last frame counts a value, or goes on to another place.
Counts(f) == [in |-> f.in, at |-> "behind", n |-> f.n + 1]
Moves(f, place) == [in |-> f.in, at |-> place, n |-> f.n]

\* A compound begins.
LEMMA StepBegins ==
  ASSUME NEW F, FramesFit(F), NEW doc, NEW token, Awaits(Last(F)), token.t \in {"LeftCurly", "LeftBracket"}
  PROVE  \E d : ParseNext(Reading(F, doc), token) = Reading(Append(F, Frame(IF token.t = "LeftCurly" THEN "object" ELSE "array")), d)
<1> DEFINE r2 == ParseNext(Reading(F, doc), token)
<1>1. CanFollow(Last(F), token)
  BY DEF CanFollow
<1>2. r2 = ParseNext(Reading(F, doc), token)
  OBVIOUS
<1> HIDE DEF r2
<1>3. BeginsValue(F, doc, token, r2)
  BY <1>1, <1>2, StepOf, Guards DEF Scalars
<1>4. r2 = Reading(Append(F, Frame(IF token.t = "LeftCurly" THEN "object" ELSE "array")), Append(doc, [kind |-> "open"]))
  BY <1>3, Zenon DEF BeginsValue
<1>5. QED
  BY <1>2, <1>4, Zenon

\* A scalar is counted.
LEMMA StepTakes ==
  ASSUME NEW F, FramesFit(F), NEW doc, NEW token, Awaits(Last(F)), token.t \in Scalars, Scalar(token).err = "none", ~Scalar(token).rest
  PROVE  \E d : ParseNext(Reading(F, doc), token) = Reading(Append(Front(F), Counts(Last(F))), d)
<1> DEFINE r2 == ParseNext(Reading(F, doc), token)
<1>1. CanFollow(Last(F), token)
  BY DEF CanFollow
<1>2. r2 = ParseNext(Reading(F, doc), token)
  OBVIOUS
<1> HIDE DEF r2
<1>3. ~NamesMember(F, doc, token, r2)
  BY Guards DEF Awaits
<1>4. Takes(F, doc, token, r2)
  BY <1>1, <1>2, <1>3, StepOf, Guards DEF Scalars
<1>5. PICK place \in {"behind", "rest"} :
        /\ (place = "rest") = Scalar(token).rest
        /\ r2 = Reading(Append(Front(F), [in |-> Last(F).in, at |-> place, n |-> Last(F).n + 1]), Append(doc, Scalar(token).value))
  BY <1>4, Zenon DEF Takes
<1>6. place = "behind"
  BY <1>5
<1>7. QED
  BY <1>2, <1>5, <1>6, Zenon DEF Counts

\* A name is read.
LEMMA StepNames ==
  ASSUME NEW F, FramesFit(F), NEW doc, NEW token, Last(F).in = "object", Last(F).at \in {"first", "name"},
         token.t = "string", Scalar(token).err = "none"
  PROVE  \E d : ParseNext(Reading(F, doc), token) = Reading(Append(Front(F), Moves(Last(F), "colon")), d)
<1> DEFINE r2 == ParseNext(Reading(F, doc), token)
<1>1. CanFollow(Last(F), token)
  BY DEF CanFollow
<1>2. r2 = ParseNext(Reading(F, doc), token)
  OBVIOUS
<1> HIDE DEF r2
<1>3. ~Awaits(Last(F))
  BY DEF Awaits
<1>4. NamesMember(F, doc, token, r2)
  BY <1>1, <1>2, <1>3, StepOf, Guards
<1>5. r2 = Reading(Append(Front(F), [in |-> "object", at |-> "colon", n |-> Last(F).n]),
                  Append(doc, [kind |-> "string", str |-> ParseString(token.raw).str]))
  BY <1>4, Zenon DEF NamesMember
<1>6. QED
  BY <1>2, <1>5, Zenon DEF Moves

\* A colon or comma is passed.
LEMMA StepPasses ==
  ASSUME NEW F, FramesFit(F), NEW doc, NEW token, NEW place,
         \/ Last(F).in = "object" /\ Last(F).at = "colon" /\ token.t = "Colon" /\ place = "value"
         \/ Last(F).in = "object" /\ Last(F).at = "behind" /\ token.t = "Comma" /\ place = "name"
         \/ Last(F).in = "array" /\ Last(F).at = "behind" /\ token.t = "Comma" /\ place = "value"
  PROVE  ParseNext(Reading(F, doc), token) = Reading(Append(Front(F), Moves(Last(F), place)), doc)
<1> DEFINE r2 == ParseNext(Reading(F, doc), token)
<1>1. CanFollow(Last(F), token)
  BY DEF CanFollow
<1>2. r2 = ParseNext(Reading(F, doc), token)
  OBVIOUS
<1> HIDE DEF r2
<1>3. token.t \in {"Colon", "Comma"}
  OBVIOUS
<1>4. Passes(F, doc, token, r2)
  BY <1>1, <1>2, <1>3, StepOf, Guards DEF Scalars
<1>5. PICK to :
        /\ \/ Last(F).in = "object" /\ Last(F).at = "colon" /\ token.t = "Colon" /\ to = "value"
           \/ Last(F).in = "object" /\ Last(F).at = "behind" /\ token.t = "Comma" /\ to = "name"
           \/ Last(F).in = "array" /\ Last(F).at = "behind" /\ token.t = "Comma" /\ to = "value"
        /\ r2 = Reading(Append(Front(F), [in |-> Last(F).in, at |-> to, n |-> Last(F).n]), doc)
  BY <1>4, Zenon DEF Passes
<1>6. to = place
  BY <1>5
<1>7. QED
  BY <1>2, <1>5, <1>6, Zenon DEF Moves

\* A compound ends, and is counted.
LEMMA StepEnds ==
  ASSUME NEW F, FramesFit(F), NEW doc, NEW token, Last(F).at \in {"first", "behind"},
         \/ Last(F).in = "object" /\ token.t = "RightCurly"
         \/ Last(F).in = "array" /\ token.t = "RightBracket"
  PROVE  \E d : ParseNext(Reading(F, doc), token) = Reading(Append(Front(Front(F)), Counts(Last(Front(F)))), d)
<1> DEFINE r2 == ParseNext(Reading(F, doc), token)
<1>1. CanFollow(Last(F), token)
  BY DEF CanFollow
<1>2. r2 = ParseNext(Reading(F, doc), token)
  OBVIOUS
<1> HIDE DEF r2
<1>3. token.t \in {"RightCurly", "RightBracket"}
  OBVIOUS
<1>4. Ends(F, doc, token, r2)
  BY <1>1, <1>2, <1>3, StepOf, Guards DEF Scalars
<1>5. \E d : r2 = Reading(Append(Front(Front(F)), Counts(Last(Front(F)))), d)
  BY <1>4, Zenon DEF Ends, Counts
<1>6. QED
  BY <1>2, <1>5, Zenon

\* The text ends.
LEMMA StepStops ==
  ASSUME NEW F, FramesFit(F), NEW doc, NEW token, Last(F).in = "root", Last(F).at = "behind", token.t = "end"
  PROVE  ParseNext(Reading(F, doc), token).done /\ ParseNext(Reading(F, doc), token).err = "none"
<1> DEFINE r2 == ParseNext(Reading(F, doc), token)
<1>1. CanFollow(Last(F), token)
  BY DEF CanFollow
<1>2. r2 = ParseNext(Reading(F, doc), token)
  OBVIOUS
<1> HIDE DEF r2
<1>3. Stops(F, doc, token, r2)
  BY <1>1, <1>2, StepOf, Guards DEF Scalars
<1>4. QED
  BY <1>2, <1>3, Zenon DEF Stops

------------------------------------------------------------------------------
(* The Writer and a parser                                                  *)

\* The levels of the Writer and the frames of a parser that has read what it wrote.
Closed(l) == l.valueCount >= 1 /\ (~l.inArray => l.valueCount % 2 = 0)
LevelFits(l, f) ==
  l.valueCount \in Nat /\ l.inArray \in BOOLEAN /\ f.in \in {"array", "object"} /\ (l.inArray <=> f.in = "array")
Below(K, G) ==
  /\ Sequence(K) /\ Sequence(G) /\ Len(G) = Len(K) + 1
  /\ \A k \in 1..Len(K) : LevelFits(K[k], G[k + 1]) /\ Closed(K[k])
LevelsFit(L, F, place) ==
  /\ Last(F).at = place
  /\ IF L = <<>> THEN Len(F) = 1 ELSE Sequence(L) /\ Below(Front(L), Front(F)) /\ LevelFits(Last(L), Last(F))

\* Outside of every compound there is only the root.
LEMMA BelowOne ==
  ASSUME NEW G, Sequence(G), Len(G) = 1 PROVE Below(<<>>, G)
<1>1. Sequence(<<>>) /\ Len(<<>>) = 0
  BY SeqOne
<1>2. ~\E k : k \in 1..0
  OBVIOUS
<1>3. Len(G) = Len(<<>>) + 1
  BY <1>1
<1>4. QED
  BY <1>1, <1>2, <1>3 DEF Below

\* A compound with all its values, but for the one it is in, has another inside.
LEMMA BelowGrows ==
  ASSUME NEW K, NEW G, Below(K, G), NEW l, NEW f, LevelFits(l, f), Closed(l)
  PROVE  Below(Append(K, l), Append(G, f))
<1> DEFINE K2 == Append(K, l)
           G2 == Append(G, f)
           n == Len(K)
<1>1. /\ Sequence(K2) /\ n \in Nat /\ Len(K2) = n + 1 /\ K2[n + 1] = l /\ \A k \in 1..n : K2[k] = K[k]
  BY SeqAppended DEF Below
<1>2. Len(G) = n + 1 /\ Sequence(G) /\ \A k \in 1..n : LevelFits(K[k], G[k + 1]) /\ Closed(K[k])
  BY DEF Below
<1>3. /\ Sequence(G2) /\ Len(G2) = (n + 1) + 1 /\ G2[(n + 1) + 1] = f /\ \A k \in 1..(n + 1) : G2[k] = G[k]
  <2>1. Sequence(G2) /\ Len(G2) = Len(G) + 1 /\ G2[Len(G) + 1] = f /\ \A k \in 1..Len(G) : G2[k] = G[k]
    BY <1>2, SeqAppended
  <2> HIDE DEF G2, n
  <2>2. QED
    BY <1>2, <2>1
<1> HIDE DEF K2, G2, n
<1>4. ASSUME NEW k \in 1..(n + 1) PROVE LevelFits(K2[k], G2[k + 1]) /\ Closed(K2[k])
  <2>1. CASE k = n + 1
    BY <1>1, <1>3, <2>1
  <2>2. CASE k # n + 1
    <3>1. k \in 1..n /\ k + 1 \in 1..(n + 1)
      BY <1>1, <2>2
    <3>2. K2[k] = K[k] /\ G2[k + 1] = G[k + 1]
      BY <1>1, <1>3, <3>1
    <3>3. QED
      BY <1>2, <3>1, <3>2
  <2>3. QED
    BY <2>1, <2>2
<1>5. Below(K2, G2)
  <2>1. Sequence(K2) /\ Sequence(G2) /\ Len(G2) = Len(K2) + 1
    BY <1>1, <1>3
  <2>2. \A k \in 1..Len(K2) : LevelFits(K2[k], G2[k + 1]) /\ Closed(K2[k])
    BY <1>1, <1>4
  <2>3. QED
    BY <2>1, <2>2, Zenon DEF Below
<1>6. QED
  BY <1>5 DEF K2, G2

\* The last of such compounds.
LEMMA BelowParts ==
  ASSUME NEW K, NEW G, Below(K, G), K # <<>>
  PROVE  /\ G # <<>> /\ Below(Front(K), Front(G)) /\ LevelFits(Last(K), Last(G)) /\ Closed(Last(K))
<1> DEFINE K2 == Front(K)
           G2 == Front(G)
           l == Last(K)
           f == Last(G)
           n == Len(K2)
<1>1. Sequence(K) /\ Sequence(G) /\ Len(G) = Len(K) + 1 /\ Len(K) \in Nat
  BY DEF Below, Sequence
<1>2. G # <<>>
  <2>1. Len(<<>>) = 0
    OBVIOUS
  <2>2. QED
    BY <1>1, <2>1
<1>3. Sequence(K2) /\ K = Append(K2, l) /\ Sequence(G2) /\ G = Append(G2, f) /\ Len(K2) = Len(K) - 1 /\ Len(G2) = Len(G) - 1
  BY <1>1, <1>2, SeqParts
<1>4. n \in Nat /\ Len(K) = n + 1 /\ Len(G2) = n + 1
  BY <1>1, <1>3, SeqAppended
<1>5. \A k \in 1..Len(K) : LevelFits(K[k], G[k + 1]) /\ Closed(K[k])
  BY DEF Below
<1> HIDE DEF K2, G2, l, f
<1>6. K[n + 1] = l /\ \A k \in 1..n : K[k] = K2[k]
  <2>1. Append(K2, l)[Len(K2) + 1] = l /\ \A k \in 1..Len(K2) : Append(K2, l)[k] = K2[k]
    BY <1>3, SeqAppended
  <2>2. QED
    BY <1>3, <2>1, Zenon
<1>7. G[(n + 1) + 1] = f /\ \A k \in 1..(n + 1) : G[k] = G2[k]
  <2>1. Append(G2, f)[Len(G2) + 1] = f /\ \A k \in 1..Len(G2) : Append(G2, f)[k] = G2[k]
    BY <1>3, SeqAppended
  <2>2. QED
    BY <1>3, <1>4, <2>1, Zenon
<1> HIDE DEF n
<1>8. LevelFits(l, f) /\ Closed(l)
  <2>1. n + 1 \in 1..Len(K)
    BY <1>4
  <2>2. QED
    BY <1>5, <1>6, <1>7, <2>1
<1>9. ASSUME NEW k \in 1..n PROVE LevelFits(K2[k], G2[k + 1]) /\ Closed(K2[k])
  <2>1. k \in 1..Len(K) /\ k + 1 \in 1..(n + 1)
    BY <1>4
  <2>2. K[k] = K2[k] /\ G[k + 1] = G2[k + 1]
    BY <1>6, <1>7, <2>1
  <2>3. QED
    BY <1>5, <2>1, <2>2
<1>10. Below(K2, G2)
  <2>1. Len(K2) = n /\ Len(G2) = Len(K2) + 1
    BY <1>4 DEF n
  <2>2. QED
    BY <1>3, <1>9, <2>1 DEF Below
<1>11. QED
  BY <1>2, <1>8, <1>10 DEF K2, G2, l, f

\* A compound inside of those.
LEMMA LevelsMade ==
  ASSUME NEW K, NEW G, Below(K, G), NEW l, NEW f, LevelFits(l, f)
  PROVE  LevelsFit(Append(K, l), Append(G, f), f.at)
<1>1. Sequence(K) /\ Sequence(G)
  BY DEF Below
<1>2. Sequence(Append(K, l)) /\ Append(K, l) # <<>> /\ Last(Append(K, l)) = l /\ Front(Append(K, l)) = K
  BY <1>1, SeqAppended
<1>3. Last(Append(G, f)) = f /\ Front(Append(G, f)) = G
  BY <1>1, SeqAppended
<1>4. QED
  BY <1>2, <1>3, Zenon DEF LevelsFit

\* The innermost level and frame, and what is around them.
LEMMA LevelsParts ==
  ASSUME NEW L, NEW F, FramesFit(F), NEW place, LevelsFit(L, F, place)
  PROVE  /\ Last(F).at = place
         /\ L = <<>> => Len(F) = 1 /\ Front(F) = <<>> /\ Last(F).in = "root"
         /\ L # <<>> => /\ L = Append(Front(L), Last(L)) /\ Below(Front(L), Front(F)) /\ LevelFits(Last(L), Last(F))
                        /\ Sequence(L) /\ Sequence(Front(L))
<1>1. Last(F).at = place
  BY DEF LevelsFit
<1>2. ASSUME L = <<>> PROVE Len(F) = 1 /\ Front(F) = <<>> /\ Last(F).in = "root"
  <2>1. Len(F) = 1
    BY <1>2 DEF LevelsFit
  <2>2. Sequence(F) /\ F # <<>>
    BY DEF FramesFit
  <2>3. Sequence(Front(F)) /\ Len(Front(F)) = 0
    BY <2>1, <2>2, SeqParts
  <2>4. Front(F) = <<>>
    BY <2>3 DEF Sequence
  <2>5. QED
    BY <2>1, <2>4, FramesParts
<1>3. ASSUME L # <<>>
      PROVE  /\ L = Append(Front(L), Last(L)) /\ Below(Front(L), Front(F)) /\ LevelFits(Last(L), Last(F))
             /\ Sequence(L) /\ Sequence(Front(L))
  <2>1. Sequence(L) /\ Below(Front(L), Front(F)) /\ LevelFits(Last(L), Last(F))
    BY <1>3 DEF LevelsFit
  <2>2. QED
    BY <1>3, <2>1, SeqParts
<1>4. QED
  BY <1>1, <1>2, <1>3

\* Where the parser stands when it has read what was written, and after a comma or colon.
Odd(l) == ~l.inArray /\ l.valueCount % 2 = 1
Place(L, toks) ==
  IF L = <<>> THEN (IF toks = <<>> THEN "first" ELSE "behind")
  ELSE IF Last(L).valueCount = 0 THEN "first" ELSE IF Odd(Last(L)) THEN "colon" ELSE "behind"
Ready(L) ==
  IF L = <<>> \/ Last(L).valueCount = 0 THEN "first"
  ELSE IF Last(L).inArray \/ Odd(Last(L)) THEN "value" ELSE "name"
More(l) == [inArray |-> l.inArray, valueCount |-> l.valueCount + 1]
Counting(L) == IF L = <<>> THEN <<>> ELSE Append(Front(L), More(Last(L)))
Deep(b) == [inArray |-> b, valueCount |-> 0]

\* A level with a value more fits the same frame,
LEMMA LevelMore ==
  ASSUME NEW l, NEW f, LevelFits(l, f)
  PROVE  /\ LevelFits(More(l), f) /\ More(l).valueCount = l.valueCount + 1 /\ (More(l).inArray <=> l.inArray)
         /\ l.valueCount \in Nat
<1> DEFINE v == l.valueCount
<1>1. v \in Nat
  BY DEF LevelFits
<1>2. CASE l.inArray
  <2>1. l.inArray = TRUE
    BY <1>2 DEF LevelFits
  <2>2. More(l) = [inArray |-> TRUE, valueCount |-> v + 1]
    BY <2>1, Zenon DEF More
  <2> DEFINE m == More(l)
  <2> HIDE DEF m, v
  <2>3. m.inArray = TRUE /\ m.valueCount = v + 1
    BY <2>2 DEF m
  <2>4. m.valueCount \in Nat
    BY <2>3, <1>1
  <2>5. LevelFits(m, f)
    BY <2>1, <2>3, <2>4 DEF LevelFits
  <2>6. QED
    BY <1>1, <2>1, <2>3, <2>5 DEF m, v
<1>3. CASE ~l.inArray
  <2>1. l.inArray = FALSE
    BY <1>3 DEF LevelFits
  <2>2. More(l) = [inArray |-> FALSE, valueCount |-> v + 1]
    BY <2>1, Zenon DEF More
  <2> DEFINE m == More(l)
  <2> HIDE DEF m, v
  <2>3. m.inArray = FALSE /\ m.valueCount = v + 1
    BY <2>2 DEF m
  <2>4. m.valueCount \in Nat
    BY <2>3, <1>1
  <2>5. LevelFits(m, f)
    BY <2>1, <2>3, <2>4 DEF LevelFits
  <2>6. QED
    BY <1>1, <2>1, <2>3, <2>5 DEF m, v
<1>4. QED
  BY <1>2, <1>3

\* and any frame of the same kind.
LEMMA LevelOther ==
  ASSUME NEW l, NEW f, LevelFits(l, f), NEW g, g.in = f.in PROVE LevelFits(l, g)
  BY DEF LevelFits

\* A new level fits a new frame.
LEMMA DeepFits ==
  ASSUME NEW b \in BOOLEAN, NEW f, f.in = (IF b THEN "array" ELSE "object")
  PROVE  LevelFits(Deep(b), f) /\ Deep(b).valueCount = 0
<1> DEFINE m == Deep(b)
<1>1. CASE b = TRUE
  <2>1. m = [inArray |-> TRUE, valueCount |-> 0]
    BY <1>1, Zenon DEF Deep
  <2> HIDE DEF m
  <2>2. m.inArray = TRUE /\ m.valueCount = 0
    BY <2>1
  <2>5. f.in = "array" /\ f.in \in {"array", "object"}
    BY <1>1
  <2>8. m.valueCount \in Nat
    BY <2>2
  <2>9. m.inArray \in BOOLEAN
    BY <2>2, Zenon
  <2>6. m.valueCount \in Nat /\ m.inArray \in BOOLEAN
    BY <2>8, <2>9
  <2>7. m.inArray <=> f.in = "array"
    BY <2>2, <2>5
  <2>3. LevelFits(m, f)
    BY <2>5, <2>6, <2>7, Zenon DEF LevelFits
  <2>4. QED
    BY <2>2, <2>3 DEF m
<1>2. CASE b = FALSE
  <2>1. m = [inArray |-> FALSE, valueCount |-> 0]
    BY <1>2, Zenon DEF Deep
  <2> HIDE DEF m
  <2>2. m.inArray = FALSE /\ m.valueCount = 0
    BY <2>1
  <2>5. f.in = "object" /\ f.in \in {"array", "object"}
    BY <1>2
  <2>8. m.valueCount \in Nat
    BY <2>2
  <2>9. m.inArray \in BOOLEAN
    BY <2>2, Zenon
  <2>6. m.valueCount \in Nat /\ m.inArray \in BOOLEAN
    BY <2>8, <2>9
  <2>7. m.inArray <=> f.in = "array"
    BY <2>2, <2>5
  <2>3. LevelFits(m, f)
    BY <2>5, <2>6, <2>7, Zenon DEF LevelFits
  <2>4. QED
    BY <2>2, <2>3 DEF m
<1>3. QED
  BY <1>1, <1>2

\* The innermost frame is replaced, and its level.
LEMMA TopReplaced ==
  ASSUME NEW L, NEW F, FramesFit(F), NEW place, LevelsFit(L, F, place), NEW g, g.in = Last(F).in
  PROVE  /\ L = <<>> => LevelsFit(<<>>, Append(Front(F), g), g.at)
         /\ \A m : L # <<>> /\ LevelFits(m, g) => LevelsFit(Append(Front(L), m), Append(Front(F), g), g.at)
<1>1. ASSUME L = <<>> PROVE LevelsFit(<<>>, Append(Front(F), g), g.at)
  <2>1. Front(F) = <<>>
    BY <1>1, LevelsParts
  <2>2. Append(Front(F), g) = <<g>>
    BY <2>1, SeqOne
  <2>3. Len(<<g>>) = 1 /\ Last(<<g>>) = g
    BY SeqOne, RootLast
  <2>4. QED
    BY <2>2, <2>3, Zenon DEF LevelsFit
<1>2. ASSUME NEW m, L # <<>>, LevelFits(m, g) PROVE LevelsFit(Append(Front(L), m), Append(Front(F), g), g.at)
  <2>1. Below(Front(L), Front(F))
    BY <1>2, LevelsParts
  <2>2. QED
    BY <1>2, <2>1, LevelsMade, Zenon
<1>3. QED
  BY <1>1, <1>2

\* A compound begins in a value that has been counted.
LEMMA TopNested ==
  ASSUME NEW L, NEW F, FramesFit(F), NEW place, LevelsFit(L, F, place), L # <<>> => Closed(More(Last(L))),
         NEW l, NEW f, LevelFits(l, f)
  PROVE  LevelsFit(Append(Counting(L), l), Append(F, f), f.at)
<1>1. CASE L = <<>>
  <2>1. Len(F) = 1 /\ Sequence(F) /\ Counting(L) = <<>>
    BY <1>1, LevelsParts DEF FramesFit, Counting
  <2>2. Below(<<>>, F)
    BY <2>1, BelowOne
  <2>3. QED
    BY <2>1, <2>2, LevelsMade
<1>2. CASE L # <<>>
  <2>1. Below(Front(L), Front(F)) /\ LevelFits(Last(L), Last(F)) /\ Counting(L) = Append(Front(L), More(Last(L)))
    BY <1>2, LevelsParts DEF Counting
  <2>2. LevelFits(More(Last(L)), Last(F)) /\ Closed(More(Last(L)))
    BY <1>2, <2>1, LevelMore
  <2>3. Below(Append(Front(L), More(Last(L))), Append(Front(F), Last(F)))
    BY <2>1, <2>2, BelowGrows, Zenon
  <2>4. Append(Front(F), Last(F)) = F
    BY FramesParts
  <2>5. Below(Counting(L), F)
    BY <2>1, <2>3, <2>4, Zenon
  <2>6. QED
    BY <2>5, LevelsMade
<1>3. QED
  BY <1>1, <1>2

\* The kind of the innermost compound is that of its frame.
LEMMA PlaceIs ==
  ASSUME NEW L, NEW F, FramesFit(F), NEW place, LevelsFit(L, F, place), L # <<>>
  PROVE  /\ Last(L).valueCount \in Nat /\ Last(L).inArray \in BOOLEAN
         /\ Last(F).in \in {"array", "object"} /\ (Last(L).inArray <=> Last(F).in = "array")
<1>1. LevelFits(Last(L), Last(F))
  BY LevelsParts
<1> DEFINE l == Last(L)
           f == Last(F)
<1> HIDE DEF l, f
<1>2. l.valueCount \in Nat /\ l.inArray \in BOOLEAN /\ f.in \in {"array", "object"} /\ (l.inArray <=> f.in = "array")
  BY <1>1, Zenon DEF LevelFits, l, f
<1>3. QED
  BY <1>2 DEF l, f

\* A comma or colon is read as it was meant.
LEMMA PrefixStep ==
  ASSUME NEW L, NEW F, FramesFit(F), NEW doc, NEW toks, LevelsFit(L, F, Place(L, toks)), L # <<>>, Last(L).valueCount # 0,
         NEW token, token.t = (IF Odd(Last(L)) THEN "Colon" ELSE "Comma")
  PROVE  /\ ParseNext(Reading(F, doc), token) = Reading(Append(Front(F), Moves(Last(F), Ready(L))), doc)
         /\ LevelsFit(L, Append(Front(F), Moves(Last(F), Ready(L))), Ready(L))
<1> DEFINE g == Moves(Last(F), Ready(L))
<1>1. /\ Last(L).valueCount \in Nat /\ Last(L).inArray \in BOOLEAN
      /\ Last(F).in \in {"array", "object"} /\ (Last(L).inArray <=> Last(F).in = "array")
  BY PlaceIs
<1>2. Last(F).at = IF Odd(Last(L)) THEN "colon" ELSE "behind"
  <2>1. Last(F).at = Place(L, toks)
    BY LevelsParts
  <2>2. QED
    BY <2>1 DEF Place
<1>3. /\ Odd(Last(L)) => Ready(L) = "value" /\ ~Last(L).inArray
      /\ ~Odd(Last(L)) => Ready(L) = IF Last(L).inArray THEN "value" ELSE "name"
  BY DEF Ready, Odd
<1>4. ParseNext(Reading(F, doc), token) = Reading(Append(Front(F), g), doc)
  <2> DEFINE to == Ready(L)
  <2>1. \/ Last(F).in = "object" /\ Last(F).at = "colon" /\ token.t = "Colon" /\ to = "value"
        \/ Last(F).in = "object" /\ Last(F).at = "behind" /\ token.t = "Comma" /\ to = "name"
        \/ Last(F).in = "array" /\ Last(F).at = "behind" /\ token.t = "Comma" /\ to = "value"
    <3> HIDE DEF to
    <3>1. CASE Odd(Last(L))
      BY <1>1, <1>2, <1>3, <3>1 DEF to
    <3>2. CASE ~Odd(Last(L))
      BY <1>1, <1>2, <1>3, <3>2 DEF to
    <3>3. QED
      BY <3>1, <3>2
  <2> HIDE DEF to
  <2>2. ParseNext(Reading(F, doc), token) = Reading(Append(Front(F), Moves(Last(F), to)), doc)
    BY <2>1, StepPasses
  <2>3. QED
    BY <2>2 DEF to
<1>5. g.in = Last(F).in /\ g.at = Ready(L)
  BY DEF Moves
<1>6. LevelsFit(L, Append(Front(F), g), g.at)
  <2> HIDE DEF g
  <2>1. LevelFits(Last(L), Last(F)) /\ L = Append(Front(L), Last(L))
    BY LevelsParts
  <2>2. LevelFits(Last(L), g)
    BY <1>5, <2>1, LevelOther
  <2>3. LevelsFit(Append(Front(L), Last(L)), Append(Front(F), g), g.at)
    BY <1>5, <2>2, TopReplaced
  <2>4. QED
    BY <2>1, <2>3, Zenon
<1>7. QED
  BY <1>4, <1>5, <1>6, Zenon

\* A value or name is written where one is due.
Due(L, t) == L # <<>> => (~Last(L).inArray /\ Last(L).valueCount % 2 = 0 => t = "string")
Writable(token) ==
  \/ token.t \in {"LeftCurly", "LeftBracket"}
  \/ token.t \in Scalars /\ Scalar(token).err = "none" /\ ~Scalar(token).rest

\* The parser goes on to where the levels K say.
GoesOn(F, doc, token, K, toks) ==
  \E F2, d : ParseNext(Reading(F, doc), token) = Reading(F2, d) /\ LevelsFit(K, F2, Place(K, toks))

\* A value or name is read as it was meant.
LEMMA PutStep ==
  ASSUME NEW L, NEW F, FramesFit(F), NEW doc, NEW toks, toks # <<>>, LevelsFit(L, F, Ready(L)),
         NEW token, Writable(token), Due(L, token.t)
  PROVE  GoesOn(F, doc, token, Deeper(Counting(L), token.t), toks)
<1> DEFINE l == Last(L)
           f == Last(F)
           L2 == Deeper(Counting(L), token.t)
<1>1. L # <<>> => /\ l.valueCount \in Nat /\ l.inArray \in BOOLEAN
                  /\ f.in \in {"array", "object"} /\ (l.inArray <=> f.in = "array") /\ LevelFits(l, f)
  BY PlaceIs, LevelsParts
<1>2. f.at = Ready(L) /\ (L = <<>> => f.in = "root")
  BY LevelsParts
<1>3. L # <<>> => /\ LevelFits(More(l), f) /\ More(l).valueCount = l.valueCount + 1 /\ (More(l).inArray <=> l.inArray)
  BY <1>1, LevelMore
<1>4. ASSUME ~Awaits(f)
      PROVE  L # <<>> /\ ~l.inArray /\ l.valueCount % 2 = 0 /\ f.in = "object" /\ f.at \in {"first", "name"}
  <2>1. L # <<>>
    BY <1>2, <1>4 DEF Awaits, Ready
  <2>2. ~l.inArray
    <3>1. l.inArray => f.in = "array" /\ f.at \in {"first", "value"}
      BY <1>1, <1>2, <2>1 DEF Ready
    <3>2. QED
      BY <1>4, <3>1 DEF Awaits
  <2>3. f.in = "object"
    BY <1>1, <2>1, <2>2
  <2>4. f.at # "value"
    BY <1>4, <2>3 DEF Awaits
  <2>5. ~Odd(l) \/ l.valueCount = 0
    BY <1>2, <2>1, <2>4 DEF Ready
  <2>6. l.valueCount % 2 = 0
    <3> DEFINE n == l.valueCount
    <3>1. n \in Nat
      BY <1>1, <2>1
    <3>2. n % 2 # 1 \/ n = 0
      BY <2>2, <2>5 DEF Odd
    <3> HIDE DEF n
    <3>3. n % 2 = 0
      BY <3>1, <3>2
    <3>4. QED
      BY <3>3 DEF n
  <2>7. f.at \in {"first", "name"}
    BY <1>2, <2>1, <2>2, <2>4 DEF Ready, Odd
  <2>8. QED
    BY <2>1, <2>2, <2>3, <2>6, <2>7
<1>5. ASSUME Awaits(f), L # <<>> PROVE l.inArray \/ l.valueCount % 2 = 1
  <2>1. CASE ~l.inArray
    <3>1. f.in = "object" /\ f.at = "value"
      BY <1>1, <1>5, <2>1 DEF Awaits
    <3>2. Odd(l)
      BY <1>2, <1>5, <2>1, <3>1 DEF Ready
    <3>3. QED
      BY <3>2 DEF Odd
  <2>2. QED
    BY <2>1
<1>6. CASE Awaits(f) /\ token.t \in {"LeftCurly", "LeftBracket"}
  <2> DEFINE b == (token.t = "LeftBracket")
             g == Frame(IF token.t = "LeftCurly" THEN "object" ELSE "array")
  <2>1. \E d : ParseNext(Reading(F, doc), token) = Reading(Append(F, g), d)
    BY <1>6, StepBegins
  <2>2. g.at = "first" /\ g.in = IF b THEN "array" ELSE "object"
    BY <1>6 DEF Frame
  <2>3. b \in BOOLEAN
    OBVIOUS
  <2>4. L2 = Append(Counting(L), Deep(b))
    BY <1>6, Zenon DEF Deeper, Deep
  <2> HIDE DEF b, g
  <2>5. LevelFits(Deep(b), g) /\ Deep(b).valueCount = 0
    BY <2>2, <2>3, DeepFits
  <2>6. L # <<>> => Closed(More(l))
    <3> SUFFICES ASSUME L # <<>> PROVE Closed(More(l))
      OBVIOUS
    <3> DEFINE n == l.valueCount
               n2 == More(l).valueCount
    <3>1. n \in Nat /\ n2 = n + 1
      BY <1>1, <1>3
    <3>2. More(l).inArray \/ n % 2 = 1
      BY <1>3, <1>5, <1>6
    <3> HIDE DEF n, n2
    <3>3. n2 >= 1 /\ (n % 2 = 1 => n2 % 2 = 0)
      BY <3>1
    <3>4. QED
      BY <3>2, <3>3 DEF Closed, n2
  <2>7. LevelsFit(L2, Append(F, g), "first")
    <3>1. LevelsFit(Append(Counting(L), Deep(b)), Append(F, g), g.at)
      BY <2>5, <2>6, TopNested
    <3>2. QED
      BY <2>2, <2>4, <3>1, Zenon
  <2>8. Place(L2, toks) = "first"
    <3>1. Sequence(Counting(L))
      <4>1. L # <<>> => Sequence(Front(L))
        BY LevelsParts
      <4>2. QED
        BY <4>1, SeqAppended, SeqOne DEF Counting
    <3>2. L2 # <<>> /\ Last(L2) = Deep(b)
      BY <2>4, <3>1, SeqAppended, ZenonT(60)
    <3>3. QED
      BY <2>5, <3>2 DEF Place
  <2>9. QED
    BY <2>1, <2>7, <2>8, Zenon DEF GoesOn
<1>7. CASE ~(Awaits(f) /\ token.t \in {"LeftCurly", "LeftBracket"})
  <2>1. token.t \in Scalars /\ Scalar(token).err = "none" /\ ~Scalar(token).rest
    <3>1. token.t \notin {"LeftCurly", "LeftBracket"}
      <4>1. CASE Awaits(f)
        BY <1>7, <4>1
      <4>2. CASE ~Awaits(f)
        BY <1>4, <4>2 DEF Due
      <4>3. QED
        BY <4>1, <4>2
    <3>2. QED
      BY <3>1 DEF Writable
  <2>2. L2 = Counting(L)
    BY <2>1 DEF Deeper, Scalars
  <2>3. PICK g, d : /\ ParseNext(Reading(F, doc), token) = Reading(Append(Front(F), g), d) /\ g.in = f.in
                    /\ g.at = IF Awaits(f) THEN "behind" ELSE "colon"
    <3>1. CASE Awaits(f)
      <4>1. \E d : ParseNext(Reading(F, doc), token) = Reading(Append(Front(F), Counts(f)), d)
        BY <2>1, <3>1, StepTakes
      <4>2. Counts(f).in = f.in /\ Counts(f).at = "behind"
        BY DEF Counts
      <4>3. QED
        BY <3>1, <4>1, <4>2, Zenon
    <3>2. CASE ~Awaits(f)
      <4>1. token.t = "string"
        BY <1>4, <3>2 DEF Due
      <4>2. \E d : ParseNext(Reading(F, doc), token) = Reading(Append(Front(F), Moves(f, "colon")), d)
        BY <1>4, <2>1, <3>2, <4>1, StepNames
      <4>3. Moves(f, "colon").in = f.in /\ Moves(f, "colon").at = "colon"
        BY DEF Moves
      <4>4. QED
        BY <3>2, <4>2, <4>3, Zenon
    <3>3. QED
      BY <3>1, <3>2
  <2>4. CASE L = <<>>
    <3>1. LevelsFit(<<>>, Append(Front(F), g), g.at) /\ L2 = <<>>
      BY <2>2, <2>3, <2>4, TopReplaced DEF Counting
    <3>2. g.at = "behind" /\ Place(L2, toks) = "behind"
      BY <1>4, <2>3, <2>4, <3>1 DEF Place
    <3>3. QED
      BY <2>3, <3>1, <3>2, Zenon DEF GoesOn
  <2>5. CASE L # <<>>
    <3> DEFINE m == More(l)
               n == l.valueCount
               n2 == m.valueCount
    <3>1. LevelFits(m, f) /\ n2 = n + 1 /\ (m.inArray <=> l.inArray) /\ n \in Nat
      BY <1>1, <1>3, <2>5
    <3>2. L2 = Append(Front(L), m)
      BY <2>2, <2>5 DEF Counting
    <3> HIDE DEF m
    <3>3. LevelFits(m, g)
      BY <2>3, <3>1, LevelOther
    <3>4. LevelsFit(Append(Front(L), m), Append(Front(F), g), g.at)
      BY <2>3, <2>5, <3>3, TopReplaced
    <3>5. L2 # <<>> /\ Last(L2) = m
      <4>1. Sequence(Front(L))
        BY <2>5, LevelsParts
      <4>2. QED
        BY <3>2, <4>1, SeqAppended, ZenonT(60)
    <3>6. Place(L2, toks) = IF Odd(m) THEN "colon" ELSE "behind"
      <4>1. n2 # 0
        <5> HIDE DEF n, n2
        <5>1. QED
          BY <3>1
      <4>2. QED
        BY <3>5, <4>1 DEF Place
    <3>7. Odd(m) <=> ~Awaits(f)
      <4>1. (n % 2 = 1 => n2 % 2 # 1) /\ (n % 2 = 0 => n2 % 2 = 1)
        <5> HIDE DEF n, n2
        <5>1. QED
          BY <3>1
      <4>2. CASE Awaits(f)
        BY <1>5, <2>5, <3>1, <4>1, <4>2 DEF Odd
      <4>3. CASE ~Awaits(f)
        BY <1>4, <3>1, <4>1, <4>3 DEF Odd
      <4>4. QED
        BY <4>2, <4>3
    <3>8. g.at = Place(L2, toks)
      BY <2>3, <3>6, <3>7
    <3>9. QED
      BY <2>3, <3>2, <3>4, <3>8, Zenon DEF GoesOn
  <2>6. QED
    BY <2>4, <2>5
<1>8. QED
  BY <1>6, <1>7

\* A compound ends where one may end.
LEMMA EndStep ==
  ASSUME NEW L, NEW F, FramesFit(F), NEW doc, NEW toks, LevelsFit(L, F, Place(L, toks)), L # <<>>,
         ~Last(L).inArray => Last(L).valueCount % 2 = 0,
         NEW token, token.t = (IF Last(L).inArray THEN "RightBracket" ELSE "RightCurly"), NEW toks2, toks2 # <<>>
  PROVE  \E F2, d : ParseNext(Reading(F, doc), token) = Reading(F2, d) /\ LevelsFit(Front(L), F2, Place(Front(L), toks2))
<1> DEFINE l == Last(L)
           f == Last(F)
           G == Front(F)
           K == Front(L)
           g == Counts(Last(G))
<1>1. /\ l.valueCount \in Nat /\ l.inArray \in BOOLEAN
      /\ f.in \in {"array", "object"} /\ (l.inArray <=> f.in = "array")
  BY PlaceIs
<1>2. ~Odd(l)
  <2> DEFINE n == l.valueCount
  <2>1. n % 2 = 0 => n % 2 # 1
    BY <1>1
  <2>2. QED
    BY <2>1 DEF Odd
<1>3. f.at \in {"first", "behind"}
  <2>1. f.at = Place(L, toks)
    BY LevelsParts
  <2>2. QED
    BY <1>2, <2>1 DEF Place
<1>4. PICK d : ParseNext(Reading(F, doc), token) = Reading(Append(Front(G), g), d)
  <2>1. \/ f.in = "object" /\ token.t = "RightCurly"
        \/ f.in = "array" /\ token.t = "RightBracket"
    BY <1>1
  <2>2. QED
    BY <1>3, <2>1, StepEnds
<1>5. G # <<>> /\ FramesFit(G)
  <2>1. G # <<>>
    BY <1>1, FramesParts
  <2>2. QED
    BY <2>1, FramesParts
<1>6. Below(K, G)
  BY LevelsParts
<1>7. g.at = "behind" /\ g.in = Last(G).in
  BY DEF Counts
<1>8. LevelsFit(K, Append(Front(G), g), "behind")
  <2>1. CASE K = <<>>
    <3>1. Len(K) = 0 /\ Len(G) = Len(K) + 1
      BY <1>6, <2>1 DEF Below
    <3>2. LevelsFit(<<>>, G, Last(G).at)
      BY <3>1 DEF LevelsFit
    <3> HIDE DEF G, g
    <3>3. LevelsFit(<<>>, Append(Front(G), g), g.at)
      BY <1>5, <1>7, <3>2, TopReplaced
    <3>4. QED
      BY <1>7, <2>1, <3>3, Zenon
  <2>2. CASE K # <<>>
    <3> HIDE DEF G, g
    <3>1. Below(Front(K), Front(G)) /\ LevelFits(Last(K), Last(G))
      BY <1>6, <2>2, BelowParts
    <3>2. LevelFits(Last(K), g)
      BY <1>7, <3>1, LevelOther
    <3>3. LevelsFit(Append(Front(K), Last(K)), Append(Front(G), g), g.at)
      BY <3>1, <3>2, LevelsMade
    <3>4. K = Append(Front(K), Last(K))
      BY <1>6, <2>2, SeqParts DEF Below
    <3>5. QED
      BY <1>7, <3>3, <3>4, Zenon
  <2>3. QED
    BY <2>1, <2>2
<1>9. Place(K, toks2) = "behind"
  <2>1. K # <<>> => Closed(Last(K)) /\ LevelFits(Last(K), Last(G))
    BY <1>6, BelowParts
  <2>2. K # <<>> => Last(K).valueCount # 0 /\ ~Odd(Last(K))
    <3> SUFFICES ASSUME K # <<>> PROVE Last(K).valueCount # 0 /\ ~Odd(Last(K))
      OBVIOUS
    <3> DEFINE n == Last(K).valueCount
    <3>1. n \in Nat /\ n >= 1 /\ (~Last(K).inArray => n % 2 = 0)
      BY <2>1 DEF Closed, LevelFits
    <3>2. n # 0 /\ (n % 2 = 0 => n % 2 # 1)
      <4> HIDE DEF n
      <4>1. QED
        BY <3>1
    <3>3. QED
      BY <3>1, <3>2 DEF Odd
  <2> HIDE DEF K
  <2>3. QED
    BY <2>2 DEF Place
<1>10. QED
  BY <1>4, <1>8, <1>9, Zenon

------------------------------------------------------------------------------
(* The strings of a text                                                    *)

\* What is made of each element, when one is appended.
TableOn(x, u) == u = [j \in DOMAIN x |-> u[j]]
Extends(x, u, w, b) == (\A k \in 1..Len(x) : w[k] = u[k]) /\ w[Len(x) + 1] = b

\* Such a table grows with the sequence.
LEMMA TableAppended ==
  ASSUME NEW x, Sequence(x), NEW a, NEW u, NEW w, NEW b,
         TableOn(x, u), TableOn(Append(x, a), w), Extends(x, u, w, b)
  PROVE  Sequence(u) /\ Len(u) = Len(x) /\ w = Append(u, b)
<1> DEFINE x2 == Append(x, a)
           l == Len(x)
           v == Append(u, b)
<1>1. Sequence(x2) /\ l \in Nat /\ Len(x2) = l + 1
  BY SeqAppended
<1>2. DOMAIN x = 1..l /\ DOMAIN x2 = 1..(l + 1)
  <2>1. DOMAIN x2 = 1..Len(x2)
    BY <1>1 DEF Sequence
  <2>2. DOMAIN x = 1..l
    BY DEF Sequence
  <2> HIDE DEF x2, l
  <2>3. QED
    BY <1>1, <2>1, <2>2
<1>0. u = [j \in DOMAIN x |-> u[j]] /\ w = [j \in DOMAIN x2 |-> w[j]]
  BY DEF TableOn
<1>3. u = [k \in 1..l |-> u[k]] /\ w = [k \in 1..(l + 1) |-> w[k]]
  <2> HIDE DEF l, x2
  <2>1. QED
    BY <1>0, <1>2, Zenon
<1>4. \A k \in 1..l : w[k] = u[k]
  BY DEF Extends
<1>5. w[l + 1] = b
  BY DEF Extends
<1> HIDE DEF x2, l
<1>6. Sequence(u) /\ Len(u) = l
  BY <1>1, <1>3, SeqTable
<1>7. Sequence(w) /\ Len(w) = l + 1
  <2> DEFINE h == l + 1
  <2>1. h \in Nat
    BY <1>1
  <2> HIDE DEF h
  <2>2. w = [k \in 1..h |-> w[k]]
    BY <1>3, Zenon DEF h
  <2>3. Sequence(w) /\ Len(w) = h
    BY <2>1, <2>2, SeqTable
  <2>4. QED
    BY <2>3 DEF h
<1>8. Sequence(v) /\ Len(v) = l + 1 /\ v[l + 1] = b /\ \A k \in 1..l : v[k] = u[k]
  <2>1. Sequence(v) /\ Len(v) = Len(u) + 1 /\ v[Len(u) + 1] = b /\ \A k \in 1..Len(u) : v[k] = u[k]
    BY <1>6, SeqAppended
  <2>2. Len(u) = l
    BY <1>6
  <2> HIDE DEF v
  <2>3. QED
    BY <2>1, <2>2, Zenon
<1> HIDE DEF v
<1>9. ASSUME NEW k \in 1..(l + 1) PROVE w[k] = v[k]
  <2>1. CASE k = l + 1
    BY <1>5, <1>8, <2>1
  <2>2. CASE k # l + 1
    <3>1. k \in 1..l
      BY <1>1, <2>2
    <3>2. QED
      BY <1>4, <1>8, <3>1
  <2>3. QED
    BY <2>1, <2>2
<1>10. w = v
  BY <1>7, <1>8, <1>9, SeqSame
<1>11. QED
  BY <1>6, <1>10 DEF v, l

\* The strings among tokens.
StringPart(token) == IF token.t = "string" THEN <<token>> ELSE <<>>
StringParts(toks) == [j \in DOMAIN toks |-> StringPart(toks[j])]

\* A token more is a string more, or none.
LEMMA StringsAppended ==
  ASSUME NEW toks, Sequence(toks), NEW token
  PROVE  /\ Sequence(Strings(toks))
         /\ token.t # "string" => Strings(Append(toks, token)) = Strings(toks)
         /\ token.t = "string" => Strings(Append(toks, token)) = Append(Strings(toks), token)
<1> DEFINE t2 == Append(toks, token)
           u == StringParts(toks)
           w == StringParts(t2)
           b == StringPart(token)
           l == Len(toks)
<1>1. Sequence(t2) /\ l \in Nat /\ Len(t2) = l + 1 /\ t2[l + 1] = token /\ \A k \in 1..l : t2[k] = toks[k]
  BY SeqAppended
<1>2. Strings(toks) = FlattenSeq(u) /\ Strings(t2) = FlattenSeq(w)
  <2> HIDE DEF t2
  <2>1. QED
    BY Zenon DEF Strings, StringParts, StringPart
<1>3. /\ DOMAIN toks = 1..l /\ \A k \in DOMAIN toks : u[k] = StringPart(toks[k])
      /\ DOMAIN t2 = 1..Len(t2) /\ \A k \in DOMAIN t2 : w[k] = StringPart(t2[k])
  <2>1. DOMAIN toks = 1..l /\ DOMAIN t2 = 1..Len(t2)
    <3>1. DOMAIN toks = 1..l
      BY DEF Sequence
    <3> HIDE DEF t2
    <3>2. QED
      BY <1>1, <3>1 DEF Sequence
  <2>2. \A k \in DOMAIN toks : u[k] = StringPart(toks[k])
    BY Zenon DEF StringParts
  <2> HIDE DEF t2
  <2>3. \A k \in DOMAIN t2 : w[k] = StringPart(t2[k])
    BY Zenon DEF StringParts
  <2>4. QED
    BY <2>1, <2>2, <2>3
<1>4. TableOn(toks, u)
  BY Zenon DEF StringParts, TableOn
<1>5. TableOn(t2, w)
  <2> HIDE DEF t2
  <2>1. QED
    BY Zenon DEF StringParts, TableOn
<1>6. \A k \in 1..l : w[k] = u[k]
  <2> SUFFICES ASSUME NEW k \in 1..l PROVE w[k] = u[k]
    OBVIOUS
  <2> HIDE DEF t2, u, w, l
  <2>1. k \in DOMAIN toks /\ k \in DOMAIN t2
    BY <1>1, <1>3
  <2>2. QED
    BY <1>1, <1>3, <2>1
<1>7. w[l + 1] = b
  <2> HIDE DEF t2, u, w, l
  <2>1. l + 1 \in DOMAIN t2
    BY <1>1, <1>3
  <2>2. QED
    BY <1>1, <1>3, <2>1
<1>8. Sequence(u) /\ Len(u) = l /\ w = Append(u, b)
  <2>1. Extends(toks, u, w, b)
    <3> HIDE DEF u, w, b
    <3>1. QED
      BY <1>6, <1>7, Zenon DEF Extends
  <2> HIDE DEF u, w, b
  <2>2. QED
    BY <1>4, <1>5, <2>1, TableAppended
<1>9. PICK S : toks \in Seq(S)
  BY DEF Sequence
<1> DEFINE B == S \cup {token}
<1>10. b \in Seq(B) /\ \A k \in 1..l : u[k] \in Seq(B)
  <2>1. ASSUME NEW a \in B PROVE StringPart(a) \in Seq(B)
    <3> HIDE DEF B
    <3>1. <<a>> \in Seq(B) /\ <<>> \in Seq(B)
      BY <2>1
    <3>2. QED
      BY <3>1, Zenon DEF StringPart
  <2>2. token \in B /\ \A k \in 1..l : toks[k] \in B
    BY <1>9
  <2> HIDE DEF u, l, B
  <2>3. b \in Seq(B)
    BY <2>1, <2>2
  <2>4. QED
    BY <1>3, <2>1, <2>2, <2>3
<1> HIDE DEF u, w, b, B
<1>11. u \in Seq(Seq(B))
  <2> DEFINE Y == Seq(B)
  <2>1. \A k \in 1..Len(u) : u[k] \in Y
    BY <1>8, <1>10
  <2> HIDE DEF Y
  <2>2. u \in Seq(Y)
    BY <1>8, <2>1, ElementsIn DEF Sequence
  <2>3. QED
    BY <2>2 DEF Y
<1>12. FlattenSeq(w) = FlattenSeq(u) \o b /\ FlattenSeq(u) \in Seq(B)
  BY <1>8, <1>10, <1>11, FlattenAppend, FlattenType
<1>13. Sequence(FlattenSeq(u))
  BY <1>12 DEF Sequence
<1>14. ASSUME token.t # "string" PROVE Strings(t2) = Strings(toks)
  <2>1. b = <<>>
    BY <1>14 DEF b, StringPart
  <2>2. QED
    BY <1>2, <1>12, <1>13, <2>1, SeqJoinedEmpty, Zenon
<1>15. ASSUME token.t = "string" PROVE Strings(t2) = Append(Strings(toks), token)
  <2>1. b = <<token>>
    BY <1>15 DEF b, StringPart
  <2>2. FlattenSeq(u) \o <<token>> = Append(FlattenSeq(u), token)
    BY <1>13, SeqJoinedOne
  <2>3. QED
    BY <1>2, <1>12, <2>1, <2>2, Zenon
<1>16. Sequence(Strings(toks))
  BY <1>2, <1>13, Zenon
<1>17. QED
  BY <1>14, <1>15, <1>16 DEF t2

SaidTokens(texts) == [j \in DOMAIN texts |-> StringToken(CString(texts[j]))]

\* A text said is a string more.
LEMMA SaidAppended ==
  ASSUME NEW texts, Sequence(texts), NEW s
  PROVE  Sequence(SaidTokens(texts)) /\ SaidTokens(Append(texts, s)) = Append(SaidTokens(texts), StringToken(CString(s)))
<1> DEFINE t2 == Append(texts, s)
           u == SaidTokens(texts)
           w == SaidTokens(t2)
           b == StringToken(CString(s))
           l == Len(texts)
           m(a) == StringToken(CString(a))
<1>1. Sequence(t2) /\ l \in Nat /\ Len(t2) = l + 1 /\ t2[l + 1] = s /\ \A k \in 1..l : t2[k] = texts[k]
  BY SeqAppended
<1>3. /\ DOMAIN texts = 1..l /\ \A k \in DOMAIN texts : u[k] = m(texts[k])
      /\ DOMAIN t2 = 1..Len(t2) /\ \A k \in DOMAIN t2 : w[k] = m(t2[k])
  <2>1. DOMAIN texts = 1..l /\ DOMAIN t2 = 1..Len(t2)
    <3>1. DOMAIN texts = 1..l
      BY DEF Sequence
    <3> HIDE DEF t2
    <3>2. QED
      BY <1>1, <3>1 DEF Sequence
  <2>2. \A k \in DOMAIN texts : u[k] = m(texts[k])
    BY Zenon DEF SaidTokens
  <2> HIDE DEF t2
  <2>3. \A k \in DOMAIN t2 : w[k] = m(t2[k])
    BY Zenon DEF SaidTokens
  <2> HIDE DEF m
  <2>4. QED
    BY <2>1, <2>2, <2>3
<1>4. TableOn(texts, u)
  BY Zenon DEF SaidTokens, TableOn
<1>5. TableOn(t2, w)
  <2> HIDE DEF t2
  <2>1. QED
    BY Zenon DEF SaidTokens, TableOn
<1>0. b = m(s)
  OBVIOUS
<1> HIDE DEF m
<1>6. \A k \in 1..l : w[k] = u[k]
  <2> SUFFICES ASSUME NEW k \in 1..l PROVE w[k] = u[k]
    OBVIOUS
  <2> HIDE DEF t2, u, w, l
  <2>1. k \in DOMAIN texts /\ k \in DOMAIN t2
    BY <1>1, <1>3
  <2>2. QED
    BY <1>1, <1>3, <2>1
<1>7. w[l + 1] = b
  <2> HIDE DEF t2, u, w, l, b
  <2>1. l + 1 \in DOMAIN t2
    BY <1>1, <1>3
  <2>2. QED
    BY <1>0, <1>1, <1>3, <2>1
<1>8. Sequence(u) /\ Len(u) = l /\ w = Append(u, b)
  <2>1. Extends(texts, u, w, b)
    <3> HIDE DEF u, w, b
    <3>1. QED
      BY <1>6, <1>7, Zenon DEF Extends
  <2> HIDE DEF u, w, b
  <2>2. QED
    BY <1>4, <1>5, <2>1, TableAppended
<1>9. QED
  BY <1>8, Zenon

------------------------------------------------------------------------------
(* Writing                                                                  *)

\* A token without text.
LEMMA TokenIs ==
  ASSUME NEW t PROVE Token(t).t = t /\ Token(t).raw = <<>>
  BY DEF Token

\* What is read of a token is a token of the same kind.
LEMMA MeantKind ==
  ASSUME NEW token
  PROVE  /\ Meant(token).t = token.t
         /\ token.t \notin {"string", "number"} => Meant(token) = Token(token.t)
<1>1. CASE token.t = "string"
  <2>1. Meant(token) = StringToken(ParseString(token.raw).str)
    BY <1>1, Zenon DEF Meant
  <2>2. \A raw : StringToken(raw).t = "string"
    BY DEF StringToken
  <2>3. QED
    BY <1>1, <2>1, <2>2
<1>2. CASE token.t = "number"
  <2>1. token.t # "string"
    BY <1>2
  <2>2. Meant(token) = [t |-> "number", raw |-> Scalar(token).value]
    BY <1>2, <2>1, Zenon DEF Meant
  <2>3. \A raw : [t |-> "number", raw |-> raw].t = "number"
    OBVIOUS
  <2>4. QED
    BY <1>2, <2>2, <2>3, Zenon
<1>3. CASE token.t \notin {"string", "number"}
  <2>1. Meant(token) = Token(token.t)
    BY <1>3 DEF Meant
  <2>2. QED
    BY <2>1, TokenIs
<1>4. QED
  BY <1>1, <1>2, <1>3

\* What the Writer makes of a string, null and the figure can be read.
LEMMA TextWritable ==
  ASSUME NEW s, Sequence(s), NEW token, token = StringToken(WriteString(s))
  PROVE  Writable(token) /\ token.t = "string" /\ Meant(token) = StringToken(CString(s))
<1> DEFINE raw == WriteString(s)
<1>1. token.t = "string" /\ token.raw = raw
  <2> HIDE DEF raw
  <2>1. token = StringToken(raw)
    BY DEF raw
  <2>2. QED
    BY <2>1 DEF StringToken
<1>2. ParseString(raw).err = "none" /\ ParseString(raw).str = CString(s)
  BY StringRead
<1> HIDE DEF raw
<1>3. Scalar(token).err = "none" /\ ~Scalar(token).rest
  <2>1. ~Scalar(token).rest /\ Scalar(token).err = ParseString(token.raw).err
    BY <1>1, ScalarNamed
  <2>2. QED
    BY <1>1, <1>2, <2>1
<1>4. Meant(token) = StringToken(ParseString(token.raw).str)
  BY <1>1, Zenon DEF Meant
<1>5. Meant(token) = StringToken(CString(s))
  BY <1>1, <1>2, <1>4, Zenon
<1>6. Writable(token)
  BY <1>1, <1>3 DEF Writable, Scalars
<1>7. QED
  BY <1>1, <1>5, <1>6

\* null can be read.
LEMMA NullRead ==
  ASSUME NEW token, token.t = "null" PROVE Scalar(token).err = "none" /\ ~Scalar(token).rest
<1>1. Scalar(token) = [err |-> "none", value |-> [kind |-> token.t], rest |-> FALSE]
  <2>1. token.t # "string" /\ token.t # "number" /\ token.t \in {"null", "true", "false"}
    OBVIOUS
  <2>2. QED
    BY <2>1, Zenon DEF Scalar
<1> DEFINE v == [kind |-> token.t]
           x == Scalar(token)
<1>2. x = [err |-> "none", value |-> v, rest |-> FALSE]
  BY <1>1
<1> HIDE DEF x, v
<1>3. x.err = "none" /\ x.rest = FALSE
  BY <1>2
<1>4. QED
  BY <1>3 DEF x

\* So can every value the Writer is given.
LEMMA ValueWritable ==
  ASSUME JsonTextConstants, NEW t, t \in {"LeftCurly", "LeftBracket", "number", "null"},
         NEW token, token = IF t = "number" THEN Figure1 ELSE Token(t)
  PROVE  Writable(token) /\ token.t = t
<1>1. CASE t = "number"
  <2>1. token = Figure1
    BY <1>1
  <2>2. Figure1.t = "number"
    BY DEF Figure1
  <2>3. Scalar(token).err = "none" /\ ~Scalar(token).rest /\ token.t = "number"
    BY <2>1, <2>2, FigureRead, Zenon
  <2>4. QED
    BY <1>1, <2>3 DEF Writable, Scalars
<1>2. CASE t # "number"
  <2>1. token = Token(t)
    BY <1>2
  <2>2. token.t = t
    BY <2>1, TokenIs
  <2>3. CASE t = "null"
    BY <2>2, <2>3, NullRead DEF Writable, Scalars
  <2>4. CASE t # "null"
    BY <1>2, <2>2, <2>4 DEF Writable
  <2>5. QED
    BY <2>2, <2>3, <2>4
<1>3. QED
  BY <1>1, <1>2

\* The parser that is halfway.
LEMMA HalfwayParts ==
  ASSUME NEW toks, NEW r, NEW p, Halfway(toks, r, p)
  PROVE  FramesFit(r.frames) /\ r = Reading(r.frames, r.doc) /\ ~r.done
<1>1. PICK F, doc : FramesFit(F) /\ r = Reading(F, doc)
  BY DEF Halfway
<1>2. r.frames = F /\ r.doc = doc /\ r.done = FALSE
  BY <1>1 DEF Reading
<1>3. QED
  BY <1>1, <1>2

\* A token that both parsers go on after.
LEMMA GoesOnReading ==
  ASSUME NEW toks, Sequence(toks), NEW r, NEW p, Halfway(toks, r, p), NEW token,
         NEW F, NEW d, ParseNext(r, token) = Reading(F, d)
  PROVE  Halfway(Append(toks, token), ParseNext(r, token), IterativeNext(p, token)) /\ ParseNext(r, token).frames = F
<1>1. ParseNext(r, token).done = FALSE /\ ParseNext(r, token).frames = F
  BY DEF Reading
<1>2. ~AllRead(Append(toks, token), ParseNext(r, token), IterativeNext(p, token))
  BY <1>1 DEF AllRead
<1>3. QED
  BY <1>1, <1>2, ReadStep

\* The comma or colon before what is written, and the parsers behind it.
Before(L) ==
  IF L = <<>> \/ Last(L).valueCount = 0 THEN <<>>
  ELSE IF Odd(Last(L)) THEN <<Token("Colon")>> ELSE <<Token("Comma")>>
ReaderOn(r, before) == IF before = <<>> THEN r ELSE ParseNext(r, Head(before))
IterativeOn(p, before) == IF before = <<>> THEN p ELSE IterativeNext(p, Head(before))

\* The first of one.
LEMMA HeadOne == ASSUME NEW x PROVE Head(<<x>>) = x /\ <<x>> # <<>>
  OBVIOUS

\* With it the parser stands where a value or name is due.
LEMMA WriterBefore ==
  ASSUME NEW L, NEW toks, Sequence(toks), NEW r, NEW p, Halfway(toks, r, p), LevelsFit(L, r.frames, Place(L, toks)),
         L = <<>> => toks = <<>>
  PROVE  /\ Sequence(toks \o Before(L)) /\ Halfway(toks \o Before(L), ReaderOn(r, Before(L)), IterativeOn(p, Before(L)))
         /\ LevelsFit(L, ReaderOn(r, Before(L)).frames, Ready(L))
         /\ Strings(MeantAll(toks \o Before(L))) = Strings(MeantAll(toks))
<1> DEFINE F == r.frames
           doc == r.doc
<1>1. FramesFit(F) /\ r = Reading(F, doc)
  BY HalfwayParts
<1>2. CASE L = <<>> \/ Last(L).valueCount = 0
  <2>1. Before(L) = <<>>
    BY <1>2 DEF Before
  <2>2. toks \o Before(L) = toks
    BY <2>1, SeqJoinedEmpty
  <2>3. ReaderOn(r, Before(L)) = r /\ IterativeOn(p, Before(L)) = p
    BY <2>1 DEF ReaderOn, IterativeOn
  <2>4. Place(L, toks) = Ready(L)
    BY <1>2 DEF Place, Ready
  <2>5. QED
    BY <2>2, <2>3, <2>4, Zenon
<1>3. CASE L # <<>> /\ Last(L).valueCount # 0
  <2> DEFINE token == Token(IF Odd(Last(L)) THEN "Colon" ELSE "Comma")
             g == Append(Front(F), Moves(Last(F), Ready(L)))
             r1 == ParseNext(r, token)
             t1 == Append(toks, token)
  <2>1. Before(L) = <<token>>
    BY <1>3, Zenon DEF Before
  <2>2. toks \o Before(L) = t1
    <3> HIDE DEF token
    <3>1. toks \o <<token>> = Append(toks, token)
      BY SeqJoinedOne
    <3>2. QED
      BY <2>1, <3>1, Zenon
  <2>3. ReaderOn(r, Before(L)) = r1 /\ IterativeOn(p, Before(L)) = IterativeNext(p, token)
    <3> HIDE DEF token
    <3>1. Before(L) # <<>> /\ Head(Before(L)) = token
      BY <2>1, HeadOne
    <3>2. QED
      BY <3>1, Zenon DEF ReaderOn, IterativeOn
  <2>4. token.t = (IF Odd(Last(L)) THEN "Colon" ELSE "Comma")
    BY TokenIs
  <2> HIDE DEF token
  <2>5. /\ ParseNext(Reading(F, doc), token) = Reading(g, doc)
        /\ LevelsFit(L, g, Ready(L))
    <3> HIDE DEF F, doc
    <3>1. LevelsFit(L, F, Place(L, toks))
      BY DEF F
    <3>2. QED
      BY <1>1, <1>3, <2>4, <3>1, PrefixStep
  <2>6. ParseNext(r, token) = Reading(g, doc)
    BY <1>1, <2>5, Zenon
  <2> HIDE DEF g
  <2>7. Halfway(t1, r1, IterativeNext(p, token)) /\ r1.frames = g
    <3> HIDE DEF doc
    <3>1. QED
      BY <2>6, GoesOnReading
  <2>8. Sequence(t1)
    BY SeqAppended
  <2>9. Strings(MeantAll(t1)) = Strings(MeantAll(toks))
    <3>1. Sequence(MeantAll(toks)) /\ MeantAll(t1) = Append(MeantAll(toks), Meant(token))
      BY MeantAppended
    <3>2. Meant(token).t # "string"
      BY <2>4, MeantKind
    <3>3. Strings(Append(MeantAll(toks), Meant(token))) = Strings(MeantAll(toks))
      BY <3>1, <3>2, StringsAppended
    <3>4. QED
      BY <3>1, <3>3, Zenon
  <2> HIDE DEF r1, t1
  <2>10. QED
    BY <2>2, <2>3, <2>5, <2>7, <2>8, <2>9, Zenon
<1>4. QED
  BY <1>2, <1>3

\* What a token adds to the strings of a text.
LEMMA SaysAppended ==
  ASSUME NEW toks, Sequence(toks), NEW token
  PROVE  /\ Sequence(Strings(MeantAll(toks)))
         /\ token.t # "string" => Strings(MeantAll(Append(toks, token))) = Strings(MeantAll(toks))
         /\ token.t = "string" => Strings(MeantAll(Append(toks, token))) = Append(Strings(MeantAll(toks)), Meant(token))
<1>1. Sequence(MeantAll(toks)) /\ MeantAll(Append(toks, token)) = Append(MeantAll(toks), Meant(token))
  BY MeantAppended
<1>2. Meant(token).t = token.t
  BY MeantKind
<1> DEFINE m == MeantAll(toks)
           a == Meant(token)
<1> HIDE DEF m, a
<1>3. /\ Sequence(Strings(m))
      /\ a.t # "string" => Strings(Append(m, a)) = Strings(m)
      /\ a.t = "string" => Strings(Append(m, a)) = Append(Strings(m), a)
  BY <1>1, StringsAppended DEF m
<1>4. QED
  BY <1>1, <1>2, <1>3, Zenon DEF m, a

LevelsBehind(K, L, t) == K = Deeper(Counting(L), t)

\* The text, the parsers and the levels when a value or name has been written.
LEMMA WriterThen ==
  ASSUME NEW L, NEW toks, Sequence(toks), NEW r, NEW p, Halfway(toks, r, p), LevelsFit(L, r.frames, Ready(L)),
         NEW token, Writable(token), Due(L, token.t), NEW K, LevelsBehind(K, L, token.t)
  PROVE  /\ Sequence(Append(toks, token)) /\ Halfway(Append(toks, token), ParseNext(r, token), IterativeNext(p, token))
         /\ LevelsFit(K, ParseNext(r, token).frames, Place(K, Append(toks, token)))
<1> DEFINE F == r.frames
           doc == r.doc
           t2 == Append(toks, token)
<1>1. FramesFit(F) /\ r = Reading(F, doc)
  BY HalfwayParts
<1>2. Sequence(t2) /\ t2 # <<>>
  BY SeqAppended
<1>3. PICK F2, d : ParseNext(Reading(F, doc), token) = Reading(F2, d) /\ LevelsFit(K, F2, Place(K, t2))
  <2> HIDE DEF t2, doc
  <2>1. GoesOn(F, doc, token, Deeper(Counting(L), token.t), t2)
    <3> HIDE DEF F
    <3>1. LevelsFit(L, F, Ready(L))
      BY DEF F
    <3>2. QED
      BY <1>1, <1>2, <3>1, PutStep
  <2>2. QED
    BY <2>1, Zenon DEF LevelsBehind, GoesOn
<1>4. ParseNext(r, token) = Reading(F2, d)
  BY <1>1, <1>3, Zenon
<1>5. Halfway(t2, ParseNext(r, token), IterativeNext(p, token)) /\ ParseNext(r, token).frames = F2
  BY <1>4, GoesOnReading
<1>6. QED
  BY <1>2, <1>3, <1>5, Zenon

\* When a compound has been ended.
LEMMA WriterEnds ==
  ASSUME NEW L, NEW toks, Sequence(toks), NEW r, NEW p, Halfway(toks, r, p), LevelsFit(L, r.frames, Place(L, toks)),
         L # <<>>, ~Last(L).inArray => Last(L).valueCount % 2 = 0,
         NEW token, token.t = (IF Last(L).inArray THEN "RightBracket" ELSE "RightCurly")
  PROVE  /\ Sequence(Append(toks, token)) /\ Halfway(Append(toks, token), ParseNext(r, token), IterativeNext(p, token))
         /\ LevelsFit(Front(L), ParseNext(r, token).frames, Place(Front(L), Append(toks, token)))
<1> DEFINE F == r.frames
           doc == r.doc
           t2 == Append(toks, token)
<1>1. FramesFit(F) /\ r = Reading(F, doc)
  BY HalfwayParts
<1>2. Sequence(t2) /\ t2 # <<>>
  BY SeqAppended
<1>3. PICK F2, d : ParseNext(Reading(F, doc), token) = Reading(F2, d) /\ LevelsFit(Front(L), F2, Place(Front(L), t2))
  <2> HIDE DEF t2, doc, F
  <2>1. LevelsFit(L, F, Place(L, toks))
    BY DEF F
  <2>2. QED
    BY <1>1, <1>2, <2>1, EndStep
<1>4. ParseNext(r, token) = Reading(F2, d)
  BY <1>1, <1>3, Zenon
<1>5. Halfway(t2, ParseNext(r, token), IterativeNext(p, token)) /\ ParseNext(r, token).frames = F2
  BY <1>4, GoesOnReading
<1>6. QED
  BY <1>2, <1>3, <1>5, Zenon

\* When the text has been sent.
LEMMA WriterStops ==
  ASSUME NEW toks, Sequence(toks), toks # <<>>, NEW r, NEW p, Halfway(toks, r, p), LevelsFit(<<>>, r.frames, Place(<<>>, toks)),
         NEW token, token.t = "end"
  PROVE  /\ Sequence(Append(toks, token)) /\ AllRead(Append(toks, token), ParseNext(r, token), IterativeNext(p, token))
         /\ ParseNext(r, token).done /\ ParseNext(r, token).err = "none"
<1> DEFINE F == r.frames
           doc == r.doc
<1>1. FramesFit(F) /\ r = Reading(F, doc)
  BY HalfwayParts
<1>2. Last(F).in = "root" /\ Last(F).at = "behind"
  <2>1. Last(F).in = "root" /\ Last(F).at = Place(<<>>, toks)
    BY <1>1, LevelsParts
  <2>2. QED
    BY <2>1 DEF Place
<1>3. ParseNext(r, token).done /\ ParseNext(r, token).err = "none"
  <2> HIDE DEF F, doc
  <2>1. ParseNext(Reading(F, doc), token).done /\ ParseNext(Reading(F, doc), token).err = "none"
    BY <1>1, <1>2, StepStops
  <2>2. QED
    BY <1>1, <2>1, Zenon
<1>4. ~Halfway(Append(toks, token), ParseNext(r, token), IterativeNext(p, token))
  BY <1>3, HalfwayParts
<1>5. QED
  BY <1>3, <1>4, ReadStep, SeqAppended

------------------------------------------------------------------------------
(* The invariant                                                            *)

\* The Writer's text is being read, or has been.
WriterFits(L, toks, r) ==
  IF r.done THEN r.err = "none" /\ toks # <<>> /\ Last(toks).t = "end"
  ELSE LevelsFit(L, r.frames, Place(L, toks))
WriterInv == Sequence(said) /\ Strings(MeantAll(tokens)) = SaidTokens(said) /\ WriterFits(levels, tokens, reader)
ReadInv ==
  /\ Sequence(tokens) /\ (tokens = <<>> => reader = FreshReader)
  /\ Halfway(tokens, reader, iterative) \/ AllRead(tokens, reader, iterative)
JsonInv ==
  /\ ReadInv
  /\ mode = "read" => ReadsNumber(tokens, reader) /\ (tokens # <<>> => tokens[1] \in Tokens \cup Roots)
  /\ mode = "write" => WriterInv

\* Before the first token both parsers are halfway,
LEMMA FreshHalfway == Halfway(<<>>, FreshReader, IterativeStart)
<1> DEFINE F == <<Frame("root")>>
<1>1. FramesFit(F)
  BY RootFits DEF Frame
<1>2. Last(F) = Frame("root") /\ Frame("root").in = "root" /\ Frame("root").at = "first"
  BY RootLast DEF Frame
<1>3. IterativeStart = Mirror(F, <<>>)
  <2>1. StackOf(F) = <<>>
    BY StackOne
  <2>2. StateOf(Last(F)) = "Start"
    BY <1>2 DEF StateOf
  <2>3. (Last(F).at = "rest") = FALSE
    BY <1>2
  <2> HIDE DEF F
  <2>4. QED
    BY <2>1, <2>2, <2>3, Zenon DEF Mirror, IterativeStart
<1>4. MeantAll(<<>>) = <<>>
  BY DEF MeantAll
<1>5. FreshReader = Reading(F, <<>>)
  BY DEF FreshReader
<1>6. Held(F, <<>>, MeantAll(<<>>))
  BY <1>4, HeldFirst, Zenon
<1>7. QED
  BY <1>1, <1>3, <1>5, <1>6, Zenon DEF Halfway

\* and the Writer has no level.
LEMMA FreshFits == LevelsFit(<<>>, FreshReader.frames, Place(<<>>, <<>>)) /\ FreshReader.done = FALSE
<1> DEFINE f == Frame("root")
<1>1. FreshReader.frames = <<f>> /\ FreshReader.done = FALSE
  BY DEF FreshReader, Reading
<1>2. f.at = "first" /\ Place(<<>>, <<>>) = "first"
  BY DEF Frame, Place
<1> HIDE DEF f
<1>3. Last(<<f>>) = f /\ Len(<<f>>) = 1
  BY RootLast, SeqOne
<1>4. LevelsFit(<<>>, <<f>>, "first")
  BY <1>2, <1>3, Zenon DEF LevelsFit
<1>5. QED
  BY <1>1, <1>2, <1>4, Zenon

\* So the invariant holds in the beginning.
LEMMA JsonStarts == ASSUME JsonInit PROVE JsonInv
<1>1. Sequence(<<>>)
  BY SeqOne
<1>2. ReadInv
  BY <1>1, FreshHalfway, Zenon DEF JsonInit, ReadInv
<1>3. ReadsNumber(<<>>, reader)
  BY DEF ReadsNumber
<1>4. Strings(MeantAll(<<>>)) = SaidTokens(<<>>)
  <2>1. MeantAll(<<>>) = <<>> /\ SaidTokens(<<>>) = <<>>
    BY DEF MeantAll, SaidTokens
  <2>2. Strings(<<>>) = FlattenSeq(<<>>)
    <3>1. [j \in DOMAIN <<>> |-> IF <<>>[j].t = "string" THEN <<<<>>[j]>> ELSE <<>>] = <<>>
      OBVIOUS
    <3>2. QED
      BY <3>1, Zenon DEF Strings
  <2>3. QED
    BY <2>1, <2>2, FlattenEmpty, Zenon
<1>5. WriterFits(<<>>, <<>>, FreshReader)
  BY FreshFits DEF WriterFits
<1>6. QED
  <2>1. tokens = <<>> /\ reader = FreshReader /\ levels = <<>> /\ said = <<>>
    BY DEF JsonInit
  <2>2. WriterInv
    BY <1>1, <1>4, <1>5, <2>1, Zenon DEF WriterInv
  <2>3. ReadsNumber(tokens, reader)
    BY <1>3, <2>1, Zenon
  <2>4. QED
    BY <1>2, <2>1, <2>2, <2>3, Zenon DEF JsonInv

\* One token is read.
LEMMA ReadNewOne ==
  ASSUME Sequence(tokens), NEW token, ReadNew(<<>>, token)
  PROVE  tokens' = Append(tokens, token) /\ reader' = ParseNext(reader, token) /\ iterative' = IterativeNext(iterative, token)
<1>1. tokens \o <<>> = tokens
  BY SeqJoinedEmpty
<1>2. QED
  BY <1>1, Zenon DEF ReadNew

\* Reading a token of a request.
LEMMA FeedKeeps ==
  ASSUME JsonConstants, JsonInv, mode = "read", ~reader.done, NEW token \in NextTokens, Feed(token)
  PROVE  JsonInv'
<1>1. tokens' = Append(tokens, token) /\ reader' = ParseNext(reader, token) /\ iterative' = IterativeNext(iterative, token)
  BY ReadNewOne DEF JsonInv, ReadInv, Feed
<1>2. Sequence(tokens) /\ Halfway(tokens, reader, iterative)
  BY DEF JsonInv, ReadInv, AllRead
<1>3. /\ Sequence(tokens') /\ Len(tokens) \in Nat /\ Len(tokens') = Len(tokens) + 1 /\ tokens' # <<>>
      /\ tokens'[Len(tokens) + 1] = token /\ \A k \in 1..Len(tokens) : tokens'[k] = tokens[k]
  BY <1>1, <1>2, SeqAppended
<1>4. Halfway(tokens', reader', iterative') \/ AllRead(tokens', reader', iterative')
  BY <1>1, <1>2, ReadStep
<1>5. ReadInv'
  BY <1>3, <1>4 DEF ReadInv
<1>6. CASE tokens = <<>>
  <2>1. Len(tokens) = 0
    BY <1>6
  <2>2. tokens'[1] = token /\ Len(tokens') = 1
    BY <1>3, <2>1
  <2>3. token \in Tokens \cup Roots
    <3>1. NextTokens = Tokens \cup Roots
      BY <1>6, Zenon DEF NextTokens
    <3>2. QED
      BY <3>1
  <2>4. reader = FreshReader
    BY <1>6 DEF JsonInv, ReadInv
  <2>5. ASSUME token.t = "number", ~reader'.done
        PROVE  /\ Scalar(token).err = "none"
               /\ reader' = Reading(Alone(IF Scalar(token).rest THEN "rest" ELSE "behind"), <<Scalar(token).value>>)
    <3>1. reader' = ParseNext(FreshReader, token)
      BY <1>1, <2>4, Zenon
    <3>2. QED
      BY <2>5, <3>1, NumberFirst
  <2>6. ReadsNumber(tokens, reader)'
    <3>1. Len(tokens') # 2
      BY <2>2
    <3>2. QED
      BY <2>2, <2>5, <3>1, Zenon DEF ReadsNumber
  <2>7. mode' = "read"
    BY DEF Feed
  <2>8. QED
    BY <1>5, <2>2, <2>3, <2>6, <2>7 DEF JsonInv
<1>7. CASE tokens # <<>>
  <2>1. Len(tokens) >= 1
    BY <1>2, <1>7, SeqParts
  <2>2. tokens'[1] = tokens[1]
    BY <1>3, <2>1
  <2>3. tokens[1] \in Tokens \cup Roots
    BY <1>7 DEF JsonInv
  <2>4. Len(tokens') # 1 /\ (Len(tokens') = 2 => Len(tokens) = 1)
    <3> DEFINE l == Len(tokens)
               l2 == Len(tokens')
    <3>1. l \in Nat /\ l >= 1 /\ l2 = l + 1
      BY <1>3, <2>1
    <3> HIDE DEF l, l2
    <3>2. l2 # 1 /\ (l2 = 2 => l = 1)
      BY <3>1
    <3>3. QED
      BY <3>2 DEF l, l2
  <2>5. ASSUME tokens[1].t = "number", Len(tokens) = 1, reader'.done, reader'.err = "none"
        PROVE  Scalar(tokens[1]).err = "none" /\ ~Scalar(tokens[1]).rest /\ Head(reader'.doc) = Scalar(tokens[1]).value
    <3> DEFINE place == IF Scalar(tokens[1]).rest THEN "rest" ELSE "behind"
               v == Scalar(tokens[1]).value
    <3>1. Scalar(tokens[1]).err = "none" /\ reader = Reading(Alone(place), <<v>>)
      <4>1. ReadsNumber(tokens, reader)
        BY DEF JsonInv
      <4>2. QED
        BY <1>7, <2>5, <4>1, Zenon DEF ReadsNumber
    <3>2. place \in {"behind", "rest"} /\ (place = "behind" => ~Scalar(tokens[1]).rest)
      OBVIOUS
    <3> HIDE DEF place, v
    <3>3. reader' = ParseNext(Reading(Alone(place), <<v>>), token)
      BY <1>1, <3>1, Zenon
    <3>4. place = "behind" /\ Head(reader'.doc) = v
      BY <2>5, <3>2, <3>3, NumberSecond
    <3>5. QED
      BY <3>1, <3>2, <3>4 DEF v
  <2>6. ReadsNumber(tokens, reader)'
    BY <2>2, <2>4, <2>5, Zenon DEF ReadsNumber
  <2>7. mode' = "read"
    BY DEF Feed
  <2>8. QED
    BY <1>5, <2>2, <2>3, <2>6, <2>7 DEF JsonInv
<1>8. QED
  BY <1>6, <1>7

\* Until the text has been sent, the parsers are halfway.
LEMMA WriterGoes ==
  ASSUME JsonInv, mode = "write", Unsent
  PROVE  /\ Sequence(tokens) /\ ~reader.done /\ Halfway(tokens, reader, iterative)
         /\ LevelsFit(levels, reader.frames, Place(levels, tokens))
         /\ Sequence(said) /\ Strings(MeantAll(tokens)) = SaidTokens(said)
<1>1. WriterInv /\ ReadInv
  BY DEF JsonInv
<1>2. ~reader.done
  BY <1>1 DEF WriterInv, WriterFits, Unsent
<1>3. Halfway(tokens, reader, iterative)
  BY <1>1, <1>2 DEF ReadInv, AllRead
<1>4. QED
  BY <1>1, <1>2, <1>3 DEF WriterInv, WriterFits, ReadInv

\* Where a text goes on, the invariant holds with what is said.
LEMMA WriterKept ==
  ASSUME mode' = "write", Sequence(tokens'), tokens' # <<>>, Halfway(tokens', reader', iterative'),
         LevelsFit(levels', reader'.frames, Place(levels', tokens')),
         Sequence(said'), Strings(MeantAll(tokens')) = SaidTokens(said')
  PROVE  JsonInv'
<1>1. ~reader'.done
  BY HalfwayParts
<1>2. WriterFits(levels', tokens', reader')
  BY <1>1 DEF WriterFits
<1>3. WriterInv'
  BY <1>2, Zenon DEF WriterInv
<1>4. ReadInv'
  BY Zenon DEF ReadInv
<1>5. QED
  BY <1>3, <1>4 DEF JsonInv

\* Writing a value or name, behind its comma or colon.
LEMMA PutKeeps ==
  ASSUME JsonInv, mode = "write", Unsent, NEW token, Writable(token), PutToken(token)
  PROVE  /\ Sequence(tokens') /\ tokens' # <<>> /\ Halfway(tokens', reader', iterative')
         /\ LevelsFit(levels', reader'.frames, Place(levels', tokens'))
         /\ Sequence(Strings(MeantAll(tokens)))
         /\ token.t # "string" => Strings(MeantAll(tokens')) = Strings(MeantAll(tokens))
         /\ token.t = "string" => Strings(MeantAll(tokens')) = Append(Strings(MeantAll(tokens)), Meant(token))
<1> DEFINE b == Before(levels)
           t1 == tokens \o b
           r1 == ReaderOn(reader, b)
           p1 == IterativeOn(iterative, b)
           n == Last(levels).valueCount
<1>1. /\ Sequence(tokens) /\ Halfway(tokens, reader, iterative)
      /\ LevelsFit(levels, reader.frames, Place(levels, tokens))
  BY WriterGoes
<1>2. (levels = <<>> => tokens = <<>>) /\ Due(levels, token.t)
  BY DEF PutToken, MayWrite, Due
<1>3. Prefix = b
  BY Zenon DEF Prefix, Before, Odd
<1>4. tokens' = Append(t1, token) /\ reader' = ParseNext(r1, token) /\ iterative' = IterativeNext(p1, token)
  <2>1. ReadNew(b, token)
    BY <1>3, Zenon DEF PutToken
  <2> HIDE DEF b
  <2>2. QED
    BY <2>1, Zenon DEF ReadNew, ReaderOn, IterativeOn
<1>5. LevelsBehind(levels', levels, token.t)
  BY Zenon DEF PutToken, LevelsBehind, Counting, More
<1>6. /\ Sequence(t1) /\ Halfway(t1, r1, p1) /\ LevelsFit(levels, r1.frames, Ready(levels))
      /\ Strings(MeantAll(t1)) = Strings(MeantAll(tokens))
  BY <1>1, <1>2, WriterBefore
<1> HIDE DEF b, t1, r1, p1
<1>7. /\ Sequence(Append(t1, token)) /\ Halfway(Append(t1, token), ParseNext(r1, token), IterativeNext(p1, token))
      /\ LevelsFit(levels', ParseNext(r1, token).frames, Place(levels', Append(t1, token)))
  BY <1>2, <1>5, <1>6, WriterThen
<1>8. /\ Sequence(Strings(MeantAll(t1))) /\ Append(t1, token) # <<>>
      /\ token.t # "string" => Strings(MeantAll(Append(t1, token))) = Strings(MeantAll(t1))
      /\ token.t = "string" => Strings(MeantAll(Append(t1, token))) = Append(Strings(MeantAll(t1)), Meant(token))
  BY <1>6, SaysAppended, SeqAppended
<1>9. QED
  BY <1>4, <1>6, <1>7, <1>8, Zenon

\* Writing a value keeps the invariant,
LEMMA ValueKeeps ==
  ASSUME JsonConstants, JsonInv, NEW t \in {"LeftCurly", "LeftBracket", "number", "null"}, WriteValue(t)
  PROVE  JsonInv'
<1> DEFINE token == IF t = "number" THEN Figure1 ELSE Token(t)
<1>1. mode = "write" /\ Unsent /\ PutToken(token) /\ mode' = mode /\ said' = said
  BY Zenon DEF WriteValue
<1>2. Writable(token) /\ token.t = t
  BY ValueWritable DEF JsonConstants
<1> HIDE DEF token
<1>3. Sequence(said) /\ Strings(MeantAll(tokens)) = SaidTokens(said)
  BY <1>1, WriterGoes
<1>4. /\ Sequence(tokens') /\ tokens' # <<>> /\ Halfway(tokens', reader', iterative')
      /\ LevelsFit(levels', reader'.frames, Place(levels', tokens'))
      /\ Strings(MeantAll(tokens')) = Strings(MeantAll(tokens))
  BY <1>1, <1>2, PutKeeps
<1>5. Strings(MeantAll(tokens')) = SaidTokens(said')
  BY <1>1, <1>3, <1>4, Zenon
<1>6. mode' = "write" /\ Sequence(said')
  BY <1>1, <1>3
<1>7. QED
  BY <1>4, <1>5, <1>6, WriterKept

\* writing a string,
LEMMA TextKeeps ==
  ASSUME JsonConstants, JsonInv, NEW s \in Texts \cup MoreTexts, WriteText(s)
  PROVE  JsonInv'
<1> DEFINE token == StringToken(WriteString(s))
<1>1. mode = "write" /\ Unsent /\ PutToken(token) /\ mode' = mode /\ said' = Append(said, s)
  BY Zenon DEF WriteText
<1>2. Sequence(s)
  BY DEF JsonConstants, Sequence
<1>3. Writable(token) /\ token.t = "string" /\ Meant(token) = StringToken(CString(s))
  BY <1>2, TextWritable
<1> HIDE DEF token
<1>4. Sequence(said) /\ Strings(MeantAll(tokens)) = SaidTokens(said)
  BY <1>1, WriterGoes
<1>5. /\ Sequence(tokens') /\ tokens' # <<>> /\ Halfway(tokens', reader', iterative')
      /\ LevelsFit(levels', reader'.frames, Place(levels', tokens'))
      /\ Strings(MeantAll(tokens')) = Append(Strings(MeantAll(tokens)), Meant(token))
  BY <1>1, <1>3, PutKeeps
<1>6. SaidTokens(Append(said, s)) = Append(SaidTokens(said), StringToken(CString(s)))
  BY <1>4, SaidAppended
<1>7. Strings(MeantAll(tokens')) = SaidTokens(said')
  BY <1>1, <1>3, <1>4, <1>5, <1>6, Zenon
<1>8. mode' = "write" /\ Sequence(said')
  BY <1>1, <1>4, SeqAppended
<1>9. QED
  BY <1>5, <1>7, <1>8, WriterKept

\* the end of a compound,
LEMMA EndKeeps ==
  ASSUME JsonInv, NEW t \in {"RightCurly", "RightBracket"}, WriteEnd(t)
  PROVE  JsonInv'
<1> DEFINE token == Token(t)
<1>1. mode = "write" /\ Unsent /\ MayEnd(t) /\ ReadNew(<<>>, token) /\ levels' = Front(levels) /\ mode' = mode /\ said' = said
  BY Zenon DEF WriteEnd
<1>2. token.t = t
  BY TokenIs
<1> HIDE DEF token
<1>3. /\ Sequence(tokens) /\ Halfway(tokens, reader, iterative)
      /\ LevelsFit(levels, reader.frames, Place(levels, tokens))
      /\ Sequence(said) /\ Strings(MeantAll(tokens)) = SaidTokens(said)
  BY <1>1, WriterGoes
<1>4. tokens' = Append(tokens, token) /\ reader' = ParseNext(reader, token) /\ iterative' = IterativeNext(iterative, token)
  BY <1>1, <1>3, ReadNewOne
<1>5. levels # <<>> /\ (~Last(levels).inArray => Last(levels).valueCount % 2 = 0)
  BY <1>1 DEF MayEnd
<1>6. token.t = (IF Last(levels).inArray THEN "RightBracket" ELSE "RightCurly")
  <2>1. Last(levels).inArray <=> t = "RightBracket"
    BY <1>1, Zenon DEF MayEnd
  <2>2. QED
    BY <1>2, <2>1
<1>7. /\ Sequence(Append(tokens, token)) /\ Halfway(Append(tokens, token), ParseNext(reader, token), IterativeNext(iterative, token))
      /\ LevelsFit(Front(levels), ParseNext(reader, token).frames, Place(Front(levels), Append(tokens, token)))
  BY <1>3, <1>5, <1>6, WriterEnds
<1>8. token.t # "string"
  BY <1>2
<1>9. Strings(MeantAll(Append(tokens, token))) = Strings(MeantAll(tokens)) /\ Append(tokens, token) # <<>>
  BY <1>3, <1>8, SaysAppended, SeqAppended
<1>10. /\ Sequence(tokens') /\ tokens' # <<>> /\ Halfway(tokens', reader', iterative')
       /\ LevelsFit(levels', reader'.frames, Place(levels', tokens'))
       /\ Strings(MeantAll(tokens')) = SaidTokens(said')
  BY <1>1, <1>3, <1>4, <1>7, <1>9, Zenon
<1>11. mode' = "write" /\ Sequence(said')
  BY <1>1, <1>3
<1>12. QED
  BY <1>10, <1>11, WriterKept

\* and the end of the text.
LEMMA DoneKeeps ==
  ASSUME JsonInv, WriteDone
  PROVE  JsonInv'
<1> DEFINE token == Token("end")
<1>1. mode = "write" /\ Unsent /\ ReadNew(<<>>, token) /\ levels = <<>> /\ tokens # <<>> /\ mode' = mode /\ said' = said
  BY Zenon DEF WriteDone
<1>2. token.t = "end"
  BY TokenIs
<1> HIDE DEF token
<1>3. /\ Sequence(tokens) /\ Halfway(tokens, reader, iterative)
      /\ LevelsFit(levels, reader.frames, Place(levels, tokens))
      /\ Sequence(said) /\ Strings(MeantAll(tokens)) = SaidTokens(said)
  BY <1>1, WriterGoes
<1>4. tokens' = Append(tokens, token) /\ reader' = ParseNext(reader, token) /\ iterative' = IterativeNext(iterative, token)
  BY <1>1, <1>3, ReadNewOne
<1>5. LevelsFit(<<>>, reader.frames, Place(<<>>, tokens))
  BY <1>1, <1>3, Zenon
<1>6. /\ Sequence(Append(tokens, token)) /\ AllRead(Append(tokens, token), ParseNext(reader, token), IterativeNext(iterative, token))
      /\ ParseNext(reader, token).done /\ ParseNext(reader, token).err = "none"
  BY <1>1, <1>2, <1>3, <1>5, WriterStops
<1>7. Strings(MeantAll(Append(tokens, token))) = Strings(MeantAll(tokens))
  BY <1>2, <1>3, SaysAppended
<1>8. Append(tokens, token) # <<>> /\ Last(Append(tokens, token)) = token
  BY <1>3, SeqAppended
<1>9. WriterFits(levels', tokens', reader')
  <2>1. tokens' # <<>> /\ Last(tokens') = token /\ reader'.done /\ reader'.err = "none"
    BY <1>4, <1>6, <1>8, Zenon
  <2>2. QED
    BY <1>2, <2>1 DEF WriterFits
<1>10. WriterInv'
  <2>1. Strings(MeantAll(tokens')) = SaidTokens(said') /\ Sequence(said')
    BY <1>1, <1>3, <1>4, <1>7, Zenon
  <2>2. QED
    BY <1>9, <2>1, Zenon DEF WriterInv
<1>11. ReadInv'
  <2>1. Sequence(tokens') /\ tokens' # <<>> /\ AllRead(tokens', reader', iterative')
    BY <1>4, <1>6, <1>8, Zenon
  <2>2. QED
    BY <2>1, Zenon DEF ReadInv
<1>12. QED
  BY <1>1, <1>10, <1>11 DEF JsonInv

------------------------------------------------------------------------------
(* What follows                                                             *)

\* Every step keeps the invariant.
LEMMA JsonStep ==
  ASSUME JsonConstants, JsonInv, [JsonNext]_jsonVars
  PROVE  JsonInv'
<1>1. CASE mode = "read" /\ ~reader.done /\ \E token \in NextTokens : Feed(token)
  BY <1>1, FeedKeeps
<1>2. CASE \E t \in {"LeftCurly", "LeftBracket", "number", "null"} : WriteValue(t)
  BY <1>2, ValueKeeps
<1>3. CASE \E s \in (IF said = <<>> THEN Texts ELSE MoreTexts) : WriteText(s)
  BY <1>3, TextKeeps
<1>4. CASE \E t \in {"RightCurly", "RightBracket"} : WriteEnd(t)
  BY <1>4, EndKeeps
<1>5. CASE WriteDone
  BY <1>5, DoneKeeps
<1>6. CASE UNCHANGED jsonVars
  BY <1>6, Zenon DEF jsonVars, JsonInv, ReadInv, WriterInv
<1>7. QED
  BY <1>1, <1>2, <1>3, <1>4, <1>5, <1>6, Zenon DEF JsonNext

\* It has what is read back,
LEMMA ReadsBackHolds == ASSUME JsonInv PROVE ReadsBack
<1> SUFFICES ASSUME Accepted
             PROVE  /\ Len(reader.doc) = 1
                    /\ [j \in DOMAIN tokens |-> Meant(tokens[j])] = Append(DocumentTokens, Token("end"))
  BY DEF ReadsBack
<1>1. AllRead(tokens, reader, iterative)
  BY HalfwayOn DEF JsonInv, ReadInv, Accepted
<1>2. Len(reader.doc) = 1 /\ MeantAll(tokens) = Append(TokensOf(Head(reader.doc), Len(tokens)), Token("end"))
  BY <1>1, Zenon DEF AllRead, Accepted
<1>3. QED
  BY <1>2, Zenon DEF MeantAll, DocumentTokens

\* the agreement of the parsers,
LEMMA ParsersAgreeHolds == ASSUME JsonInv PROVE ParsersAgree
<1>1. CASE Halfway(tokens, reader, iterative)
  <2>1. ~reader.done /\ ~iterative.done /\ reader.doc = iterative.doc /\ reader.err = "none" /\ iterative.err = "none"
    BY <1>1, HalfwayOn
  <2>2. reader.done = FALSE /\ iterative.done = FALSE
    <3>1. PICK F, doc : reader = Reading(F, doc) /\ iterative = Mirror(F, doc)
      BY <1>1, Zenon DEF Halfway
    <3>2. reader.done = FALSE
      BY <3>1 DEF Reading
    <3>3. \E a, b, c, e : iterative = Iterating(a, b, c, e)
      BY <3>1, Zenon DEF Mirror
    <3>4. iterative.done = FALSE
      BY <3>3 DEF Iterating
    <3>5. QED
      BY <3>2, <3>4
  <2>3. QED
    BY <2>1, <2>2, Zenon DEF ParsersAgree
<1>2. CASE AllRead(tokens, reader, iterative)
  BY <1>2, Zenon DEF ParsersAgree, AllRead
<1>3. QED
  BY <1>1, <1>2 DEF JsonInv, ReadInv

\* the strings of a reply,
LEMMA RepliesSurviveHolds == ASSUME JsonInv PROVE RepliesSurvive
<1> SUFFICES ASSUME mode = "write"
             PROVE  /\ reader.err = "none"
                    /\ reader.done => Strings(DocumentTokens) = SaidTokens(said)
  BY Zenon DEF RepliesSurvive, SaidTokens
<1>1. WriterInv /\ ReadInv
  BY DEF JsonInv
<1>2. CASE Halfway(tokens, reader, iterative)
  BY <1>2, HalfwayOn
<1>3. CASE AllRead(tokens, reader, iterative)
  <2>1. reader.done
    BY <1>3 DEF AllRead
  <2>2. reader.err = "none"
    BY <1>1, <2>1 DEF WriterInv, WriterFits
  <2>3. Sequence(DocumentTokens) /\ MeantAll(tokens) = Append(DocumentTokens, Token("end"))
    BY <1>3, <2>2, Zenon DEF AllRead, DocumentTokens
  <2>4. Token("end").t # "string"
    BY TokenIs
  <2>5. Strings(Append(DocumentTokens, Token("end"))) = Strings(DocumentTokens)
    BY <2>3, <2>4, StringsAppended
  <2>6. Strings(MeantAll(tokens)) = SaidTokens(said)
    BY <1>1 DEF WriterInv
  <2>7. QED
    BY <2>2, <2>3, <2>5, <2>6, Zenon
<1>4. QED
  BY <1>1, <1>2, <1>3 DEF ReadInv

\* and the value of an integer.
LEMMA IntegersExactHolds == ASSUME JsonConstants, JsonInv PROVE IntegersExact
<1> DEFINE raw == tokens[1].raw
           v == Head(reader.doc)
           N == ParseNumber(raw)
<1>1. SUFFICES ASSUME mode = "read", Len(tokens) = 2, tokens[1].t = "number", Accepted, Range(DigitsOf(raw)) \subseteq Digits
               PROVE  IntegerRead(raw, v.kind, v.num)
  BY Zenon DEF IntegersExact, IntegerRead, FitsIn, DigitsOf
<1>2. tokens # <<>>
  BY <1>1
<1>3. Sequence(raw)
  <2>1. tokens[1] \in [t : STRING, raw : Seq(STRING)]
    BY <1>1, <1>2 DEF JsonInv, JsonConstants
  <2>2. QED
    BY <2>1 DEF Sequence
<1>4. Scalar(tokens[1]).err = "none" /\ ~Scalar(tokens[1]).rest /\ v = Scalar(tokens[1]).value
  <2>1. ReadsNumber(tokens, reader)
    BY <1>1 DEF JsonInv
  <2>2. QED
    BY <1>1, <1>2, <2>1, Zenon DEF ReadsNumber, Accepted
<1>5. N.err = "none" /\ ~N.rest /\ v = [kind |-> N.type, num |-> N.num]
  BY <1>1, <1>4, ScalarNumber
<1>6. v.kind = N.type /\ v.num = N.num
  <2> HIDE DEF v, N
  <2>1. QED
    BY <1>5
<1>7. \A j \in 1..Len(DigitsOf(raw)) : DigitsOf(raw)[j] \in Digits
  <2> DEFINE d == DigitsOf(raw)
  <2>1. Sequence(d)
    <3>1. CASE raw[1] = "-"
      <4>1. CASE raw = <<>>
        <5>1. d = Tail(raw)
          BY <3>1 DEF DigitsOf
        <5>2. N.err = "ValueInvalid"
          <6>1. CharAt(raw, 1) = "NUL" /\ "NUL" \notin Digits /\ "NUL" # "-"
            <7>1. Len(raw) = 0
              BY <4>1
            <7> HIDE DEF raw
            <7>2. ~(1 <= Len(raw))
              BY <7>1
            <7>3. CharAt(raw, 1) = "NUL"
              BY <7>2, Zenon DEF CharAt
            <7>4. QED
              BY <7>3, DecimalDigits
          <6> DEFINE minus == (CharAt(raw, 1) = "-")
          <6> HIDE DEF raw
          <6>2. ~minus
            BY <6>1
          <6>3. ParseNumber(raw) = [err |-> "ValueInvalid", type |-> "none", num |-> 0, rest |-> FALSE]
            BY <6>1, <6>2, Zenon DEF ParseNumber
          <6>4. QED
            BY <6>3
        <5>3. QED
          BY <1>5, <5>2
      <4>2. CASE raw # <<>>
        <5>1. Len(raw) >= 1
          BY <1>3, <4>2, SeqParts
        <5>2. Sequence(Tail(raw))
          BY <1>3, <5>1, TailIs
        <5>3. QED
          BY <3>1, <5>2 DEF DigitsOf
      <4>3. QED
        BY <4>1, <4>2
    <3>2. CASE raw[1] # "-"
      BY <1>3, <3>2 DEF DigitsOf
    <3>3. QED
      BY <3>1, <3>2
  <2>2. Range(d) \subseteq Digits
    BY <1>1
  <2> HIDE DEF d
  <2>3. \A j \in 1..Len(d) : d[j] \in Digits
    BY <2>1, <2>2 DEF Range, Sequence
  <2>4. QED
    BY <2>3 DEF d
<1>8. IntegerRead(raw, N.type, N.num)
  <2> HIDE DEF raw
  <2>1. N.err = "none" /\ ~N.rest
    BY <1>5
  <2>2. JsonTextConstants
    BY DEF JsonConstants
  <2>3. QED
    BY <1>3, <1>7, <2>1, <2>2, IntegerExact
<1>9. QED
  BY <1>6, <1>8, Zenon

\* A request is accepted only if it is the text of the document read from it, by both parsers
\* of the library or by neither; an integer in it keeps its value and the strings of a reply
\* arrive as they were given to the Writer, whatever the texts and however they are nested.
THEOREM JsonFaithfulHolds == ASSUME JsonConstants PROVE JsonSpec => []JsonFaithful
<1>1. JsonInit => JsonInv
  BY JsonStarts
<1>2. JsonInv /\ [JsonNext]_jsonVars => JsonInv'
  BY JsonStep
<1>3. JsonInv => JsonFaithful
  BY ReadsBackHolds, ParsersAgreeHolds, RepliesSurviveHolds, IntegersExactHolds DEF JsonFaithful
<1>4. QED
  BY <1>1, <1>2, <1>3, PTL DEF JsonSpec
==============================================================================
