-------------------------------- MODULE HexText --------------------------------
(***************************************************************************)
(* The hexadecimal texts that orders and answers travel in.                *)
(*                                                                         *)
(* A text is a sequence of one-character strings; "LF" stands for a line   *)
(* feed, "NUL" for the end of a C string.                                  *)
(***************************************************************************)
EXTENDS Integers, Sequences, SequencesExt, FiniteSetsExt

HexDigits ==
  <<"0", "1", "2", "3", "4", "5", "6", "7", "8", "9", "a", "b", "c", "d", "e", "f">>
Digits == Range(SubSeq(HexDigits, 1, 10))
UpperDigits == <<"A", "B", "C", "D", "E", "F">>
HexValue ==
  [c \in Range(HexDigits) \cup Range(UpperDigits) |->
    CHOOSE n \in 0..15 : HexDigits[n + 1] = c \/ (n >= 10 /\ UpperDigits[n - 9] = c)]

\* The value of a hexadecimal digit, or -1.
hex_to_bin(c) == IF c \in DOMAIN HexValue THEN HexValue[c] ELSE -1

CharAt(raw, k) == IF k <= Len(raw) THEN raw[k] ELSE "NUL"

Blank == " "
IsSpace(c) == c = Blank \/ c = "LF"

------------------------------------------------------------------------------
(* Bytes to text                                                           *)

ByteText(byte) == <<HexDigits[byte \div 16 + 1], HexDigits[(byte % 16) + 1], Blank>>

\* As many bytes as there is room for, as "0a ff ".
Dumped(bytes, room) == FlattenSeq([j \in 1..Min({Len(bytes), room}) |-> ByteText(bytes[j])])

\* Mutant: the last byte's space is forgotten.
DumpMore(bytes, linebuflen) == Dumped(bytes, (linebuflen + 1) \div 3)

hex_dump_to_buffer(bytes, linebuflen) == Dumped(bytes, linebuflen \div 3)

------------------------------------------------------------------------------
(* Text to bytes                                                           *)

\* hex2bin_trim_len() at the character numbered k; bad: it has returned.
Untrimmed == [k |-> 1, dst |-> <<>>, bad |-> FALSE]

TrimStep(st, src) ==
  LET c == CharAt(src, st.k)
      hi == hex_to_bin(c)  lo == hex_to_bin(CharAt(src, st.k + 1))
  IN CASE st.bad -> st
       [] ~st.bad /\ IsSpace(c) -> [st EXCEPT !.k = @ + 1]
       [] ~st.bad /\ ~IsSpace(c) /\ (hi < 0 \/ lo < 0) -> [st EXCEPT !.bad = TRUE]
       [] OTHER -> [k |-> st.k + 2, dst |-> Append(st.dst, 16 * hi + lo), bad |-> FALSE]

\* It takes as many steps as src has characters, though a step may take two of them.
Trimmed(src, count) ==
  LET st[n \in 0..count] == IF n = 0 THEN Untrimmed ELSE TrimStep(st[n - 1], src)
  IN st[count]

\* len - 1: at the end of the loop this is one less than there are bytes.
TrimResult(st) == [dst |-> st.dst, length |-> IF st.bad THEN Len(st.dst) ELSE Len(st.dst) - 1]

\* Mutant: one step for every two characters.
TrimHalf(src) == TrimResult(Trimmed(src, Len(src) \div 2))

hex2bin_trim_len(src) == TrimResult(Trimmed(src, Len(src)))

\* The words of a setorder, as parse_setorder() cuts them.
CutChar(st, c) ==
  CASE c # Blank -> [st EXCEPT !.word = Append(@, c)]
    [] c = Blank /\ st.word # <<>> -> [words |-> Append(st.words, st.word), word |-> <<>>]
    [] OTHER -> st

Finished(st) == IF st.word = <<>> THEN st.words ELSE Append(st.words, st.word)

NothingCut == [words |-> <<>>, word |-> <<>>]
WordsOf(string) == Finished(FoldLeft(CutChar, NothingCut, string))

\* Of a word only the first two characters count; what is no digit counts as 0.
hex2bin_zero(word) ==
  LET value(c) == IF hex_to_bin(c) < 0 THEN 0 ELSE hex_to_bin(c)
  IN IF Len(word) = 1 THEN value(word[1]) ELSE 16 * value(word[1]) + value(word[2])
================================================================================
