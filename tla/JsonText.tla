------------------------------- MODULE JsonText -------------------------------
(***************************************************************************)
(* The pieces of a JSON text, as rapidjson writes and reads them.          *)
(*                                                                         *)
(* A text is a sequence of one-character strings.  "LF" and "SOH" stand    *)
(* for control characters with and without a short escape, "hi" for a byte *)
(* from 80 to FF, "NUL" for the end of a C string, "quote" for the mark    *)
(* around a string.  Integers have two widths, whose negative limits are   *)
(* Half32 and Half64.                                                      *)
(***************************************************************************)
EXTENDS HexText

CONSTANTS Half32, Half64,   \* 2^31 and 2^63, smaller for TLC
          MaxExp            \* 308, the largest decimal exponent of a double

JsonTextConstants ==
  /\ Half32 \in Nat /\ Half64 \in Nat /\ Half32 >= 10 /\ Half64 > Half32
  /\ MaxExp \in Nat

\* A C string ends at its first NUL.
CString(s) ==
  LET nuls == {j \in DOMAIN s : s[j] = "NUL"}
  IN IF nuls = {} THEN s ELSE SubSeq(s, 1, Min(nuls) - 1)

------------------------------------------------------------------------------
(* Strings                                                                 *)

Controls == {"LF", "SOH"}

\* What the Writer makes of a character.
Escaped(c) ==
  CASE c \in {"quote", "\\"} -> <<"\\", c>>
    [] c = "LF" -> <<"\\", "n">>
    [] c = "SOH" -> <<"\\", "u", "0", "0", "0", "1">>
    [] OTHER -> <<c>>

\* Mutant: a backslash is written as it is.
EscapedOnce(c) ==
  CASE c = "quote" -> <<"\\", c>>
    [] c = "LF" -> <<"\\", "n">>
    [] c = "SOH" -> <<"\\", "u", "0", "0", "0", "1">>
    [] OTHER -> <<c>>

EscapedChar(c) == Escaped(c)
WriteString(s) == FlattenSeq([j \in DOMAIN CString(s) |-> EscapedChar(s[j])])

\* UTF8::Encode(), as far as the texts here need it.
EncodeUTF8(codepoint) ==
  CASE codepoint = 1 -> <<"SOH">> [] codepoint = 10 -> <<"LF">> [] codepoint = 65 -> <<"A">>
    [] codepoint = 0 -> <<"NUL">>
    [] codepoint \in 128..2047 -> <<"hi", "hi">>
    [] codepoint \in 2048..65535 -> <<"hi", "hi", "hi">>
    [] codepoint > 65535 -> <<"hi", "hi", "hi", "hi">>
    [] OTHER -> <<"a">>

\* The code point of four digits from position k on, or -1.
ParseHex4(raw, k) ==
  LET digit(j) == hex_to_bin(CharAt(raw, k + j))
  IN IF \E j \in 0..3 : digit(j) = -1 THEN -1
     ELSE 4096 * digit(0) + 256 * digit(1) + 16 * digit(2) + digit(3)

HighSurrogate == 55296..56319
LowSurrogate == 56320..57343

\* What an escape that begins at k stands for, and how long it is: e follows the backslash,
\* then come one or two code points.
EscapeOf(raw, k, e, codepoint, codepoint2) ==
  LET Fails(err) == [err |-> err, str |-> <<>>, length |-> 1]
      Is(str, n) == [err |-> "none", str |-> str, length |-> n]
  IN CASE e \in {"quote", "\\", "/"} -> Is(<<e>>, 2)
       [] e = "n" -> Is(<<"LF">>, 2)
       [] e \in {"b", "f", "r", "t"} -> Is(<<"SOH">>, 2)
       [] e = "u" /\ codepoint = -1 -> Fails("StringUnicodeEscapeInvalidHex")
       [] e = "u" /\ codepoint \in HighSurrogate ->
            IF <<CharAt(raw, k + 6), CharAt(raw, k + 7)>> # <<"\\", "u">>
            THEN Fails("StringUnicodeSurrogateInvalid")
            ELSE IF codepoint2 = -1 THEN Fails("StringUnicodeEscapeInvalidHex")
            ELSE IF codepoint2 \notin LowSurrogate THEN Fails("StringUnicodeSurrogateInvalid")
            ELSE Is(EncodeUTF8(1024 * (codepoint - 55296) + (codepoint2 - 56320) + 65536), 12)
       [] e = "u" /\ codepoint \notin HighSurrogate \cup {-1} -> Is(EncodeUTF8(codepoint), 6)
       [] OTHER -> Fails("StringEscapeInvalid")

Escape(raw, k) == EscapeOf(raw, k, CharAt(raw, k + 1), ParseHex4(raw, k + 2), ParseHex4(raw, k + 8))

\* The string between quotes at the character numbered k; without a closing quote raw ends
\* with "NUL".
NothingRead == [k |-> 1, err |-> "none", str |-> <<>>]

StringFails(st, err) == [k |-> st.k, err |-> err, str |-> <<>>]
StringGoes(st, length, str) == [k |-> st.k + length, err |-> "none", str |-> st.str \o str]

UnescapeStep(st, raw) ==
  LET c == CharAt(raw, st.k)
      escape == Escape(raw, st.k)
  IN IF st.k > Len(raw) \/ st.err # "none" THEN st
     ELSE CASE c = "\\" /\ escape.err # "none" -> StringFails(st, escape.err)
            [] c = "\\" /\ escape.err = "none" -> StringGoes(st, escape.length, escape.str)
            [] c = "NUL" -> StringFails(st, "StringMissQuotationMark")
            [] c \in Controls -> StringFails(st, "StringEscapeInvalid")
            [] OTHER -> StringGoes(st, 1, <<c>>)

Unescaped(raw, count) ==
  LET st[n \in 0..count] == IF n = 0 THEN NothingRead ELSE UnescapeStep(st[n - 1], raw)
  IN st[count]

ParseString(raw) == Unescaped(raw, Len(raw))

------------------------------------------------------------------------------
(* Numbers                                                                 *)

\* Would the next digit take n beyond max?
Exceeds(n, c, max) == n >= max \div 10 /\ (n # max \div 10 \/ hex_to_bin(c) > max % 10)

\* Mutant: the last digit is not looked at.
ExceedsEarly(n, c, max) == n >= max \div 10

Overflows(n, c, max) == Exceeds(n, c, max)

TenTimes(n, c) == 10 * n + hex_to_bin(c)
Decimal(digits) ==
  LET value[j \in 0..Len(digits)] == IF j = 0 THEN 0 ELSE TenTimes(value[j - 1], digits[j])
  IN value[Len(digits)]

\* The digits from k on that n takes before it would pass max: [n, k].
AccumulateStep(st, raw, max) ==
  IF CharAt(raw, st.k) \notin Digits \/ Overflows(st.n, CharAt(raw, st.k), max) THEN st
  ELSE [n |-> TenTimes(st.n, CharAt(raw, st.k)), k |-> st.k + 1]

Accumulate(raw, k, n, max) ==
  LET st[m \in 0..Len(raw)] ==
        IF m = 0 THEN [n |-> n, k |-> k] ELSE AccumulateStep(st[m - 1], raw, max)
  IN st[Len(raw)]

SkipDigits(raw, k) == Min({j \in k..(Len(raw) + 1) : CharAt(raw, j) \notin Digits})

\* The stages of ParseNumber(): an integer n, the index k behind it, whether it takes 64
\* bits or more than they have;
Limit(minus, half) == IF minus THEN half ELSE 2 * half - 1

Integer32(raw, start, minus) ==
  IF CharAt(raw, start) = "0" THEN [n |-> 0, k |-> start + 1]
  ELSE Accumulate(raw, start + 1, hex_to_bin(CharAt(raw, start)), Limit(minus, Half32))

Integer64(raw, i) ==
  [n |-> i.n, use64bit |-> TRUE, big |-> CharAt(raw, i.k) \in Digits, k |-> SkipDigits(raw, i.k)]

IntegerOf(raw, start, minus, i) ==
  IF CharAt(raw, start) # "0" /\ CharAt(raw, i.k) \in Digits
  THEN Integer64(raw, Accumulate(raw, i.k, i.n, Limit(minus, Half64)))
  ELSE [n |-> i.n, use64bit |-> FALSE, big |-> FALSE, k |-> i.k]

\* its fraction from k on; its exponent, with the sign it has.
Fraction(raw, k) ==
  IF CharAt(raw, k) = "." THEN [given |-> TRUE, from |-> k + 1, k |-> SkipDigits(raw, k + 1)]
  ELSE [given |-> FALSE, from |-> k, k |-> k]

Exponent(raw, k) ==
  LET from == IF CharAt(raw, k + 1) \in {"+", "-"} THEN k + 2 ELSE k + 1
  IN IF CharAt(raw, k) \in {"e", "E"}
     THEN [given |-> TRUE, minus |-> CharAt(raw, k + 1) = "-", from |-> from, k |-> SkipDigits(raw, from)]
     ELSE [given |-> FALSE, minus |-> FALSE, from |-> k, k |-> k]

\* The type of the number, its value if it is an integer, and whether some of raw is left.
\* A double has no value here: an integer of more than 308 digits, which the code refuses, is
\* one, and all digits of a fraction count for the limit of the exponent.
NumberOf(raw, minus, int, frac, exp) ==
  LET Fails(err) == [err |-> err, type |-> "none", num |-> 0, rest |-> FALSE]
      Is(type, n) == [err |-> "none", type |-> type, num |-> n, rest |-> exp.k <= Len(raw)]
      size == Decimal(SubSeq(raw, exp.from, exp.k - 1))
      toobig == ~exp.minus /\ exp.k > exp.from + 1 /\ size > MaxExp + (frac.k - frac.from)
  IN IF frac.given /\ frac.k = frac.from THEN Fails("NumberMissFraction")
     ELSE IF exp.given /\ exp.k = exp.from THEN Fails("NumberMissExponent")
     ELSE IF exp.given /\ toobig THEN Fails("NumberTooBig")
     ELSE IF int.big \/ frac.given \/ exp.given THEN Is("Double", 0)
     ELSE IF minus THEN Is(IF int.use64bit THEN "Int64" ELSE "Int", -int.n)
     ELSE Is(IF int.use64bit THEN "Uint64" ELSE "Uint", int.n)

BehindFraction(raw, minus, int, frac) == NumberOf(raw, minus, int, frac, Exponent(raw, frac.k))
BehindInteger(raw, minus, int) == BehindFraction(raw, minus, int, Fraction(raw, int.k))

ParseNumber(raw) ==
  LET minus == CharAt(raw, 1) = "-"
      start == IF minus THEN 2 ELSE 1
  IN IF CharAt(raw, start) \notin Digits
     THEN [err |-> "ValueInvalid", type |-> "none", num |-> 0, rest |-> FALSE]
     ELSE BehindInteger(raw, minus, IntegerOf(raw, start, minus, Integer32(raw, start, minus)))
==============================================================================
