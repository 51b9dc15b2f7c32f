---------------------------------- MODULE Json ----------------------------------
(***************************************************************************)
(* The JSON of the UDP server.  A request is read by rapidjson's Reader    *)
(* into a Document, a reply is written by its Writer and read by a client. *)
(*                                                                         *)
(* The Reader descends recursively: its call stack is a sequence of        *)
(* frames.  The library also has an iterative parser, driven by a table:   *)
(* both are given every text, token by token.                              *)
(***************************************************************************)
EXTENDS JsonText

CONSTANTS
  Tokens,      \* [t, raw]: what a request may be made of
  Roots,       \* more texts of one token
  Texts,       \* the first string of a reply
  MoreTexts,   \* and the others
  MaxTokens

VARIABLES
  mode,        \* "read", "write"
  tokens,      \* the text so far
  reader, iterative,
  levels,      \* level_stack_ of the Writer: [inArray, valueCount]
  said         \* the strings the Writer was given

JsonConstants ==
  /\ JsonTextConstants
  /\ Tokens \cup Roots \subseteq [t: STRING, raw: Seq(STRING)]
  /\ Texts \cup MoreTexts \subseteq Seq(STRING)

jsonVars == <<mode, tokens, reader, iterative, levels, said>>

Token(t) == [t |-> t, raw |-> <<>>]
StringToken(raw) == [t |-> "string", raw |-> raw]
Scalars == {"string", "number", "null", "true", "false"}

------------------------------------------------------------------------------
(* The Document: handlers push values, the end of a compound pops them.    *)

EndArray(doc, n) ==
  LET base == Len(doc) - n
  IN Append(SubSeq(doc, 1, base - 1), [kind |-> "array", elements |-> SubSeq(doc, base + 1, Len(doc))])

EndObject(doc, n) ==
  LET base == Len(doc) - 2 * n
  IN Append(SubSeq(doc, 1, base - 1),
       [kind |-> "object",
        members |-> [j \in 1..n |-> [name |-> doc[base + 2 * j - 1].str, value |-> doc[base + 2 * j]]]])

Figure1 == [t |-> "number", raw |-> <<"1">>]

\* A string, number or literal: [err, value, rest], rest when part of the number is left.
Scalar(token) ==
  CASE token.t = "string" ->
         LET s == ParseString(token.raw)
         IN [err |-> s.err, value |-> [kind |-> "string", str |-> s.str], rest |-> FALSE]
    [] token.t = "number" ->
         LET n == ParseNumber(token.raw)
         IN [err |-> n.err, value |-> [kind |-> n.type, num |-> n.num], rest |-> n.rest]
    [] token.t \in {"null", "true", "false"} ->
         [err |-> "none", value |-> [kind |-> token.t], rest |-> FALSE]
    [] OTHER -> [err |-> "ValueInvalid", value |-> [kind |-> "null"], rest |-> FALSE]

------------------------------------------------------------------------------
(* The recursive parser                                                    *)

Frame(in) == [in |-> in, at |-> "first", n |-> 0]
Reading(frames, doc) == [frames |-> frames, doc |-> doc, err |-> "none", done |-> FALSE]
FreshReader == Reading(<<Frame("root")>>, <<>>)

Inner(r) == Last(r.frames)
Goes(r, doc, at) == Reading(Append(Front(r.frames), [Inner(r) EXCEPT !.at = at]), doc)
Errs(r, err) == [frames |-> r.frames, doc |-> <<>>, err |-> err, done |-> TRUE]

\* A value has been parsed: ++memberCount, ++elementCount.
Counted(frames, doc, at) ==
  Reading(Append(Front(frames), [in |-> Last(frames).in, at |-> at, n |-> Last(frames).n + 1]), doc)

ParseValue(r, token, scalar) ==
  CASE token.t \in {"LeftCurly", "LeftBracket"} ->
         Reading(Append(r.frames, Frame(IF token.t = "LeftCurly" THEN "object" ELSE "array")),
                 Append(r.doc, [kind |-> "open"]))
    [] token.t \in Scalars /\ scalar.err = "none" ->
         Counted(r.frames, Append(r.doc, scalar.value), IF scalar.rest THEN "rest" ELSE "behind")
    [] OTHER -> Errs(r, scalar.err)

Ended(r, doc) == Counted(Front(r.frames), doc, "behind")

Name(r, token, scalar) ==
  CASE token.t # "string" -> Errs(r, "ObjectMissName")
    [] token.t = "string" /\ scalar.err # "none" -> Errs(r, scalar.err)
    [] OTHER -> Goes(r, Append(r.doc, scalar.value), "colon")

\* Mutant: the value may follow the name without a colon.
ParseObjectLax(r, token, scalar) ==
  LET at == Inner(r).at
  IN CASE at \in {"first", "behind"} /\ token.t = "RightCurly" -> Ended(r, EndObject(r.doc, Inner(r).n))
       [] at = "behind" /\ token.t = "Comma" -> Goes(r, r.doc, "name")
       [] at = "rest" \/ (at = "behind" /\ token.t \notin {"RightCurly", "Comma"}) ->
            Errs(r, "ObjectMissCommaOrCurlyBracket")
       [] at = "name" \/ (at = "first" /\ token.t # "RightCurly") -> Name(r, token, scalar)
       [] at = "colon" /\ token.t = "Colon" -> Goes(r, r.doc, "value")
       [] OTHER -> ParseValue(r, token, scalar)

ParseObject(r, token, scalar) ==
  LET at == Inner(r).at
  IN CASE at \in {"first", "behind"} /\ token.t = "RightCurly" -> Ended(r, EndObject(r.doc, Inner(r).n))
       [] at = "behind" /\ token.t = "Comma" -> Goes(r, r.doc, "name")
       [] at = "rest" \/ (at = "behind" /\ token.t \notin {"RightCurly", "Comma"}) ->
            Errs(r, "ObjectMissCommaOrCurlyBracket")
       [] at = "name" \/ (at = "first" /\ token.t # "RightCurly") -> Name(r, token, scalar)
       [] at = "colon" /\ token.t = "Colon" -> Goes(r, r.doc, "value")
       [] at = "colon" /\ token.t # "Colon" -> Errs(r, "ObjectMissColon")
       [] at = "value" -> ParseValue(r, token, scalar)

ParseArray(r, token, scalar) ==
  LET at == Inner(r).at
  IN CASE at \in {"first", "behind"} /\ token.t = "RightBracket" -> Ended(r, EndArray(r.doc, Inner(r).n))
       [] at = "behind" /\ token.t = "Comma" -> Goes(r, r.doc, "value")
       [] at = "rest" \/ (at = "behind" /\ token.t \notin {"RightBracket", "Comma"}) ->
            Errs(r, "ArrayMissCommaOrSquareBracket")
       [] at = "value" \/ (at = "first" /\ token.t # "RightBracket") -> ParseValue(r, token, scalar)

\* Parse(): one value and nothing behind it.
ParseRoot(r, token, scalar) ==
  CASE Inner(r).at = "first" /\ token.t = "end" -> Errs(r, "DocumentEmpty")
    [] Inner(r).at = "first" /\ token.t # "end" -> ParseValue(r, token, scalar)
    [] Inner(r).at = "behind" /\ token.t = "end" -> [r EXCEPT !.done = TRUE]
    [] OTHER -> Errs(r, "DocumentRootNotSingular")

Parse(r, token, scalar) ==
  CASE r.done -> r
    [] ~r.done /\ Inner(r).in = "object" -> ParseObject(r, token, scalar)
    [] ~r.done /\ Inner(r).in = "array" -> ParseArray(r, token, scalar)
    [] OTHER -> ParseRoot(r, token, scalar)

ParseNext(r, token) == Parse(r, token, Scalar(token))

------------------------------------------------------------------------------
(* The iterative parser                                                    *)

Iterating(state, stack, doc, rest) ==
  [state |-> state, stack |-> stack, doc |-> doc, err |-> "none", done |-> FALSE, rest |-> rest]
IterativeStart == Iterating("Start", <<>>, <<>>, FALSE)
Expecting == {"Start", "ArrayInitial", "ElementDelimiter", "KeyValueDelimiter"}

\* Tokenize(): a byte that begins no token counts as the beginning of a number.
Valued == Scalars \cup {"junk"}

Predict(state, t) ==
  CASE state \in Expecting /\ t = "LeftBracket" -> "ArrayInitial"
    [] state \in Expecting /\ t = "LeftCurly" -> "ObjectInitial"
    [] state = "Start" /\ t \in Valued -> "Value"
    [] state = "KeyValueDelimiter" /\ t \in Valued -> "MemberValue"
    [] state \in {"ArrayInitial", "ElementDelimiter"} /\ t \in Valued -> "Element"
    [] state \in {"ObjectInitial", "MemberDelimiter"} /\ t = "string" -> "MemberKey"
    [] state = "MemberKey" /\ t = "Colon" -> "KeyValueDelimiter"
    [] state = "MemberValue" /\ t = "Comma" -> "MemberDelimiter"
    [] state = "Element" /\ t = "Comma" -> "ElementDelimiter"
    [] state \in {"ObjectInitial", "MemberValue", "MemberDelimiter"} /\ t = "RightCurly" -> "ObjectFinish"
    [] state \in {"ArrayInitial", "Element", "ElementDelimiter"} /\ t = "RightBracket" -> "ArrayFinish"
    [] OTHER -> "Error"

\* The error of a text that does not go on from this state.
HandleError(state) ==
  CASE state = "Start" -> "DocumentEmpty"
    [] state = "Finish" -> "DocumentRootNotSingular"
    [] state \in {"ObjectInitial", "MemberDelimiter"} -> "ObjectMissName"
    [] state = "MemberKey" -> "ObjectMissColon"
    [] state = "MemberValue" -> "ObjectMissCommaOrCurlyBracket"
    [] state \in {"KeyValueDelimiter", "ArrayInitial", "ElementDelimiter"} -> "ValueInvalid"
    [] state = "Element" -> "ArrayMissCommaOrSquareBracket"

Fails(p, err) ==
  [state |-> p.state, stack |-> p.stack, doc |-> <<>>, err |-> err, done |-> TRUE, rest |-> p.rest]
StackTop(p) == Last(p.stack)

\* A compound's end: its count, which lacks the last of its values, and the state kept
\* when it began.
Finish(p, doc) ==
  Iterating(IF StackTop(p).state = "Start" THEN "Finish" ELSE StackTop(p).state, Front(p.stack), doc, FALSE)

\* Mutant: the value before the closing bracket is not counted.
CountDelimited(p) == StackTop(p).n

CountOf(p) == StackTop(p).n + (IF p.state \in {"MemberValue", "Element"} THEN 1 ELSE 0)

\* A compound begins; behind it the state is that of its value in what is around it.
Begin(p, dst) ==
  LET n == CASE p.state \in {"ArrayInitial", "ElementDelimiter"} -> "Element"
             [] p.state = "KeyValueDelimiter" -> "MemberValue"
             [] OTHER -> p.state
  IN Iterating(dst, Append(p.stack, [state |-> n, n |-> 0]), Append(p.doc, [kind |-> "open"]), FALSE)

Transit(p, token, scalar) ==
  LET dst == Predict(p.state, token.t)
  IN CASE dst = "Error" -> Fails(p, HandleError(p.state))
       [] dst \in {"ObjectInitial", "ArrayInitial"} -> Begin(p, dst)
       [] dst = "KeyValueDelimiter" -> Iterating(dst, p.stack, p.doc, FALSE)
       [] dst \in {"MemberDelimiter", "ElementDelimiter"} ->
            Iterating(dst, Append(Front(p.stack), [StackTop(p) EXCEPT !.n = @ + 1]), p.doc, FALSE)
       [] dst = "ObjectFinish" /\ p.state = "MemberDelimiter" -> Fails(p, "ObjectMissName")
       [] dst = "ArrayFinish" /\ p.state = "ElementDelimiter" -> Fails(p, "ValueInvalid")
       [] dst = "ObjectFinish" /\ p.state # "MemberDelimiter" -> Finish(p, EndObject(p.doc, CountOf(p)))
       [] dst = "ArrayFinish" /\ p.state # "ElementDelimiter" -> Finish(p, EndArray(p.doc, CountOf(p)))
       [] dst \in {"MemberKey", "MemberValue", "Element", "Value"} ->
            IF scalar.err # "none" THEN Fails(p, scalar.err)
            ELSE Iterating(IF dst = "Value" THEN "Finish" ELSE dst, p.stack,
                           Append(p.doc, scalar.value), scalar.rest)

\* A byte of a number that is left is a token of its own, and fits nowhere.
IterativeParse(p, token, scalar) ==
  CASE p.done -> p
    [] ~p.done /\ p.rest -> Fails(p, HandleError(p.state))
    [] ~p.done /\ ~p.rest /\ token.t = "end" ->
         IF p.state = "Finish" THEN [p EXCEPT !.done = TRUE] ELSE Fails(p, HandleError(p.state))
    [] OTHER -> Transit(p, token, scalar)

IterativeNext(p, token) == IterativeParse(p, token, Scalar(token))

------------------------------------------------------------------------------
(* The Writer                                                              *)

\* The comma or colon before a value or name.
Prefix ==
  IF levels = <<>> \/ Last(levels).valueCount = 0 THEN <<>>
  ELSE IF ~Last(levels).inArray /\ Last(levels).valueCount % 2 = 1 THEN <<Token("Colon")>>
  ELSE <<Token("Comma")>>

\* Its assertions: one root, and a name where one is due.
MayWrite(t) ==
  IF levels = <<>> THEN tokens = <<>>
  ELSE ~Last(levels).inArray /\ Last(levels).valueCount % 2 = 0 => t = "string"

Deeper(counted, t) ==
  IF t \in {"LeftCurly", "LeftBracket"}
  THEN Append(counted, [inArray |-> t = "LeftBracket", valueCount |-> 0])
  ELSE counted

\* The client reads what has been written meanwhile.
ReadNew(before, token) ==
  /\ tokens' = Append(tokens \o before, token)
  /\ reader' = ParseNext(IF before = <<>> THEN reader ELSE ParseNext(reader, Head(before)), token)
  /\ iterative' =
       IterativeNext(IF before = <<>> THEN iterative ELSE IterativeNext(iterative, Head(before)), token)

PutToken(token) ==
  /\ MayWrite(token.t)
  /\ ReadNew(Prefix, token)
  /\ levels' =
       Deeper(IF levels = <<>> THEN <<>>
              ELSE Append(Front(levels),
                     [inArray |-> Last(levels).inArray, valueCount |-> Last(levels).valueCount + 1]), token.t)

MayEnd(t) ==
  /\ levels # <<>> /\ Last(levels).inArray = (t = "RightBracket")
  /\ ~Last(levels).inArray => Last(levels).valueCount % 2 = 0

------------------------------------------------------------------------------

\* A text is read.
Feed(token) ==
  /\ Len(tokens) < MaxTokens
  /\ ReadNew(<<>>, token)
  /\ UNCHANGED <<mode, levels, said>>

Unsent == tokens # <<>> => Last(tokens).t # "end"

\* The code that replies calls StartObject(), Key(), String() and the like.
WriteValue(t) ==
  /\ mode = "write" /\ Unsent /\ Len(tokens) < MaxTokens
  /\ PutToken(IF t = "number" THEN Figure1 ELSE Token(t))
  /\ UNCHANGED <<mode, said>>

WriteText(s) ==
  /\ mode = "write" /\ Unsent /\ Len(tokens) < MaxTokens
  /\ PutToken(StringToken(WriteString(s)))
  /\ said' = Append(said, s)
  /\ UNCHANGED mode

WriteEnd(t) ==
  /\ mode = "write" /\ Unsent /\ MayEnd(t)
  /\ ReadNew(<<>>, Token(t))
  /\ levels' = Front(levels)
  /\ UNCHANGED <<mode, said>>

WriteDone ==
  /\ mode = "write" /\ Unsent /\ levels = <<>> /\ tokens # <<>>
  /\ ReadNew(<<>>, Token("end"))
  /\ UNCHANGED <<mode, levels, said>>

JsonInit ==
  /\ mode \in {"read", "write"}
  /\ tokens = <<>> /\ reader = FreshReader /\ iterative = IterativeStart
  /\ levels = <<>> /\ said = <<>>

NextTokens ==
  CASE tokens = <<>> -> Tokens \cup Roots
    [] tokens # <<>> /\ Head(tokens) \in Roots -> {Token("end")}
    [] OTHER -> Tokens

JsonNext ==
  \/ mode = "read" /\ ~reader.done /\ \E token \in NextTokens : Feed(token)
  \/ \E t \in {"LeftCurly", "LeftBracket", "number", "null"} : WriteValue(t)
  \/ \E s \in (IF said = <<>> THEN Texts ELSE MoreTexts) : WriteText(s)
  \/ \E t \in {"RightCurly", "RightBracket"} : WriteEnd(t)
  \/ WriteDone

JsonSpec == JsonInit /\ [][JsonNext]_jsonVars

------------------------------------------------------------------------------
(* Properties                                                              *)

\* The tokens of a value, strings and numbers as they are.  What is not spelled yet stands
\* in the place of its tokens.
Unspelled(v) == [t |-> "value", raw |-> v]

Listed(texts) ==
  FlattenSeq([j \in DOMAIN texts |-> IF j = 1 THEN texts[j] ELSE <<Token("Comma")>> \o texts[j]])

MemberText(m) == <<StringToken(m.name), Token("Colon"), Unspelled(m.value)>>

Spelled(v) ==
  CASE v.kind = "object" ->
         <<Token("LeftCurly")>> \o Listed([j \in DOMAIN v.members |-> MemberText(v.members[j])])
           \o <<Token("RightCurly")>>
    [] v.kind = "array" ->
         <<Token("LeftBracket")>> \o Listed([j \in DOMAIN v.elements |-> <<Unspelled(v.elements[j])>>])
           \o <<Token("RightBracket")>>
    [] v.kind = "string" -> <<StringToken(v.str)>>
    [] v.kind \in {"null", "true", "false"} -> <<Token(v.kind)>>
    [] OTHER -> <<[t |-> "number", raw |-> v]>>

SpelledOut(toks) ==
  FlattenSeq([j \in DOMAIN toks |-> IF toks[j].t = "value" THEN Spelled(toks[j].raw) ELSE <<toks[j]>>])

TokensOf(v, depth) ==
  LET toks[d \in 0..depth] == IF d = 0 THEN <<Unspelled(v)>> ELSE SpelledOut(toks[d - 1])
  IN toks[depth]

\* What a token of a text says.
Meant(token) ==
  CASE token.t = "string" -> StringToken(ParseString(token.raw).str)
    [] token.t = "number" -> [t |-> "number", raw |-> Scalar(token).value]
    [] OTHER -> Token(token.t)

Accepted == reader.done /\ reader.err = "none"
DocumentTokens == TokensOf(Head(reader.doc), Len(tokens))

\* A text is accepted only if it is the text of the document read from it.
ReadsBack ==
  Accepted =>
    Len(reader.doc) = 1 /\ [j \in DOMAIN tokens |-> Meant(tokens[j])] = Append(DocumentTokens, Token("end"))

\* Both parsers accept the same texts with the same document, and name the same error, but
\* for a text that begins with a bracket, comma or colon that cannot begin it.
ParsersAgree ==
  /\ reader.done = iterative.done /\ reader.doc = iterative.doc
  /\ reader.err = iterative.err \/ (Len(tokens) = 1 /\ iterative.err = "DocumentEmpty")

Strings(toks) == FlattenSeq([j \in DOMAIN toks |-> IF toks[j].t = "string" THEN <<toks[j]>> ELSE <<>>])

\* What the program has written is read without error, and the strings in it are those it
\* gave the Writer, up to their first NUL.
RepliesSurvive ==
  mode = "write" =>
    /\ reader.err = "none"
    /\ reader.done => Strings(DocumentTokens) = [j \in DOMAIN said |-> StringToken(CString(said[j]))]

\* An integer that fits 64 bits is read as what it is, with the smaller width if it fits
\* that.
IntegersExact ==
  LET raw == tokens[1].raw
      minus == raw[1] = "-"
      digits == IF minus THEN Tail(raw) ELSE raw
      n == Decimal(digits)
      fits(half) == IF minus THEN n <= half ELSE n < 2 * half
      v == Head(reader.doc)
  IN mode = "read" /\ Len(tokens) = 2 /\ tokens[1].t = "number" /\ Accepted /\ Range(digits) \subseteq Digits =>
       /\ (digits[1] # "0" \/ Len(digits) = 1)
       /\ fits(Half64) <=> v.kind # "Double"
       /\ fits(Half64) => v.num = (IF minus THEN -n ELSE n)
       /\ fits(Half32) <=> v.kind \in {"Int", "Uint"}

\* What is sent as JSON arrives as what was meant, in both directions.
JsonFaithful == ReadsBack /\ ParsersAgree /\ RepliesSurvive /\ IntegersExact
================================================================================
