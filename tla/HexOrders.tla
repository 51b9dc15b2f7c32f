------------------------------- MODULE HexOrders -------------------------------
(***************************************************************************)
(* An order as it is typed, and what becomes of it: the bytes a setorder   *)
(* sends, the bytes of an infrared code, and an answer of as many bytes in *)
(* the reply.                                                              *)
(***************************************************************************)
EXTENDS HexText

CONSTANTS
  HexChars,    \* characters of an order
  DumpRoom,    \* sizeof(hex_dump_buffer), 1000
  MaxHex       \* bound

\* The end of a dump has a place of its own unless the size is a multiple of three.
HexConstants == DumpRoom \in Nat /\ DumpRoom % 3 # 0

VARIABLE order

HexInit == order = <<>>

Type(c) == Len(order) < MaxHex /\ order' = Append(order, c)

HexNext == \E c \in HexChars : Type(c)

HexSpec == HexInit /\ [][HexNext]_order

------------------------------------------------------------------------------
(* Properties                                                              *)

\* The bytes of an order whose words are two digits each.
Bytes(words) == [j \in 1..Len(words) |-> 16 * hex_to_bin(words[j][1]) + hex_to_bin(words[j][2])]
WellFormed(words) ==
  \A j \in 1..Len(words) :
    Len(words[j]) = 2 /\ hex_to_bin(words[j][1]) >= 0 /\ hex_to_bin(words[j][2]) >= 0

\* An order in pairs of digits is sent as these bytes by a setorder and as an infrared
\* code; a blank code has length -1.
OrdersRead ==
  LET words == WordsOf(order)
      sent == [j \in 1..Len(words) |-> hex2bin_zero(words[j])]
      code == hex2bin_trim_len(order)
  IN WellFormed(words) =>
       /\ sent = Bytes(words) /\ code.dst = Bytes(words)
       /\ code.length = IF words = <<>> THEN -1 ELSE Len(words)

\* What a device answers is read from the dump in the reply, as much of it as its buffer
\* has room for, and the buffer ends behind the dump.
DumpsRead ==
  LET bytes == Bytes(WordsOf(order))
      dump == hex_dump_to_buffer(bytes, DumpRoom)
  IN WellFormed(WordsOf(order)) =>
       /\ Len(dump) + 1 <= DumpRoom
       /\ hex2bin_trim_len(dump).dst = SubSeq(bytes, 1, Min({Len(bytes), DumpRoom \div 3}))

\* Orders and answers in hexadecimal digits arrive as what was meant.
HexFaithful == OrdersRead /\ DumpsRead
================================================================================
