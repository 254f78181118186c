------------------------------- MODULE JsonBinary -------------------------------
(***************************************************************************)
(* What the binary formats share: numbers in network order, and a reader   *)
(* that takes them off the front of its input.  What a reader gets is the  *)
(* value and the rest of the input, or Failed, when the handler was told   *)
(* of a parse error.  The IEEE bytes of a float are one unit of the input, *)
(* the float itself.                                                       *)
(***************************************************************************)
EXTENDS JsonContainer

NoSubtype == -1
Binary(bytes, subtype) == [type |-> "binary", bytes |-> bytes, subtype |-> subtype]

\* write_number: the size lowest bytes, of a negative number too.
RECURSIVE BigEndian(_, _)
BigEndian(n, size) ==
  IF size = 0 THEN <<>> ELSE Append(BigEndian(n \div 256, size - 1), n % 256)

\* A mark that tells the size of the number after it: 1, 2, 4 or 8 bytes.
Sized(mark, n) ==
  CASE n <= 255 -> <<mark>> \o BigEndian(n, 1)
    [] n \in 256..65535 -> <<mark + 1>> \o BigEndian(n, 2)
    [] n > 65535 /\ n \div 65536 <= 65535 -> <<mark + 2>> \o BigEndian(n, 4)
    [] OTHER -> <<mark + 3>> \o BigEndian(n, 8)
SizeOf(b, mark) == 2^(b - mark)

Got(value, rest) == [ok |-> TRUE, value |-> value, rest |-> rest]
Failed == [ok |-> FALSE, value |-> Throw, rest |-> <<>>]
Then(got, Use(_, _)) == IF got.ok THEN Use(got.value, got.rest) ELSE Failed

\* get_string and get_binary.
GetBytes(in, len) ==
  IF Len(in) < len THEN Failed ELSE Got(SubSeq(in, 1, len), SubSeq(in, len + 1, Len(in)))

\* get_number, of an unsigned or of a signed type.
FromBytes(bytes, signed) ==
  FoldLeft(LAMBDA n, b : 256 * n + b, IF signed /\ bytes[1] > 127 THEN -1 ELSE 0, bytes)
GetNumber(in, size, signed) ==
  Then(GetBytes(in, size), LAMBDA bytes, rest : Got(FromBytes(bytes, signed), rest))
GetFloat(in) == IF in = <<>> THEN Failed ELSE Got(Head(in), Tail(in))

\* sax_parse, strict: nothing may follow the value.
Strict(got) == IF got.ok /\ got.rest = <<>> THEN got.value ELSE Throw
=============================================================================
