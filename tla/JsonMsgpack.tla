------------------------------ MODULE JsonMsgpack ------------------------------
(***************************************************************************)
(* to_msgpack and from_msgpack: a mark with a small number or length in    *)
(* it, or one that tells the size of the number that follows.              *)
(***************************************************************************)
EXTENDS JsonBinary

-----------------------------------------------------------------------------
(* write_msgpack.                                                          *)

\* The smallest signed type that holds a negative number.
SizedNegative(mark, n) ==
  CASE n >= -128 -> <<mark>> \o BigEndian(n, 1)
    [] n \in -32768..-129 -> <<mark + 1>> \o BigEndian(n, 2)
    [] n < -32768 /\ n \div 65536 >= -32768 -> <<mark + 2>> \o BigEndian(n, 4)
    [] OTHER -> <<mark + 3>> \o BigEndian(n, 8)

MsgpackInteger(n) ==
  CASE n \in 0..127 -> <<n>>
    [] n > 127 -> Sized(204, n)
    [] n \in -32..-1 -> <<256 + n>>
    [] OTHER -> SizedNegative(208, n)

MsgpackText(s) == (IF Len(s) <= 31 THEN <<160 + Len(s)>> ELSE Sized(217, Len(s))) \o s

\* The number of elements: in the mark, or 2 or 4 bytes.
MsgpackCount(fixed, mark, n) ==
  CASE n <= 15 -> <<fixed + n>>
    [] n \in 16..65535 -> <<mark>> \o BigEndian(n, 2)
    [] OTHER -> <<mark + 1>> \o BigEndian(n, 4)

FixedLengths == {1, 2, 4, 8, 16}
MsgpackBinary(v) ==
  LET n == Len(v.bytes)
      fixed == CHOOSE mark \in 212..216 : SizeOf(mark, 212) = n
  IN (CASE v.subtype = NoSubtype -> Sized(196, n)
        [] v.subtype # NoSubtype /\ n \in FixedLengths -> <<fixed>> \o BigEndian(v.subtype, 1)
        [] OTHER -> Sized(199, n) \o BigEndian(v.subtype, 1)) \o v.bytes

RECURSIVE ToMsgpack(_, _)
ToMsgpack(v, single) ==
  CASE v.type = "null" -> <<192>>
    [] IsBoolean(v) -> <<IF v.bool THEN 195 ELSE 194>>
    [] IsNumberInteger(v) -> MsgpackInteger(v.num)
    [] IsNumberFloat(v) -> <<IF single THEN 202 ELSE 203, v>>
    [] IsString(v) -> MsgpackText(v.text)
    [] v.type = "binary" -> MsgpackBinary(v)
    [] IsArray(v) ->
         MsgpackCount(144, 220, Size(v))
           \o FlattenSeq([i \in DOMAIN v.items |-> ToMsgpack(v.items[i], single)])
    [] IsObject(v) ->
         MsgpackCount(128, 222, Size(v))
           \o FlattenSeq([i \in 1..Size(v) |->
                MsgpackText(Keys(v.map)[i]) \o ToMsgpack(v.map[Keys(v.map)[i]], single)])

-----------------------------------------------------------------------------
(* parse_msgpack_internal.                                                 *)

TextMark(b) == b \in (160..191) \cup (217..219)
GetMsgpackString(in) ==
  IF in = <<>> THEN Failed
  ELSE LET b == Head(in)
       IN CASE b \in 160..191 -> GetBytes(Tail(in), b % 32)
            [] b \in 217..219 -> Then(GetNumber(Tail(in), SizeOf(b, 217), FALSE),
                                      LAMBDA len, rest : GetBytes(rest, len))
            [] OTHER -> Failed

\* bin: a length; ext: a length and a subtype; fixext: a subtype.
BinaryMark(b) == b \in (196..201) \cup (212..216)
GetMsgpackBinary(b, in) ==
  LET Bare(len, rest) ==
        Then(GetBytes(rest, len), LAMBDA bytes, more : Got(Binary(bytes, NoSubtype), more))
      Typed(len, rest) ==
        Then(GetNumber(rest, 1, FALSE), LAMBDA subtype, more :
          Then(GetBytes(more, len), LAMBDA bytes, end : Got(Binary(bytes, subtype), end)))
  IN CASE b \in 196..198 -> Then(GetNumber(in, SizeOf(b, 196), FALSE), Bare)
       [] b \in 199..201 -> Then(GetNumber(in, SizeOf(b, 199), FALSE), Typed)
       [] OTHER -> Typed(SizeOf(b, 212), in)

NumberMark(b) == b \in (0..127) \cup (204..211) \cup (224..255)
GetMsgpackNumber(b, in) ==
  CASE b <= 127 -> Got(Unsigned(b), in)
    [] b \in 204..207 -> Then(GetNumber(in, SizeOf(b, 204), FALSE), LAMBDA n, rest : Got(Unsigned(n), rest))
    [] b \in 208..211 -> Then(GetNumber(in, SizeOf(b, 208), TRUE), LAMBDA n, rest : Got(Integer(n), rest))
    [] OTHER -> Got(Integer(b - 256), in)

RECURSIVE MsgpackValue(_), MsgpackItems(_, _, _), MsgpackMembers(_, _, _)
MsgpackItems(in, len, items) ==
  IF len = 0 THEN Got(Array(items), in)
  ELSE Then(MsgpackValue(in), LAMBDA v, rest : MsgpackItems(rest, len - 1, Append(items, v)))
MsgpackMembers(in, len, map) ==
  IF len = 0 THEN Got(Object(map), in)
  ELSE Then(GetMsgpackString(in), LAMBDA key, rest :
         Then(MsgpackValue(rest), LAMBDA v, more : MsgpackMembers(more, len - 1, With(map, key, v))))

MsgpackValue(in) ==
  IF in = <<>> THEN Failed
  ELSE LET b == Head(in)
           rest == Tail(in)
           Items(len, more) == MsgpackItems(more, len, <<>>)
           Members(len, more) == MsgpackMembers(more, len, EmptyMap)
       IN CASE NumberMark(b) -> GetMsgpackNumber(b, rest)
            [] b \in 128..143 -> Members(b % 16, rest)
            [] b \in 144..159 -> Items(b % 16, rest)
            [] TextMark(b) -> Then(GetMsgpackString(in), LAMBDA s, more : Got(Text(s), more))
            [] b = 192 -> Got(Null, rest)
            [] b \in {194, 195} -> Got(Boolean(b = 195), rest)
            [] BinaryMark(b) -> GetMsgpackBinary(b, rest)
            [] b \in {202, 203} -> GetFloat(rest)
            [] b \in {220, 221} -> Then(GetNumber(rest, SizeOf(b, 219), FALSE), Items)
            [] b \in {222, 223} -> Then(GetNumber(rest, SizeOf(b, 221), FALSE), Members)
            [] OTHER -> Failed

FromMsgpack(bytes) == Strict(MsgpackValue(bytes))
=============================================================================
