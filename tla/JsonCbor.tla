-------------------------------- MODULE JsonCbor --------------------------------
(***************************************************************************)
(* to_cbor and from_cbor: an item is a mark, in its high bits the kind and *)
(* in its low ones a small number or the size of the number that follows.  *)
(* Infinities and NaN, which no text holds, are left out.                  *)
(***************************************************************************)
EXTENDS JsonBinary

-----------------------------------------------------------------------------
(* write_cbor.                                                             *)

\* A number in the mark, or behind it in as few bytes as it needs.
CborHead(kind, n) == IF n <= 23 THEN <<kind + n>> ELSE Sized(kind + 24, n)

CborInteger(n) == IF n >= 0 THEN CborHead(0, n) ELSE CborHead(32, -1 - n)
CborText(s) == CborHead(96, Len(s)) \o s
CborBinary(v) ==
  (IF v.subtype = NoSubtype THEN <<>> ELSE Sized(216, v.subtype))
    \o CborHead(64, Len(v.bytes)) \o v.bytes

\* single: whether floats have the value of a single-precision one.
RECURSIVE ToCbor(_, _)
ToCbor(v, single) ==
  CASE v.type = "null" -> <<246>>
    [] IsBoolean(v) -> <<IF v.bool THEN 245 ELSE 244>>
    [] IsNumberInteger(v) -> CborInteger(v.num)
    [] IsNumberFloat(v) -> <<IF single THEN 250 ELSE 251, v>>
    [] IsString(v) -> CborText(v.text)
    [] v.type = "binary" -> CborBinary(v)
    [] IsArray(v) ->
         CborHead(128, Size(v)) \o FlattenSeq([i \in DOMAIN v.items |-> ToCbor(v.items[i], single)])
    [] IsObject(v) ->
         CborHead(160, Size(v))
           \o FlattenSeq([i \in 1..Size(v) |->
                CborText(Keys(v.map)[i]) \o ToCbor(v.map[Keys(v.map)[i]], single)])

-----------------------------------------------------------------------------
(* parse_cbor_internal.                                                    *)

Indefinite == -1
Break == 255

\* The bytes of a string, or of a binary: so many, or chunks up to a break.
RECURSIVE GetCborBytes(_, _), CborChunks(_, _, _)
GetCborBytes(in, kind) ==
  IF in = <<>> THEN Failed
  ELSE LET b == Head(in) - kind
       IN CASE b \in 0..23 -> GetBytes(Tail(in), b)
            [] b \in 24..27 -> Then(GetNumber(Tail(in), SizeOf(b, 24), FALSE),
                                    LAMBDA len, rest : GetBytes(rest, len))
            [] b = 31 -> CborChunks(Tail(in), kind, <<>>)
            [] OTHER -> Failed
CborChunks(in, kind, bytes) ==
  IF in # <<>> /\ Head(in) = Break THEN Got(bytes, Tail(in))
  ELSE Then(GetCborBytes(in, kind), LAMBDA chunk, rest : CborChunks(rest, kind, bytes \o chunk))

GetCborString(in) == GetCborBytes(in, 96)
GetCborBinary(in) == GetCborBytes(in, 64)

GetCborNumber(b, in) ==
  LET Value(n) == IF b < 32 THEN Unsigned(n) ELSE Integer(-1 - n)
      low == b % 32
  IN IF low <= 23 THEN Got(Value(low), in)
     ELSE Then(GetNumber(in, SizeOf(low, 24), FALSE), LAMBDA n, rest : Got(Value(n), rest))

NumberMarks == (0..27) \cup (32..59)
BinaryMarks == (64..91) \cup {95}
TextMarks == (96..123) \cup {127}
ContainerMarks == (128..155) \cup {159} \cup (160..187) \cup {191}
TagMarks == (198..212) \cup (216..219)

\* An element of an array is any item, a key of an object is a string.
RECURSIVE CborValue(_, _), CborItems(_, _, _, _), CborMembers(_, _, _, _), GetCborTagged(_, _, _)
CborItems(in, len, items, tags) ==
  IF len = 0 THEN Got(Array(items), in)
  ELSE IF len = Indefinite /\ in # <<>> /\ Head(in) = Break THEN Got(Array(items), Tail(in))
  ELSE Then(CborValue(in, tags), LAMBDA v, rest :
              CborItems(rest, IF len = Indefinite THEN len ELSE len - 1, Append(items, v), tags))
CborMembers(in, len, map, tags) ==
  IF len = 0 THEN Got(Object(map), in)
  ELSE IF len = Indefinite /\ in # <<>> /\ Head(in) = Break THEN Got(Object(map), Tail(in))
  ELSE Then(GetCborString(in), LAMBDA key, rest :
         Then(CborValue(rest, tags), LAMBDA v, more :
              CborMembers(more, IF len = Indefinite THEN len ELSE len - 1, With(map, key, v), tags)))

GetCborContainer(b, in, tags) ==
  LET Filled(len, rest) ==
        IF b < 160 THEN CborItems(rest, len, <<>>, tags) ELSE CborMembers(rest, len, EmptyMap, tags)
      low == b % 32
  IN CASE low <= 23 -> Filled(low, in)
       [] low \in 24..27 -> Then(GetNumber(in, SizeOf(low, 24), FALSE), Filled)
       [] OTHER -> Filled(Indefinite, in)

\* A tag is an error, is dropped, or is the subtype of the binary behind it.
GetCborTagged(b, in, tags) ==
  LET number == IF b < 216 THEN Got(NoSubtype, in) ELSE GetNumber(in, SizeOf(b, 216), FALSE)
  IN CASE tags = "error" -> Failed
       [] tags = "ignore" \/ b < 216 -> Then(number, LAMBDA n, rest : CborValue(rest, tags))
       [] OTHER -> Then(number, LAMBDA n, rest :
                     Then(GetCborBinary(rest), LAMBDA bytes, more : Got(Binary(bytes, n), more)))

CborValue(in, tags) ==
  IF in = <<>> THEN Failed
  ELSE LET b == Head(in)
           rest == Tail(in)
       IN CASE b \in NumberMarks -> GetCborNumber(b, rest)
            [] b \in BinaryMarks -> Then(GetCborBinary(in), LAMBDA bytes, more : Got(Binary(bytes, NoSubtype), more))
            [] b \in TextMarks -> Then(GetCborString(in), LAMBDA s, more : Got(Text(s), more))
            [] b \in ContainerMarks -> GetCborContainer(b, rest, tags)
            [] b \in TagMarks -> GetCborTagged(b, rest, tags)
            [] b \in {244, 245} -> Got(Boolean(b = 245), rest)
            [] b = 246 -> Got(Null, rest)
            [] b \in {250, 251} -> GetFloat(rest)
            [] OTHER -> Failed

FromCbor(bytes, tags) == Strict(CborValue(bytes, tags))
=============================================================================
