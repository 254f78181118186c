-------------------------------- MODULE JsonLaws --------------------------------
(***************************************************************************)
(* What the operations on documents promise together: patches and their    *)
(* differences, flattening, pointers, the modifiers, the order, ordered    *)
(* maps, wide inputs and the binary formats.  Each law is about a document *)
(* and others to compare or combine it with, or about edges.               *)
(***************************************************************************)
EXTENDS JsonPatch, JsonInput, OrderedMap, JsonCbor, JsonMsgpack

CONSTANTS
  Documents,        \* the texts of the other documents
  Pointers,         \* texts of pointers
  Edges,            \* code points where the length of their encoding changes
  Sizes             \* numbers and lengths where the mark of their size changes

Targets == {ParseText(text).root : text \in Documents}
Resolvable == {Split(text) : text \in Pointers} \ {NoPointer}

\* The difference of two documents takes either to the other, and a merge
\* patch applied twice changes nothing more.
PatchOfDiff(v, t) ==
  /\ \A w \in {<<v, t>>, <<t, v>>} : Equal(Patch(w[1], Diff(w[1], w[2])), w[2])
  /\ LET merged == MergePatch(v, t) IN Equal(MergePatch(merged, t), merged)

\* No empty containers, which are flattened to nulls, and no member "0",
\* which is read back as an array.
RECURSIVE Unambiguous(_)
Unambiguous(v) ==
  /\ IsEmpty(v) => v.type = "null"
  /\ IsArray(v) => \A i \in DOMAIN v.items : Unambiguous(v.items[i])
  /\ IsObject(v) => Zero \notin DOMAIN v.map /\ \A k \in DOMAIN v.map : Unambiguous(v.map[k])

\* Flattening is reversible, and its keys are pointers to what they hold.
FlattenRestores(v) ==
  LET flat == Flatten(v)
  IN /\ \A key \in DOMAIN flat.map :
          LET there == At(v, Split(key))
          IN IF IsEmpty(there) THEN flat.map[key] = Null ELSE there = flat.map[key]
     /\ Unambiguous(v) => Unflatten(flat) = v

\* A pointer that is contained can be read, and no other; what is stored
\* through a pointer is read back through it, and elsewhere nothing changes.
PointersAgree(v, p) ==
  /\ ContainsPointer(v, p) = Boolean(TRUE) <=> ~IsThrow(At(v, p))
  /\ Split(PointerText(p)) = p
  /\ \A flat \in BOOLEAN :
       LET new == Store(v, p, Text(<<>>), flat)
       IN ~IsThrow(new) =>
            /\ ~Contains(p, Hyphen) => At(new, p) = Text(<<>>)
            /\ \A q \in Resolvable :
                 ~IsThrow(At(v, q)) /\ ~IsPrefix(q, p) /\ ~IsPrefix(p, q) =>
                   At(new, q) = At(v, q)

\* The modifiers undo, or repeat, each other.
ModifiersAgree(v) ==
  /\ \A it \in 0..Size(v) :
       IsArray(v) =>
         /\ EraseAt(InsertElement(v, it, Null), it) = v
         /\ EraseRange(InsertElements(v, it, <<Null, Null>>), it, it + 2) = v
         /\ EraseIndex(v, it) = IF it = Size(v) THEN Throw ELSE EraseRange(v, it, it + 1)
  /\ \A it \in 0..(Size(v) - 1) :
       IsObject(v) => EraseRange(v, it, it + 1) = EraseKey(v, KeyAt(v, it))
  /\ Clear(v) = EmptyOf(v.type)
  /\ ~IsThrow(PushBack(v, v)) => BackOf(PushBack(v, v)) = v
  /\ ~IsEmpty(v) => FrontOf(v) = Elements(v)[1] /\ BackOf(v) = Last(Elements(v))

\* update and insert of an object: whose members stay where both have them.
UpdatesAgree(v, t) ==
  IsObject(v) /\ IsObject(t) =>
    /\ Update(v, t, FALSE) = InsertMembers(t, v)
    /\ \A key \in DOMAIN t.map :
         ValueOr(InsertMembers(v, t), key, Null) = ValueOr(v, key, t.map[key])
    /\ InsertMembers(v, t) =
         FoldLeft(LAMBDA o, key : PushPair(o, key, t.map[key]), v, Keys(t.map))
    /\ LET merged == Update(v, t, TRUE)
       IN IsThrow(merged) \/ Update(merged, t, TRUE) = merged

\* The values in a value, itself among them.
RECURSIVE CountValues(_)
CountValues(v) == FoldLeft(LAMBDA n, child : n + CountValues(child), 1, Children(v))

\* A value is built from the list of its parts, the first of two equal keys
\* stays, and it is destroyed once and for all: every value in it is freed,
\* none with a child left.
ListsAndLifetimes(v, t) ==
  LET Pairs(o) == [i \in 1..Size(o) |-> Array(<<Text(KeyAt(o, i - 1)), Deref(o, i - 1)>>)]
      freed == Destroy(v)
  IN /\ IsObject(v) /\ IsObject(t) =>
          /\ FromList(Pairs(v) \o Pairs(t), TRUE, "array") = InsertMembers(v, t)
          /\ FromList(Pairs(v), FALSE, "array") = Array(Pairs(v))
          /\ FromList(Append(Pairs(v), t), FALSE, "object") = Throw
     /\ IsArray(v) => FromList(v.items, FALSE, "array") = v
     /\ Len(freed) = CountValues(v)
     /\ \A i \in DOMAIN freed : Children(freed[i]) = <<>>

\* An ordered map holds what the map does, in the order it came in: erasing
\* closes the gap and nothing else moves.
OrderIsKept(v, t) ==
  IsObject(v) /\ IsObject(t) =>
    LET Pairs(o) == [i \in 1..Size(o) |-> <<KeyAt(o, i - 1), Deref(o, i - 1)>>]
        all == InsertPairs(Pairs(t), Pairs(v))
        Unordered(m) == Object([key \in {m[i][1] : i \in DOMAIN m} |-> AtOrdered(m, key)])
        Outside(first, last) ==
          SelectSeq([i \in DOMAIN all |-> i], LAMBDA i : i \notin (first + 1)..last)
    IN /\ IsPrefix(Pairs(t), all)
       /\ Unordered(all) = InsertMembers(t, v)
       /\ \A i \in DOMAIN all :
            LET key == all[i][1] IN
              /\ FindOrdered(all, key) = i - 1 /\ CountOrdered(all, key) = 1
              /\ EraseOrdered(all, key) = EraseOrderedRange(all, i - 1, i)
              /\ Unordered(EraseOrdered(all, key)) = EraseKey(Unordered(all), key)
              /\ OpenOrdered(all, key) = all
              /\ OpenOrdered(EraseOrdered(all, key), key) =
                   Append(EraseOrdered(all, key), <<key, Null>>)
       /\ \A first \in 0..Len(all) : \A last \in first..Len(all) :
            LET rest == Outside(first, last)
            IN EraseOrderedRange(all, first, last) = [i \in DOMAIN rest |-> all[rest[i]]]

\* The text of a string in UTF-32 or in UTF-16 is read as the same string.
WideInputsReadAlike ==
  \A edge \in Edges :
  LET Units(cp) ==
        IF cp < 65536 THEN <<cp>>
        ELSE <<55296 + ((cp - 65536) \div 1024), 56320 + ((cp - 65536) % 1024)>>
      points == <<Quote, edge, 97, edge, Quote>>
      units == FlattenSeq([i \in DOMAIN points |-> Units(points[i])])
      bytes == FlattenSeq([i \in DOMAIN points |-> Utf8(points[i])])
  IN /\ Bytes(FillUtf32, points) = bytes
     /\ Bytes(FillUtf16, units) = bytes
     /\ ParseText(bytes).root = Text(SubSeq(bytes, 2, Len(bytes) - 1))

\* A document in CBOR or in MessagePack is read back; cut anywhere, or with a
\* byte behind it, it is refused.
BinaryReadsBack(v) ==
  LET cbor == ToCbor(v, TRUE)
      msgpack == ToMsgpack(v, TRUE)
  IN /\ \A single \in BOOLEAN : /\ Equal(FromCbor(ToCbor(v, single), "error"), v)
                              /\ Equal(FromMsgpack(ToMsgpack(v, single)), v)
     /\ \A n \in 0..(Len(cbor) - 1) : IsThrow(FromCbor(SubSeq(cbor, 1, n), "error"))
     /\ \A n \in 0..(Len(msgpack) - 1) : IsThrow(FromMsgpack(SubSeq(msgpack, 1, n)))
     /\ IsThrow(FromCbor(Append(cbor, 0), "error")) /\ IsThrow(FromMsgpack(Append(msgpack, 0)))

\* So are numbers, strings, arrays and objects of every size; a number may be
\* written wider than need be; a binary keeps its subtype in MessagePack, and
\* in CBOR if tags are stored.
SizesReadBack ==
  LET Bytes97(n) == [i \in 1..n |-> 97]
      Of(n) == {Unsigned(n), Integer(n), Integer(-1 - n)}
                 \cup (IF n <= 300 THEN {Text(Bytes97(n)), Array([i \in 1..n |-> Null])} ELSE {})
                 \cup (IF n <= 32 THEN {Object([key \in {<<k>> : k \in 1..n} |-> Null])} ELSE {})
      Same(got, v) == IF IsNumberInteger(v) THEN IsNumberInteger(got) /\ got.num = v.num
                                            ELSE Equal(got, v)
      Blob(n, subtype) == Binary(Bytes97(n), subtype)
  IN \A n \in Sizes :
       /\ \A v \in Of(n) : /\ Same(FromCbor(ToCbor(v, TRUE), "error"), v)
                          /\ Same(FromMsgpack(ToMsgpack(v, TRUE)), v)
       /\ FromCbor(<<59>> \o BigEndian(n, 8), "error") = Integer(-1 - n)
       /\ FromMsgpack(<<211>> \o BigEndian(-1 - n, 8)) = Integer(-1 - n)
       /\ n <= 300 => \A subtype \in {NoSubtype, 0, 255} :
            LET blob == Blob(n, subtype)
            IN /\ FromMsgpack(ToMsgpack(blob, TRUE)) = blob
               /\ FromCbor(ToCbor(blob, TRUE), "store") = blob
               /\ FromCbor(ToCbor(blob, TRUE), "ignore") = Blob(n, NoSubtype)
               /\ IsThrow(FromCbor(ToCbor(blob, TRUE), "error")) <=> subtype # NoSubtype
       /\ n <= 300 =>
            LET chunked == <<127>> \o CborText(Bytes97(n)) \o CborText(<<98>>) \o <<Break>>
            IN FromCbor(<<159>> \o chunked \o <<191, Break, Break>>, "error")
                 = Array(<<Text(Append(Bytes97(n), 98)), EmptyObject>>)

\* Of two documents exactly one is less, or they are equal.
OrderIsTotal(v, t) ==
  Cardinality({r \in {<<Less(v, t), 1>>, <<Less(t, v), 2>>, <<Equal(v, t), 3>>} : r[1]}) = 1
=============================================================================
