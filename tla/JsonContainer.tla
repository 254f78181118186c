----------------------------- MODULE JsonContainer -----------------------------
(***************************************************************************)
(* basic_json as a container: element access that creates what is missing, *)
(* the modifiers, and the order of values.  A modifier is the value after  *)
(* the call; Throw says that the call threw, which in the browser, built   *)
(* without exceptions, ends the process.  An iterator is a position, as in *)
(* JsonValue; the checks that an iterator belongs to the value it is used  *)
(* with are met by every caller of the library and left out.               *)
(***************************************************************************)
EXTENDS JsonDump

EmptyArray == Array(<<>>)
EmptyObject == Object(EmptyMap)

Without(map, key) == Restrict(map, DOMAIN map \ {key})

\* A null becomes the container that the call needs.
Become(v, container) == IF v.type = "null" THEN container ELSE v

-----------------------------------------------------------------------------
(* Element access.                                                         *)

\* operator[] of a value that is not const makes the element it refers to:
\* an array is filled up with nulls, an object gets a null under the key.
Grown(v, idx) ==
  LET a == Become(v, EmptyArray)
  IN IF ~IsArray(a) THEN Throw
     ELSE Array(a.items \o [n \in 1..(idx + 1 - Len(a.items)) |-> Null])

Opened(v, key) ==
  LET o == Become(v, EmptyObject)
  IN IF ~IsObject(o) THEN Throw
     ELSE IF key \in DOMAIN o.map THEN o ELSE Object(With(o.map, key, Null))

\* A value assigned to what operator[] refers to.
StoreMember(v, key, val) ==
  IF v.type = "null" \/ IsObject(v) THEN Object(With(Opened(v, key).map, key, val)) ELSE Throw

\* value: the member, or the default when it is not there.
ValueOr(v, key, default) ==
  IF ~IsObject(v) THEN Throw
  ELSE LET it == FindKey(v, key) IN IF it # End(v) THEN Deref(v, it) ELSE default

\* front and back; on an empty container they are undefined.
FrontOf(v) == Deref(v, Begin(v))
BackOf(v) == Deref(v, End(v) - 1)

CountKey(v, key) == IF IsObject(v) /\ key \in DOMAIN v.map THEN 1 ELSE 0

IsEmpty(v) == \/ v.type = "null"
              \/ IsArray(v) /\ v.items = <<>>
              \/ IsObject(v) /\ DOMAIN v.map = {}

-----------------------------------------------------------------------------
(* Modifiers.                                                              *)

\* erase(pos): a primitive becomes a null.
EraseAt(v, it) ==
  CASE v.type = "null" -> Throw
    [] IsArray(v) -> Array(RemoveAt(v.items, it + 1))
    [] IsObject(v) -> Object(Without(v.map, KeyAt(v, it)))
    [] OTHER -> IF it = 0 THEN Null ELSE Throw

\* erase(first, last).
EraseRange(v, first, last) ==
  CASE v.type = "null" -> Throw
    [] IsArray(v) -> Array(SubSeq(v.items, 1, first) \o SubSeq(v.items, last + 1, Len(v.items)))
    [] IsObject(v) -> Object(Restrict(v.map, {Keys(v.map)[n] : n \in (1..first) \cup (last + 1)..Size(v)}))
    [] OTHER -> IF first = 0 /\ last = 1 THEN Null ELSE Throw

EraseKey(v, key) == IF IsObject(v) THEN Object(Without(v.map, key)) ELSE Throw
EraseIndex(v, idx) ==
  IF IsArray(v) /\ idx < Size(v) THEN Array(RemoveAt(v.items, idx + 1)) ELSE Throw

\* A value of a type that holds nothing yet, and the constructor from a list:
\* an object if every element is a pair of a string and something, unless an
\* array is asked for.
EmptyOf(type) ==
  CASE type = "object" -> EmptyObject
    [] type = "array" -> EmptyArray
    [] type = "string" -> Text(<<>>)
    [] type = "boolean" -> Boolean(FALSE)
    [] type = "integer" -> Integer(0)
    [] type = "unsigned" -> Unsigned(0)
    [] type = "float" -> Decimal(FALSE, <<>>, <<>>, 0)
    [] OTHER -> Null

FromList(init, deduction, wanted) ==
  LET pairs == \A i \in DOMAIN init :
                 IsArray(init[i]) /\ Size(init[i]) = 2 /\ IsString(init[i].items[1])
      isAnObject == pairs /\ (deduction \/ wanted # "array")
      Emplaced(map, pair) == map @@ (pair.items[1].text :> pair.items[2])
  IN IF ~deduction /\ wanted = "object" /\ ~isAnObject THEN Throw
     ELSE IF isAnObject THEN Object(FoldLeft(Emplaced, EmptyMap, init))
     ELSE Array(init)

\* The destructor: the values in the order they are freed, each as it is then.
\* A stack on the heap takes the children, so that a deep value needs no deep
\* recursion.
Children(v) ==
  CASE IsArray(v) -> v.items
    [] IsObject(v) -> [i \in 1..Size(v) |-> v.map[Keys(v.map)[i]]]
    [] OTHER -> <<>>
Drained(v) == IF IsArray(v) \/ IsObject(v) THEN EmptyOf(v.type) ELSE v

RECURSIVE DestroyStack(_, _)
DestroyStack(stack, freed) ==
  IF stack = <<>> THEN freed
  ELSE DestroyStack(Front(stack) \o Children(Last(stack)), Append(freed, Drained(Last(stack))))
Destroy(v) == Append(DestroyStack(Children(v), <<>>), Drained(v))

Clear(v) ==
  CASE IsNumberFloat(v) -> Decimal(FALSE, <<>>, <<>>, 0)
    [] IsNumberInteger(v) -> [v EXCEPT !.num = 0]
    [] IsBoolean(v) -> Boolean(FALSE)
    [] IsString(v) -> Text(<<>>)
    [] IsArray(v) -> EmptyArray
    [] IsObject(v) -> EmptyObject
    [] OTHER -> v

PushBack(v, val) ==
  LET a == Become(v, EmptyArray)
  IN IF IsArray(a) THEN Array(Append(a.items, val)) ELSE Throw

\* push_back of a pair, and emplace: a key that is there keeps its value.
PushPair(v, key, val) ==
  LET o == Become(v, EmptyObject)
  IN IF ~IsObject(o) THEN Throw
     ELSE IF key \in DOMAIN o.map THEN o ELSE Object(With(o.map, key, val))

\* insert before a position: an element, or those of another array.
InsertElement(v, it, val) ==
  IF IsArray(v) THEN Array(InsertAt(v.items, it + 1, val)) ELSE Throw
InsertElements(v, it, vals) ==
  IF ~IsArray(v) THEN Throw
  ELSE Array(SubSeq(v.items, 1, it) \o vals \o SubSeq(v.items, it + 1, Len(v.items)))

\* insert the members of another object: the keys that are there stay.
InsertMembers(v, other) ==
  IF IsObject(v) /\ IsObject(other) THEN Object(v.map @@ other.map) ELSE Throw

\* update: the members of other replace those of v, or, when objects are
\* merged, are merged into those that are there.
RECURSIVE Update(_, _, _)
Update(v, other, mergeObjects) ==
  LET o == Become(v, EmptyObject)
      Of(key) ==
        IF mergeObjects /\ IsObject(other.map[key]) /\ key \in DOMAIN o.map
          THEN Update(o.map[key], other.map[key], TRUE)
          ELSE other.map[key]
      new == [key \in DOMAIN other.map |-> Of(key)]
  IN IF ~IsObject(o) \/ ~IsObject(other) THEN Throw
     ELSE IF \E key \in DOMAIN new : IsThrow(new[key]) THEN Throw
     ELSE Object(new @@ o.map)

-----------------------------------------------------------------------------
(* operator== and operator<                                                *)

RECURSIVE Equal(_, _)
Equal(a, b) ==
  CASE IsNumber(a) /\ IsNumber(b) -> NumbersEqual(a, b)
    [] IsArray(a) /\ IsArray(b) ->
         /\ Len(a.items) = Len(b.items)
         /\ \A i \in DOMAIN a.items : Equal(a.items[i], b.items[i])
    [] IsObject(a) /\ IsObject(b) ->
         /\ DOMAIN a.map = DOMAIN b.map
         /\ \A k \in DOMAIN a.map : Equal(a.map[k], b.map[k])
    [] IsString(a) /\ IsString(b) -> a.text = b.text
    [] IsBoolean(a) /\ IsBoolean(b) -> a.bool = b.bool
    [] OTHER -> a.type = b.type /\ a.type = "null"

\* The order of the types: all numbers are one type.
TypeOrder(v) == CASE v.type = "null" -> 0
                  [] IsBoolean(v) -> 1
                  [] IsNumber(v) -> 2
                  [] IsObject(v) -> 3
                  [] IsArray(v) -> 4
                  [] OTHER -> 5

\* Decimals: digits without leading zeros, the point after exp of them.
MagnitudeLess(a, b) ==
  IF a.digits = <<>> \/ b.digits = <<>> THEN a.digits = <<>> /\ b.digits # <<>>
  ELSE IF a.exp # b.exp THEN a.exp < b.exp
  ELSE BytesLess(a.digits, b.digits)
FloatLess(a, b) ==
  LET below(x) == x.neg /\ x.digits # <<>>
  IN IF below(a) # below(b) THEN below(a)
     ELSE IF below(a) THEN MagnitudeLess(b, a) ELSE MagnitudeLess(a, b)

\* An unsigned number is compared with a signed one as a signed one.
NumberLess(a, b) ==
  IF IsNumberFloat(a) \/ IsNumberFloat(b) THEN FloatLess(GetAsDouble(a), GetAsDouble(b))
  ELSE IF a.type = b.type THEN a.num < b.num
  ELSE Wrap(a.num, MaxSigned) < Wrap(b.num, MaxSigned)

\* Arrays and objects by their first difference; a member is a pair of its
\* key and its value.
RECURSIVE Less(_, _)
Less(a, b) ==
  LET n == IF Size(a) < Size(b) THEN Size(a) ELSE Size(b)
      Unlike(i) == Less(a.items[i], b.items[i]) \/ Less(b.items[i], a.items[i])
      ka == Keys(a.map)
      kb == Keys(b.map)
      Apart(i) == \/ ka[i] # kb[i]
                  \/ Less(a.map[ka[i]], b.map[ka[i]]) \/ Less(b.map[ka[i]], a.map[ka[i]])
      First(S) == CHOOSE i \in S : \A j \in S : i <= j
  IN CASE TypeOrder(a) # TypeOrder(b) -> TypeOrder(a) < TypeOrder(b)
       [] IsNumber(a) -> NumberLess(a, b)
       [] IsBoolean(a) -> ~a.bool /\ b.bool
       [] IsString(a) -> BytesLess(a.text, b.text)
       [] IsArray(a) ->
            LET differ == {i \in 1..n : Unlike(i)}
            IN IF differ = {} THEN Size(a) < Size(b)
               ELSE LET i == First(differ) IN Less(a.items[i], b.items[i])
       [] IsObject(a) ->
            LET differ == {i \in 1..n : Apart(i)}
            IN IF differ = {} THEN Size(a) < Size(b)
               ELSE LET i == First(differ)
                    IN IF ka[i] # kb[i] THEN BytesLess(ka[i], kb[i])
                       ELSE Less(a.map[ka[i]], b.map[ka[i]])
       [] OTHER -> FALSE
=============================================================================
