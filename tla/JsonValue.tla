------------------------------ MODULE JsonValue ------------------------------
(***************************************************************************)
(* The operations on JSON values that MaskConfig and the other modules     *)
(* use: inspection, iterators, lookup, conversion with get<T>, comparison. *)
(* Thrown as a value says that the code threw.  An iterator is a position  *)
(* in its container: 0 at the first element, objects in the order of their *)
(* keys.                                                                   *)
(***************************************************************************)
EXTENDS JsonParser

CONSTANTS MaxUint32, MaxInt32      \* 2^32 - 1 and 2^31 - 1

ASSUME WidthsAssumption == MaxUint32 \in Nat /\ MaxInt32 \in Nat

Throw == [type |-> "thrown"]
IsThrow(v) == v.type = "thrown"

IsObject(v) == v.type = "object"
IsArray(v) == v.type = "array"
IsNumberUnsigned(v) == v.type = "unsigned"
IsNumberInteger(v) == v.type \in {"integer", "unsigned"}
IsNumberFloat(v) == v.type = "float"
IsBoolean(v) == v.type = "boolean"
IsString(v) == v.type = "string"

-----------------------------------------------------------------------------
(* Size and iterators.                                                     *)

\* The order of a std::map of strings.
BytesLess(a, b) ==
  \E i \in 1..Len(b) :
    /\ i <= Len(a) + 1
    /\ \A j \in 1..(i - 1) : a[j] = b[j]
    /\ i = Len(a) + 1 \/ a[i] < b[i]

Keys(map) ==
  LET rank == [k \in DOMAIN map |-> Cardinality({j \in DOMAIN map : BytesLess(j, k)})]
  IN [n \in 1..Cardinality(DOMAIN map) |-> CHOOSE k \in DOMAIN map : rank[k] = n - 1]

Size(v) == CASE v.type = "null" -> 0
             [] IsArray(v) -> Len(v.items)
             [] IsObject(v) -> Cardinality(DOMAIN v.map)
             [] OTHER -> 1

\* A null is empty: its first position is its end.
Begin(v) == IF v.type = "null" THEN 1 ELSE 0
End(v) == IF v.type = "null" THEN 1 ELSE Size(v)

\* The key of an iterator, which only an object has.
KeyAt(v, it) == Keys(v.map)[it + 1]

Deref(v, it) ==
  CASE IsObject(v) -> v.map[KeyAt(v, it)]
    [] IsArray(v) -> v.items[it + 1]
    [] v.type = "null" -> Throw
    [] OTHER -> IF it = 0 THEN v ELSE Throw

\* A range-based for: the elements from begin to end; a primitive is its own
\* only element.
Elements(v) == [n \in 1..(End(v) - Begin(v)) |-> Deref(v, Begin(v) + n - 1)]

-----------------------------------------------------------------------------
(* Lookup.                                                                 *)

\* find: the end for what is no object.
FindKey(v, key) ==
  IF IsObject(v) /\ key \in DOMAIN v.map
    THEN CHOOSE it \in 0..(Size(v) - 1) : KeyAt(v, it) = key
    ELSE End(v)

HasMember(v, key) == IsObject(v) /\ FindKey(v, key) # End(v)

\* operator[] of a const value; the key must be there.
Member(v, key) == IF IsObject(v) THEN Deref(v, FindKey(v, key)) ELSE Throw

\* at: as operator[], but it throws for what is not there.
AtKey(v, key) == IF HasMember(v, key) THEN v.map[key] ELSE Throw
AtIndex(v, i) == IF IsArray(v) /\ i < Len(v.items) THEN v.items[i + 1] ELSE Throw

-----------------------------------------------------------------------------
(* Integers as text.                                                       *)

CountDigits(n) ==
  LET count[m \in 0..n] == IF m < 10 THEN 1 ELSE count[m \div 10] + 1
  IN count[n]

\* dump_integer: the digits are written from the last to the first.
DumpInteger(n) ==
  LET abs == IF n < 0 THEN -(n + 1) + 1 ELSE n
      written[m \in 0..abs] ==
        IF m < 10 THEN <<48 + m>> ELSE Append(written[m \div 10], 48 + (m % 10))
  IN (IF n < 0 THEN <<Minus>> ELSE <<>>) \o written[abs]

-----------------------------------------------------------------------------
(* get<T>.                                                                 *)

GetAsString(v) == IF IsString(v) THEN v ELSE Throw
GetAsBool(v) == IF IsBoolean(v) THEN v ELSE Throw

\* A float as an integer drops its fraction.
Truncated(v) ==
  LET whole == IF v.exp >= Len(v.digits)
                 THEN v.digits \o Zeros(v.exp - Len(v.digits))
                 ELSE SubSeq(v.digits, 1, v.exp)
  IN IF v.neg THEN -Number(whole) ELSE Number(whole)

\* get_arithmetic_value, and the overload for the other arithmetic types,
\* which takes a boolean too: Cast is the conversion to the type.
GetArithmetic(v, Cast(_), booleans) ==
  CASE IsNumberInteger(v) -> Cast(v.num)
    [] IsNumberFloat(v) -> Cast(Truncated(v))
    [] IsBoolean(v) /\ booleans -> Cast(IF v.bool THEN 1 ELSE 0)
    [] OTHER -> Throw

\* The conversions keep the low bits.
Wrap(n, max) == ((n + max + 1) % (2 * (max + 1))) - (max + 1)
ToUint64(n) == Unsigned(n % (MaxUnsigned + 1))
ToUint32(n) == Unsigned(n % (MaxUint32 + 1))
ToInt64(n) == Integer(Wrap(n, MaxSigned))
ToInt32(n) == Integer(Wrap(n, MaxInt32))

GetAsUint64(v) == GetArithmetic(v, ToUint64, FALSE)
GetAsUint32(v) == GetArithmetic(v, ToUint32, TRUE)
GetAsInt64(v) == GetArithmetic(v, ToInt64, FALSE)
GetAsInt32(v) == GetArithmetic(v, ToInt32, TRUE)

\* An integer as a double.
AsFloat(n) ==
  LET abs == IF n < 0 THEN -n ELSE n
  IN Decimal(n < 0, DigitsOf(DumpInteger(abs)), <<>>, 0)

GetAsDouble(v) == CASE IsNumberFloat(v) -> v
                    [] IsNumberInteger(v) -> AsFloat(v.num)
                    [] OTHER -> Throw

-----------------------------------------------------------------------------
(* operator== of numbers: by value, whatever their types.                  *)

SameFloat(a, b) ==
  a.digits = b.digits /\ a.exp = b.exp /\ (a.neg = b.neg \/ a.digits = <<>>)

NumbersEqual(a, b) ==
  IF IsNumberFloat(a) \/ IsNumberFloat(b) THEN SameFloat(GetAsDouble(a), GetAsDouble(b))
  ELSE IF a.type = b.type THEN a.num = b.num
  ELSE Wrap(a.num, MaxSigned) = Wrap(b.num, MaxSigned)

IsNumber(v) == IsNumberInteger(v) \/ IsNumberFloat(v)
=============================================================================
