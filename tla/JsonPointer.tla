------------------------------ MODULE JsonPointer ------------------------------
(***************************************************************************)
(* json_pointer: a pointer is the sequence of its reference tokens, or     *)
(* NoPointer where the text is none.  The accessors walk a value; those    *)
(* that create what is missing yield the value they leave behind.          *)
(***************************************************************************)
EXTENDS JsonContainer

Slash == 47
Tilde == 126
Hyphen == <<Minus>>
Zero == <<48>>

NoPointer == <<<<-1>>>>      \* what the constructor refuses: no byte is -1

-----------------------------------------------------------------------------
(* Text.                                                                   *)

\* Every occurrence of f from the left; what replaced one is not looked at.
RECURSIVE ReplaceSubstring(_, _, _)
ReplaceSubstring(s, f, t) ==
  IF Len(s) < Len(f) THEN s
  ELSE IF IsPrefix(f, s) THEN t \o ReplaceSubstring(SubSeq(s, Len(f) + 1, Len(s)), f, t)
  ELSE <<Head(s)>> \o ReplaceSubstring(Tail(s), f, t)

Escape(s) ==
  ReplaceSubstring(ReplaceSubstring(s, <<Tilde>>, <<Tilde, 48>>), <<Slash>>, <<Tilde, 49>>)

\* unescape
Unescape(s) ==
  ReplaceSubstring(ReplaceSubstring(s, <<Tilde, 49>>, <<Slash>>), <<Tilde, 48>>, <<Tilde>>)

\* A ~ must be followed by 0 or 1.
WellEscaped(s) ==
  \A i \in DOMAIN s : s[i] = Tilde => i < Len(s) /\ s[i + 1] \in {48, 49}

\* split: the tokens between the slashes.
Split(text) ==
  LET slashes == {i \in DOMAIN text : text[i] = Slash}
      After(i) == {j \in slashes : j > i}
      token(i) == LET stop == CHOOSE j \in After(i) \cup {Len(text) + 1} :
                                \A k \in After(i) : j <= k
                  IN SubSeq(text, i + 1, stop - 1)
      starts == SetToSortSeq(slashes, <)
  IN IF text = <<>> THEN <<>>
     ELSE IF text[1] # Slash \/ \E i \in slashes : ~WellEscaped(token(i)) THEN NoPointer
     ELSE [n \in DOMAIN starts |-> Unescape(token(starts[n]))]

PointerText(ptr) == FlattenSeq([n \in DOMAIN ptr |-> <<Slash>> \o Escape(ptr[n])])

\* operator/ with a token, or with an array index.
SlashToken(ptr, token) == Append(ptr, token)
SlashIndex(ptr, idx) == SlashToken(ptr, DumpInteger(idx))

\* pop_back, back and parent_pointer; the root has no parent.
HasParent(ptr) == ptr # <<>>
PopBack(ptr) == Front(ptr)
BackToken(ptr) == Last(ptr)
ParentPointer(ptr) == IF ptr = <<>> THEN ptr ELSE PopBack(ptr)

-----------------------------------------------------------------------------
(* Array indices: -1 stands for a token that array_index refuses.          *)

BadIndex == -1

AllDigits(token) == token # <<>> /\ \A i \in DOMAIN token : token[i] \in Digits

\* array_index: a longer token must not begin with 0, nor exceed size_type.
InSizeType(n) == IF n >= MaxUnsigned THEN BadIndex ELSE n
ArrayIndex(token) ==
  IF ~AllDigits(token) \/ (Len(token) > 1 /\ token[1] = 48)
    THEN BadIndex
    ELSE InSizeType(Number(DigitsOf(token)))

-----------------------------------------------------------------------------
(* Access.                                                                 *)

IsPrimitive(v) == ~IsArray(v) /\ ~IsObject(v)

\* One step of get_checked, which at() uses.
Checked(v, token) ==
  CASE IsObject(v) -> AtKey(v, token)
    [] IsArray(v) -> IF token = Hyphen \/ ArrayIndex(token) = BadIndex THEN Throw
                     ELSE AtIndex(v, ArrayIndex(token))
    [] OTHER -> Throw

At(v, ptr) ==
  FoldLeft(LAMBDA u, token : IF IsThrow(u) THEN u ELSE Checked(u, token), v, ptr)

\* contains: where get_checked throws it is false, but for an empty token and
\* an index beyond size_type in an array, on which array_index throws.
RECURSIVE ContainsPointer(_, _)
ContainsPointer(v, ptr) ==
  LET token == Head(ptr)
      index == token = <<>> \/ (AllDigits(token) /\ (Len(token) > 1 => token[1] # 48))
      there == IF IsObject(v) THEN HasMember(v, token) ELSE ArrayIndex(token) < Size(v)
  IN IF ptr = <<>> THEN Boolean(TRUE)
     ELSE IF IsPrimitive(v) \/ (IsArray(v) /\ ~index) THEN Boolean(FALSE)
     ELSE IF IsArray(v) /\ ArrayIndex(token) = BadIndex THEN Throw
     ELSE IF ~there THEN Boolean(FALSE)
     ELSE ContainsPointer(Checked(v, token), Tail(ptr))

\* The value with what is at a pointer that resolves replaced.
RECURSIVE Assign(_, _, _)
Assign(v, ptr, new) ==
  IF ptr = <<>> THEN new
  ELSE LET sub == Assign(Checked(v, Head(ptr)), Tail(ptr), new)
       IN IF IsObject(v) THEN Object(With(v.map, Head(ptr), sub))
          ELSE Array(ReplaceAt(v.items, ArrayIndex(Head(ptr)) + 1, sub))

-----------------------------------------------------------------------------
(* Access that creates what is missing, followed by an assignment.         *)

\* The element that a token leads to, created where it is missing, or Throw.
Create(v, token) ==
  CASE IsObject(v) -> Opened(v, token)
    [] IsArray(v) -> IF ArrayIndex(token) = BadIndex THEN Throw ELSE Grown(v, ArrayIndex(token))
    [] OTHER -> Throw

\* get_and_create: a null becomes an array for the token "0".
CreateFlat(v, token) ==
  Create(Become(v, IF token = Zero THEN EmptyArray ELSE EmptyObject), token)

\* get_unchecked, which operator[] uses: a null becomes an array for a number
\* or for "-", which stands for the element after the last.
CreateUnchecked(v, token) ==
  LET numeric == token = Hyphen \/ \A i \in DOMAIN token : token[i] \in Digits
      u == Become(v, IF numeric THEN EmptyArray ELSE EmptyObject)
  IN IF IsArray(u) /\ token = Hyphen THEN Grown(u, Size(u)) ELSE Create(u, token)

RECURSIVE Store(_, _, _, _)
Store(v, ptr, new, flat) ==
  LET token == Head(ptr)
      u == IF flat THEN CreateFlat(v, token) ELSE CreateUnchecked(v, token)
      last == IF token = Hyphen /\ IsArray(u) THEN DumpInteger(Size(u) - 1) ELSE token
      sub == Store(Checked(u, last), Tail(ptr), new, flat)
  IN IF ptr = <<>> THEN new
     ELSE IF IsThrow(u) \/ IsThrow(sub) THEN Throw
     ELSE Assign(u, <<last>>, sub)

-----------------------------------------------------------------------------
(* flatten and unflatten.                                                  *)

\* The pairs of an escaped pointer and a primitive; an empty container
\* becomes a null.
RECURSIVE FlatPairs(_, _)
FlatPairs(path, v) ==
  IF IsPrimitive(v) THEN path :> v
  ELSE IF IsEmpty(v) THEN path :> Null
  ELSE IF IsArray(v)
    THEN FoldLeftDomain(LAMBDA pairs, i :
           pairs @@ FlatPairs(path \o <<Slash>> \o DumpInteger(i - 1), v.items[i]),
           EmptyMap, v.items)
    ELSE FoldLeft(LAMBDA pairs, key :
           pairs @@ FlatPairs(path \o <<Slash>> \o Escape(key), v.map[key]),
           EmptyMap, Keys(v.map))

Flatten(v) == Object(FlatPairs(<<>>, v))

Unflatten(v) ==
  LET Put(u, key) ==
        LET ptr == Split(key)
        IN IF IsThrow(u) \/ ptr = NoPointer \/ ~IsPrimitive(v.map[key]) THEN Throw
           ELSE Store(u, ptr, v.map[key], TRUE)
  IN IF ~IsObject(v) THEN Throw ELSE FoldLeft(Put, Null, Keys(v.map))
=============================================================================
