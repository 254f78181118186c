----------------------------- MODULE JsonGrammar -----------------------------
(***************************************************************************)
(* What a JSON text is, stated as a grammar (RFC 8259) over well-formed    *)
(* UTF-8 (RFC 3629): the abstract specification of what the lexer and the  *)
(* parser accept.  Of a text s, every operator gives the positions at      *)
(* which a phrase that begins at position i may end.                       *)
(***************************************************************************)
EXTENDS JsonParser

At(s, i) == IF i \in DOMAIN s THEN s[i] ELSE EOF

\* A phrase of single bytes from given sets.
Bytes(s, i, sets) ==
  IF \A k \in DOMAIN sets : At(s, i + k - 1) \in sets[k] THEN {i + Len(sets)} ELSE {}

\* All bytes from i on, up to some end, are in the set.
Run(s, i, set) ==
  {j \in i..(Len(s) + 1) : \A k \in i..(j - 1) : s[k] \in set}

Then(ends, From(_)) == UNION {From(i) : i \in ends}

Gap(s, i) == Run(s, i, Space)
Digit1(s, i) == Run(s, i, Digits) \ {i}

-----------------------------------------------------------------------------
(* Strings.                                                                *)

Continuation == 128..191

\* The code point of n bytes from i, if they have the form of one.
PointOf(s, i, n) ==
  LET C(k) == At(s, i + k) - 128
  IN CASE n = 2 -> (At(s, i) - 192) * 64 + C(1)
       [] n = 3 -> (At(s, i) - 224) * 4096 + C(1) * 64 + C(2)
       [] n = 4 -> (At(s, i) - 240) * 262144 + C(1) * 4096 + C(2) * 64 + C(3)

Lead == (2 :> 192..223) @@ (3 :> 224..239) @@ (4 :> 240..247)
Least == (2 :> 128) @@ (3 :> 2048) @@ (4 :> 65536)

\* Shortest form, no surrogate, and no more than 10FFFF.
Multibyte(s, i) ==
  {i + n : n \in {n \in 2..4 :
     /\ At(s, i) \in Lead[n]
     /\ \A k \in 1..(n - 1) : At(s, i + k) \in Continuation
     /\ PointOf(s, i, n) \in Least[n]..1114111
     /\ PointOf(s, i, n) \notin 55296..57343}}

Hex == (48..57) \cup (65..70) \cup (97..102)
HexU(s, i) == Bytes(s, i, << {Backslash}, {117}, Hex, Hex, Hex, Hex >>)

\* The first two hexadecimal digits of a surrogate: D8 to DB, DC to DF.
IsD(s, i) == At(s, i + 2) \in {68, 100}
High(s, i) == IsD(s, i) /\ At(s, i + 3) \in {56, 57, 65, 66, 97, 98}
Low(s, i) == IsD(s, i) /\ At(s, i + 3) \in {67, 68, 69, 70, 99, 100, 101, 102}

Escape(s, i) ==
  LET pair == Then(HexU(s, i), LAMBDA j : IF Low(s, j) THEN HexU(s, j) ELSE {})
  IN Bytes(s, i, << {Backslash}, {34, 92, 47, 98, 102, 110, 114, 116} >>)
       \cup (IF High(s, i) THEN pair ELSE IF Low(s, i) THEN {} ELSE HexU(s, i))

Char(s, i) ==
  Bytes(s, i, << (32..127) \ {Quote, Backslash} >>) \cup Multibyte(s, i) \cup Escape(s, i)

RECURSIVE Chars(_, _)
Chars(s, i) == {i} \cup Then(Char(s, i), LAMBDA j : Chars(s, j))

Str(s, i) ==
  LET open == Bytes(s, i, << {Quote} >>)
      chars == Then(open, LAMBDA j : Chars(s, j))
  IN Then(chars, LAMBDA j : Bytes(s, j, << {Quote} >>))

-----------------------------------------------------------------------------
(* Numbers, which must be within the range of a double.                    *)

Sign(s, i, set) == {i} \cup Bytes(s, i, << set >>)
Whole(s, i) == Bytes(s, i, << {48} >>)
  \cup Then(Bytes(s, i, << 49..57 >>), LAMBDA j : Run(s, j, Digits))
Fraction(s, i) ==
  {i} \cup Then(Bytes(s, i, << {Dot} >>), LAMBDA j : Digit1(s, j))
Exponent(s, i) ==
  LET sign == Then(Bytes(s, i, << Ee >>), LAMBDA j : Sign(s, j, {43, Minus}))
  IN {i} \cup Then(sign, LAMBDA j : Digit1(s, j))

Num(s, i) ==
  LET whole == Then(Sign(s, i, {Minus}), LAMBDA j : Whole(s, j))
      fraction == Then(whole, LAMBDA j : Fraction(s, j))
      ends == Then(fraction, LAMBDA j : Exponent(s, j))
  IN {j \in ends : IsFinite(Strtod(SubSeq(s, i, j - 1)))}

-----------------------------------------------------------------------------
(* Values.                                                                 *)

Word(s, i, bytes) == Bytes(s, i, [k \in DOMAIN bytes |-> {bytes[k]}])

RECURSIVE Val(_, _), Items(_, _), Members(_, _)

\* A value between gaps.
Spaced(s, i) ==
  Then(Then(Gap(s, i), LAMBDA j : Val(s, j)), LAMBDA j : Gap(s, j))

Items(s, i) ==
  LET first == Spaced(s, i)
  IN first \cup Then(Then(first, LAMBDA j : Bytes(s, j, << {44} >>)),
                     LAMBDA j : Items(s, j))

Member(s, i) ==
  LET key == Then(Then(Gap(s, i), LAMBDA j : Str(s, j)), LAMBDA j : Gap(s, j))
  IN Then(Then(key, LAMBDA j : Bytes(s, j, << {58} >>)), LAMBDA j : Spaced(s, j))

Members(s, i) ==
  LET first == Member(s, i)
  IN first \cup Then(Then(first, LAMBDA j : Bytes(s, j, << {44} >>)),
                     LAMBDA j : Members(s, j))

Val(s, i) ==
  LET array == Then(Bytes(s, i, << {91} >>),
                    LAMBDA j : Gap(s, j) \cup Items(s, j))
      object == Then(Bytes(s, i, << {123} >>),
                     LAMBDA j : Gap(s, j) \cup Members(s, j))
  IN Str(s, i) \cup Num(s, i)
       \cup Word(s, i, <<116, 114, 117, 101>>)
       \cup Word(s, i, <<102, 97, 108, 115, 101>>)
       \cup Word(s, i, <<110, 117, 108, 108>>)
       \cup Then(array, LAMBDA j : Bytes(s, j, << {93} >>))
       \cup Then(object, LAMBDA j : Bytes(s, j, << {125} >>))

\* A byte order mark may come first.
IsJson(s) ==
  LET mark == {1} \cup Bytes(s, 1, << {239}, {187}, {191} >>)
  IN Len(s) + 1 \in Then(mark, LAMBDA j : Spaced(s, j))
=============================================================================
